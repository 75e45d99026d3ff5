------------------------- MODULE CpuRefinementProofs -------------------------
(***************************************************************************)
(* The machine of Cpu implements the private contexts of Domains.          *)
(***************************************************************************)
EXTENDS CpuRefinement, CpuProofs

\* A number below the modulus is its own remainder
LEMMA SmallModulus ==
  ASSUME NEW n \in Nat \ {0}, NEW x \in 0 .. n - 1
  PROVE  x % n = x
OBVIOUS

\* Cutting a number twice is cutting it once
LEMMA ModulusTwice ==
  ASSUME NEW n \in Nat \ {0}, NEW x \in Nat
  PROVE  x % n \in 0 .. n - 1 /\ (x % n) % n = x % n
<1>1. x % n \in 0 .. n - 1 OBVIOUS
<1> QED BY <1>1, SmallModulus

\* Adding nothing to an address leaves it alone
LEMMA PlusNothing ==
  ASSUME NEW a \in Addr
  PROVE  Plus(a, 0) = a
BY AddressAssumption, SmallModulus DEF Plus, Addr

\* LOADI adds 1 before set_interrupt and 5 after it (cpu.c:1447-1459)
LEMMA SkipTwice ==
  ASSUME NEW a \in Addr
  PROVE  Plus(Plus(a, 1), 5) = Plus(a, 6)
<1>1. AddrSpace \in Nat \ {0} /\ a \in 0 .. AddrSpace - 1
  BY AddressAssumption DEF Addr
<1>2. CASE a + 1 < AddrSpace
  <2>1. Plus(a, 1) = a + 1 BY <1>1, <1>2, SmallModulus DEF Plus
  <2> QED BY <1>1, <2>1 DEF Plus
<1>3. CASE a + 1 = AddrSpace
  <2>1. Plus(a, 1) = 0 BY <1>1, <1>3 DEF Plus
  <2>2. (AddrSpace + 5) % AddrSpace = 5 % AddrSpace BY <1>1
  <2> QED BY <1>1, <1>3, <2>1, <2>2 DEF Plus
<1> QED BY <1>1, <1>2, <1>3

\* Domains and Cpu see the same instructions
LEMMA SameOutcomes ==
  ASSUME NEW c, NEW i
  PROVE  D!Outcomes(c, i) = Outcomes(c, i)
<1>1. \A d, n : D!Skip(d, n) = Skip(d, n) BY DEF D!Skip, Skip, D!Plus, Plus
<1>2. D!Ordinary(c) = Ordinary(c)
  BY <1>1 DEF D!Ordinary, Ordinary, D!OrdinarySizes, OrdinarySizes, D!Registers, Registers,
     D!StackSizes, StackSizes, D!CompareSizes, CompareSizes, D!ItemSizes, ItemSizes,
     D!MemorySizes, MemorySizes, D!BlockSizes, BlockSizes, D!LogicSizes, LogicSizes,
     D!RegisterSizes, RegisterSizes, D!FloatSizes, FloatSizes, D!MathSizes, MathSizes,
     D!BooleanSizes, BooleanSizes, D!WideSizes, WideSizes
<1>3. D!Jump(c) = Jump(c)
  BY <1>1 DEF D!Jump, Jump, D!Landings, Landings, D!IntoPushIp, IntoPushIp
<1>4. \A d, a : D!PushCall(d, a) = PushCall(d, a) BY DEF D!PushCall, PushCall
<1>5. \A d : D!PopCall(d) = PopCall(d) /\ D!TopCall(d) = TopCall(d)
  BY DEF D!PopCall, PopCall, D!TopCall, TopCall, D!Underflow, Underflow
<1>6. D!Call(c) = Call(c) /\ D!Return(c) = Return(c)
  BY <1>4, <1>5 DEF D!Call, Call, D!Return, Return, D!Plus, Plus
<1>7. D!PushAddress(c) = PushAddress(c) /\ D!PopAddress(c) = PopAddress(c)
  BY <1>1, <1>4, <1>5 DEF D!PushAddress, PushAddress, D!PopAddress, PopAddress,
     D!Registers, Registers
<1>8. D!Interrupt(c, i) = Interrupt(c, i)
  BY <1>1, <1>4 DEF D!Interrupt, Interrupt, D!Plus, Plus
<1>9. D!Catch(c) = Catch(c) BY <1>1 DEF D!Catch, Catch
<1>10. D!Handle(c) = Handle(c) BY <1>1 DEF D!Handle, Handle
<1>11. D!PopFlags(c) = PopFlags(c)
  BY DEF D!PopFlags, PopFlags, D!Skip, Skip, D!Plus, Plus, D!Registers, Registers
<1> QED
  BY <1>2, <1>3, <1>6, <1>7, <1>8, <1>9, <1>10, <1>11
  DEF D!Outcomes, Outcomes, D!Roomy, Roomy

\* and the same faults
LEMMA SameFaults ==
  /\ D!Faults = Faults
  /\ \A c, id : D!HandlersOf(c, id) = HandlersOf(c, id)
  /\ \A c, id, h : D!EntersHandler(c, id, h) <=> EntersHandler(c, id, h)
  /\ \A c, h : D!InHandler(c, h) = InHandler(c, h)
  /\ \A c, n : D!Skip(c, n) = Skip(c, n)
  /\ \A a : D!NewContext(a) = NewContext(a)
  /\ D!Addr = Addr /\ D!Registers = Registers
<1>1. D!Faults = Faults BY DEF D!Faults, Faults, D!CpuBreakPoint, CpuBreakPoint
<1>2. \A c, id : D!HandlersOf(c, id) = HandlersOf(c, id)
  BY DEF D!HandlersOf, HandlersOf, D!Addr, Addr
<1>3. \A c, id, h : D!EntersHandler(c, id, h) <=> EntersHandler(c, id, h)
  BY DEF D!EntersHandler, EntersHandler, D!CpuBreakPoint, CpuBreakPoint
<1>4. \A c, h : D!InHandler(c, h) = InHandler(c, h) BY DEF D!InHandler, InHandler
<1>5. \A c, n : D!Skip(c, n) = Skip(c, n) BY DEF D!Skip, Skip, D!Plus, Plus
<1>6. \A a : D!NewContext(a) = NewContext(a)
  BY DEF D!NewContext, NewContext, D!NoHandlers, NoHandlers
<1>7. D!Addr = Addr /\ D!Registers = Registers
  BY DEF D!Addr, Addr, D!Registers, Registers
<1> QED BY <1>1, <1>2, <1>3, <1>4, <1>5, <1>6, <1>7

-----------------------------------------------------------------------------
(* Registers.                                                               *)

\* A context as it is kept in the table
Kept(c) == [c EXCEPT !.reg = @ % JobRegisterSpace]

\* Keeping a context is idempotent, and keeps it a context
LEMMA KeptType ==
  ASSUME NEW c \in Context
  PROVE  /\ Kept(c) \in Context
         /\ Kept(c).reg \in 0 .. JobRegisterSpace - 1
         /\ Kept(Kept(c)) = Kept(c)
         /\ c.reg \in 0 .. JobRegisterSpace - 1 => Kept(c) = c
<1>1. c.reg \in Nat BY RegisterAssumption DEF Context, Registers
<1>2. /\ c.reg % JobRegisterSpace \in 0 .. JobRegisterSpace - 1
      /\ (c.reg % JobRegisterSpace) % JobRegisterSpace = c.reg % JobRegisterSpace
  BY <1>1, ModulusTwice, JobRegisterAssumption
<1>3. 0 .. JobRegisterSpace - 1 \subseteq Registers
  BY JobRegisterAssumption, RegisterAssumption DEF Registers
<1>4. Kept(c) \in Context /\ Kept(c).reg = c.reg % JobRegisterSpace
  BY <1>2, <1>3 DEF Kept, Context
<1>5. Kept(Kept(c)) = Kept(c) BY <1>2, <1>4 DEF Kept, Context
<1>6. ASSUME c.reg \in 0 .. JobRegisterSpace - 1 PROVE Kept(c) = c
  BY <1>6, SmallModulus, JobRegisterAssumption DEF Kept, Context
<1> QED BY <1>2, <1>4, <1>5, <1>6

\* What an instruction does beside the registers does not depend on them
LEMMA KeptCommutes ==
  ASSUME NEW c \in Context
  PROVE  /\ \A n : Skip(Kept(c), n) = Kept(Skip(c, n))
         /\ \A a : PushCall(Kept(c), a) = Kept(PushCall(c, a))
         /\ PopCall(Kept(c)) = Kept(PopCall(c))
         /\ TopCall(Kept(c)) = TopCall(c)
         /\ \A a : [Kept(c) EXCEPT !.ip = a] = Kept([c EXCEPT !.ip = a])
         /\ \A r : [Kept(c) EXCEPT !.reg = r] = [c EXCEPT !.reg = r]
         /\ Kept(c).ip = c.ip /\ Kept(c).eflag = c.eflag
         /\ Kept(c).handlers = c.handlers /\ Kept(c).calls = c.calls
<1>1. /\ Kept(c).ip = c.ip /\ Kept(c).eflag = c.eflag
      /\ Kept(c).handlers = c.handlers /\ Kept(c).calls = c.calls
  BY DEF Kept, Context
<1>2. \A n : Skip(Kept(c), n) = Kept(Skip(c, n)) BY DEF Skip, Kept, Context
<1>3. \A a : PushCall(Kept(c), a) = Kept(PushCall(c, a)) BY DEF PushCall, Kept, Context
<1>4. PopCall(Kept(c)) = Kept(PopCall(c)) BY <1>1 DEF PopCall, Kept, Context
<1>5. TopCall(Kept(c)) = TopCall(c) BY <1>1 DEF TopCall
<1>6. \A a : [Kept(c) EXCEPT !.ip = a] = Kept([c EXCEPT !.ip = a]) BY DEF Kept, Context
<1>7. \A r : [Kept(c) EXCEPT !.reg = r] = [c EXCEPT !.reg = r] BY DEF Kept, Context
<1> QED BY <1>1, <1>2, <1>3, <1>4, <1>5, <1>6, <1>7

\* Outcomes, kind by kind
LEMMA OutcomesByKind ==
  ASSUME NEW c, NEW i, NEW d
  PROVE  d \in Outcomes(c, i) <=>
           \/ "ordinary" \in Kinds /\ d \in Ordinary(c)
           \/ "jump" \in Kinds /\ d \in Jump(c)
           \/ "call" \in Kinds /\ Roomy(c) /\ d \in Call(c)
           \/ "return" \in Kinds /\ d \in Return(c)
           \/ "pusha" \in Kinds /\ Roomy(c) /\ d \in PushAddress(c)
           \/ "popa" \in Kinds /\ d \in PopAddress(c)
           \/ "int" \in Kinds /\ Roomy(c) /\ d \in Interrupt(c, i)
           \/ "catch" \in Kinds /\ d \in Catch(c)
           \/ "handle" \in Kinds /\ d \in Handle(c)
           \/ "popf" \in Kinds /\ d \in PopFlags(c)
<1> DEFINE Of(b, S) == IF b THEN S ELSE {}
<1>1. Outcomes(c, i) =
        UNION {Of("ordinary" \in Kinds, Ordinary(c)),
               Of("jump" \in Kinds, Jump(c)),
               Of("call" \in Kinds /\ Roomy(c), Call(c)),
               Of("return" \in Kinds, Return(c)),
               Of("pusha" \in Kinds /\ Roomy(c), PushAddress(c)),
               Of("popa" \in Kinds, PopAddress(c)),
               Of("int" \in Kinds /\ Roomy(c), Interrupt(c, i)),
               Of("catch" \in Kinds, Catch(c)),
               Of("handle" \in Kinds, Handle(c)),
               Of("popf" \in Kinds, PopFlags(c))}
  BY DEF Outcomes
<1>2. /\ d \in Of("ordinary" \in Kinds, Ordinary(c))
           <=> "ordinary" \in Kinds /\ d \in Ordinary(c)
      /\ d \in Of("jump" \in Kinds, Jump(c))
           <=> "jump" \in Kinds /\ d \in Jump(c)
      /\ d \in Of("call" \in Kinds /\ Roomy(c), Call(c))
           <=> "call" \in Kinds /\ Roomy(c) /\ d \in Call(c)
      /\ d \in Of("return" \in Kinds, Return(c))
           <=> "return" \in Kinds /\ d \in Return(c)
      /\ d \in Of("pusha" \in Kinds /\ Roomy(c), PushAddress(c))
           <=> "pusha" \in Kinds /\ Roomy(c) /\ d \in PushAddress(c)
      /\ d \in Of("popa" \in Kinds, PopAddress(c))
           <=> "popa" \in Kinds /\ d \in PopAddress(c)
      /\ d \in Of("int" \in Kinds /\ Roomy(c), Interrupt(c, i))
           <=> "int" \in Kinds /\ Roomy(c) /\ d \in Interrupt(c, i)
      /\ d \in Of("catch" \in Kinds, Catch(c))
           <=> "catch" \in Kinds /\ d \in Catch(c)
      /\ d \in Of("handle" \in Kinds, Handle(c))
           <=> "handle" \in Kinds /\ d \in Handle(c)
      /\ d \in Of("popf" \in Kinds, PopFlags(c))
           <=> "popf" \in Kinds /\ d \in PopFlags(c)
  OBVIOUS
<1> HIDE DEF Of
<1>3. d \in Outcomes(c, i) <=>
        \/ d \in Of("ordinary" \in Kinds, Ordinary(c))
        \/ d \in Of("jump" \in Kinds, Jump(c))
        \/ d \in Of("call" \in Kinds /\ Roomy(c), Call(c))
        \/ d \in Of("return" \in Kinds, Return(c))
        \/ d \in Of("pusha" \in Kinds /\ Roomy(c), PushAddress(c))
        \/ d \in Of("popa" \in Kinds, PopAddress(c))
        \/ d \in Of("int" \in Kinds /\ Roomy(c), Interrupt(c, i))
        \/ d \in Of("catch" \in Kinds, Catch(c))
        \/ d \in Of("handle" \in Kinds, Handle(c))
        \/ d \in Of("popf" \in Kinds, PopFlags(c))
  BY <1>1
<1> QED BY <1>2, <1>3

\* An instruction either sets the registers, to anything, or leaves them alone:
\* what is cut off when a context is kept does not tell where it goes
LEMMA OutcomeOfKept ==
  ASSUME NEW c \in Context, NEW i \in Addr, NEW d \in Outcomes(c, i)
  PROVE  \E e \in Outcomes(Kept(c), i) : Kept(e) = Kept(d)
<1> DEFINE Goal == \E e \in Outcomes(Kept(c), i) : Kept(e) = Kept(d)
<1>1. d \in Context BY OutcomesType
<1>2. Kept(c) \in Context /\ Kept(Kept(d)) = Kept(d) BY <1>1, KeptType
<1>3. ASSUME Kept(d) \in Outcomes(Kept(c), i) \/ d \in Outcomes(Kept(c), i)
      PROVE  Goal
  BY <1>2, <1>3
<1>4. \A n \in Int : Skip(c, n) \in Context BY SkipType
<1>15. \A n \in Int : Plus(c.ip, n) \in Addr BY PlusIsAddr, AddrIsInt DEF Context
<1> SUFFICES Goal OBVIOUS
<1> HIDE DEF Goal
<1>5. CASE "ordinary" \in Kinds /\ d \in Ordinary(c)
  <2>1. PICK n \in OrdinarySizes, r \in Registers : d = [Skip(c, n) EXCEPT !.reg = r]
    BY <1>5 DEF Ordinary
  <2>2. n \in Int
    BY DEF OrdinarySizes, StackSizes, CompareSizes, ItemSizes, MemorySizes,
           BlockSizes, LogicSizes, RegisterSizes, FloatSizes, MathSizes,
           BooleanSizes, WideSizes
  <2>3. d = [Skip(Kept(c), n) EXCEPT !.reg = r]
    BY <1>4, <2>1, <2>2, KeptCommutes
  <2>4. d \in Ordinary(Kept(c)) BY <2>3 DEF Ordinary
  <2> QED BY <1>3, <1>5, <2>4, OutcomesByKind
<1>6. CASE "jump" \in Kinds /\ d \in Jump(c)
  <2>1. ASSUME NEW l \in Landings(c)
        PROVE  l \in Context /\ Kept(l) \in Landings(Kept(c))
    <3>1. CASE l = Skip(c, 5) BY <1>4, <3>1, KeptCommutes DEF Landings
    <3>2. CASE \E t \in Targets : l = [c EXCEPT !.ip = t]
      <4>1. PICK t \in Targets : l = [c EXCEPT !.ip = t] BY <3>2
      <4>2. l \in Context BY <4>1, AddressAssumption DEF Context
      <4>3. Kept(l) = [Kept(c) EXCEPT !.ip = t] BY <4>1, KeptCommutes
      <4> QED BY <4>2, <4>3 DEF Landings
    <3> QED BY <2>1, <3>1, <3>2 DEF Landings
  <2>2. CASE d \in Landings(c)
    BY <1>3, <1>6, <2>1, <2>2, OutcomesByKind DEF Jump
  <2>3. CASE d \in IntoPushIp(c)
    <3>1. PICK l \in Landings(c) : Optimize /\ d = Skip(l, 1) BY <2>3 DEF IntoPushIp
    <3>2. Kept(d) = Skip(Kept(l), 1) BY <2>1, <3>1, KeptCommutes
    <3>3. Kept(d) \in IntoPushIp(Kept(c)) BY <2>1, <3>1, <3>2 DEF IntoPushIp
    <3> QED BY <1>3, <1>6, <3>3, OutcomesByKind DEF Jump
  <2> QED BY <1>6, <2>2, <2>3 DEF Jump
<1>7. CASE "call" \in Kinds /\ Roomy(c) /\ d \in Call(c)
  <2>1. PICK t \in Targets : d = [PushCall(c, Plus(c.ip, 5)) EXCEPT !.ip = t]
    BY <1>7 DEF Call
  <2>2. PushCall(c, Plus(c.ip, 5)) \in Context
    BY <1>15, PushCallType
  <2>3. Kept(d) = [PushCall(Kept(c), Plus(Kept(c).ip, 5)) EXCEPT !.ip = t]
    BY <2>1, <2>2, KeptCommutes
  <2>4. Roomy(Kept(c)) BY <1>7, KeptCommutes DEF Roomy
  <2>5. Kept(d) \in Call(Kept(c)) BY <2>3 DEF Call
  <2> QED BY <1>3, <1>7, <2>4, <2>5, OutcomesByKind
<1>8. CASE "return" \in Kinds /\ d \in Return(c)
  <2>1. d = [PopCall(c) EXCEPT !.ip = TopCall(c)] BY <1>8 DEF Return
  <2>0. PopCall(c) \in Context BY PopCallType
  <2>2. Kept(d) = [PopCall(Kept(c)) EXCEPT !.ip = TopCall(Kept(c))]
    BY <2>0, <2>1, KeptCommutes
  <2>3. Kept(d) \in Return(Kept(c)) BY <2>2 DEF Return
  <2> QED BY <1>3, <1>8, <2>3, OutcomesByKind
<1>9. CASE "pusha" \in Kinds /\ Roomy(c) /\ d \in PushAddress(c)
  <2>1. PICK t \in Targets, n \in {2, 5} : d = Skip(PushCall(c, t), n)
    BY <1>9 DEF PushAddress
  <2>2. PushCall(c, t) \in Context BY PushCallType, AddressAssumption
  <2>3. Kept(d) = Skip(PushCall(Kept(c), t), n) BY <2>1, <2>2, KeptCommutes
  <2>4. Roomy(Kept(c)) BY <1>9, KeptCommutes DEF Roomy
  <2>5. Kept(d) \in PushAddress(Kept(c)) BY <2>3 DEF PushAddress
  <2> QED BY <1>3, <1>9, <2>4, <2>5, OutcomesByKind
<1>10. CASE "popa" \in Kinds /\ d \in PopAddress(c)
  <2>1. PopCall(c) \in Context BY PopCallType
  <2>2. CASE d = Skip(PopCall(c), 1)
    <3>1. Kept(d) = Skip(PopCall(Kept(c)), 1) BY <2>1, <2>2, KeptCommutes
    <3>2. Kept(d) \in PopAddress(Kept(c)) BY <3>1 DEF PopAddress
    <3> QED BY <1>3, <1>10, <3>2, OutcomesByKind
  <2>3. ASSUME NEW r \in Registers, d = [Skip(PopCall(c), 2) EXCEPT !.reg = r]
        PROVE  Goal
    <3>1. Skip(PopCall(c), 2) \in Context BY <2>1, SkipType
    <3>2. d = [Skip(PopCall(Kept(c)), 2) EXCEPT !.reg = r]
      BY <2>1, <2>3, <3>1, KeptCommutes
    <3>3. d \in PopAddress(Kept(c)) BY <3>2 DEF PopAddress
    <3> QED BY <1>3, <1>10, <3>3, OutcomesByKind
  <2> QED BY <1>10, <2>2, <2>3 DEF PopAddress
<1>11. CASE "int" \in Kinds /\ Roomy(c) /\ d \in Interrupt(c, i)
  <2>1. PushCall(c, Plus(c.ip, 2)) \in Context
    BY <1>15, PushCallType
  <2>2. Kept(d) \in Interrupt(Kept(c), i)
    <3>1. CASE i = 0
      <4>1. Kept(d) = Skip(Kept(c), 2) BY <1>11, <3>1, KeptCommutes DEF Interrupt
      <4> QED BY <3>1, <4>1 DEF Interrupt
    <3>2. CASE i # 0
      <4>0. d = [PushCall(c, Plus(c.ip, 2)) EXCEPT !.ip = i]
        BY <1>11, <3>2 DEF Interrupt
      <4>1. Kept(d) = [PushCall(Kept(c), Plus(Kept(c).ip, 2)) EXCEPT !.ip = i]
        BY <2>1, <4>0, KeptCommutes
      <4> QED BY <3>2, <4>1 DEF Interrupt
    <3> QED BY <3>1, <3>2
  <2>3. Roomy(Kept(c)) BY <1>11, KeptCommutes DEF Roomy
  <2> QED BY <1>3, <1>11, <2>2, <2>3, OutcomesByKind
<1>12. CASE "catch" \in Kinds /\ d \in Catch(c)
  <2>1. Kept(Skip(c, 1)) = Skip(Kept(c), 1) BY KeptCommutes
  <2>2. CASE d = Skip(c, 1)
    <3>1. Kept(d) \in Catch(Kept(c)) BY <2>1, <2>2 DEF Catch
    <3> QED BY <1>3, <1>12, <3>1, OutcomesByKind
  <2>3. ASSUME NEW id \in 0 .. TotalExceptions, NEW t \in Targets \cup {0},
               d = [Skip(c, 1) EXCEPT !.handlers[id] = t]
        PROVE  Goal
    <3>1. Skip(c, 1) \in Context BY <1>4
    <3>2. Kept(d) = [Kept(Skip(c, 1)) EXCEPT !.handlers[id] = t]
      BY <2>3, <3>1 DEF Kept, Context
    <3>3. Kept(d) \in Catch(Kept(c)) BY <2>1, <3>2 DEF Catch
    <3> QED BY <1>3, <1>12, <3>3, OutcomesByKind
  <2> QED BY <1>12, <2>2, <2>3 DEF Catch
<1>13. CASE "handle" \in Kinds /\ d \in Handle(c)
  <2>1. Kept(Skip(c, 1)) = Skip(Kept(c), 1) /\ Skip(c, 1) \in Context
    BY <1>4, KeptCommutes
  <2>2. d = [Skip(c, 1) EXCEPT !.eflag = FALSE] BY <1>13 DEF Handle
  <2>3. Kept(d) = [Kept(Skip(c, 1)) EXCEPT !.eflag = FALSE]
    BY <2>1, <2>2 DEF Kept, Context
  <2>4. Kept(d) \in Handle(Kept(c)) BY <2>1, <2>3 DEF Handle
  <2> QED BY <1>3, <1>13, <2>4, OutcomesByKind
<1>14. CASE "popf" \in Kinds /\ d \in PopFlags(c)
  <2> DEFINE Flags(x, r, b) == [x EXCEPT !.reg = r, !.eflag = b]
  <2>1. Kept(Skip(c, 1)) = Skip(Kept(c), 1) /\ Skip(c, 1) \in Context
    BY <1>4, KeptCommutes
  <2>2. \A x : PopFlags(x) = {Flags(Skip(x, 1), r, b) : r \in Registers, b \in BOOLEAN}
    BY DEF PopFlags
  <2>3. \A x \in Context : \A r, b : Flags(Kept(x), r, b) = Flags(x, r, b)
    BY DEF Kept, Context
  <2> HIDE DEF Flags
  <2>4. d \in PopFlags(Kept(c)) BY <1>14, <2>1, <2>2, <2>3
  <2> QED BY <1>3, <1>14, <2>4, OutcomesByKind
<1> QED
  BY <1>5, <1>6, <1>7, <1>8, <1>9, <1>10, <1>11, <1>12, <1>13, <1>14,
     OutcomesByKind

-----------------------------------------------------------------------------
(* What the refinement needs beside IInv.                                   *)

\* The operator does not switch domains
NoSwitch == "switchdomain" \notin Commands

\* Every job is a main job, the table stays below the names of domains, no copy
\* has been mixed with another, and what is owed to the pointer of an instruction
\* is owed to one that is otherwise over
RInv ==
    /\ IInv
    /\ ~torn
    /\ ResumeAdds
    /\ \A d \in LiveJobs : jobs[d].ismain = TRUE
    /\ total <= MaxJobs + Chunk

\* RInv holds at the start
LEMMA InitNames == Init => RInv
<1> SUFFICES ASSUME Init PROVE RInv OBVIOUS
<1> DEFINE bios == [NewJob(0, 0, TRUE) EXCEPT !.reg = Entry % JobRegisterSpace]
<1>1. IInv BY InitHolds
<1>2. bios.ismain = TRUE BY DEF NewJob
<1>3. \A d \in LiveJobs : jobs[d] = bios BY DEF Init, LiveJobs, Live, Slots
<1>4. total <= MaxJobs + Chunk BY TableAssumption DEF Init
<1>5. ~torn /\ ResumeAdds BY DEF Init, ResumeAdds, NoResume
<1> HIDE DEF bios
<1> QED BY <1>1, <1>2, <1>3, <1>4, <1>5 DEF RInv

\* The debugger is entered with something to add from an instruction only
LEMMA StepAdds == ASSUME RInv, [Next]_vars PROVE ResumeAdds'
<1>1. CASE UNCHANGED resume BY <1>1 DEF RInv, ResumeAdds
<1>2. CASE resume' = NoResume BY <1>2 DEF ResumeAdds, NoResume
<1>3. ASSUME NEW next \in LoopSteps \cup {"stopped"}, EnterDebugger(next, 0)
      PROVE  ResumeAdds'
  BY <1>3, EnterDebuggerAdds
<1>4. ASSUME NEW f \in Faults, EnterDebugger("save", f.after) PROVE ResumeAdds'
  BY <1>4, FaultType, EnterDebuggerAdds DEF LoopSteps
<1>5. CASE UNCHANGED vars BY <1>1, <1>5 DEF vars
<1>6. CASE Fetch BY <1>1, <1>3, <1>6 DEF Fetch
<1>7. CASE LoadPart BY <1>1, <1>3, <1>7 DEF LoadPart, LoopSteps
<1>8. CASE LoadI BY <1>1, <1>3, <1>8 DEF LoadI, LoopSteps
<1>9. CASE Raise BY <1>1, <1>4, <1>9 DEF Raise
<1>10. CASE Continue BY <1>2, <1>10 DEF Continue
<1>11. CASE SigInt BY <1>3, <1>11 DEF SigInt
<1>12. CASE LoadTurn \/ Emulate \/ Instruction \/ Dispatch \/ Exit \/ SetIsr
            \/ Save \/ SavePart \/ Advance
  BY <1>1, <1>12 DEF LoadTurn, Emulate, Instruction, Dispatch, Exit, SetIsr, Save,
     SavePart, Advance
<1>13. CASE QuitCommand \/ SetIp \/ SetReg \/ SwitchDomain \/ WindowClosed \/ Watchdog
  BY <1>1, <1>13 DEF QuitCommand, SetIp, SetReg, SwitchDomain, WindowClosed, Watchdog
<1> QED BY <1>5, <1>6, <1>7, <1>8, <1>9, <1>10, <1>11, <1>12, <1>13
        DEF Next, Turn, Execute, Debugger

\* and every step preserves RInv
LEMMA StepNames == ASSUME NoSwitch PROVE RInv /\ [Next]_vars => RInv'
<1> SUFFICES ASSUME RInv, [Next]_vars PROVE RInv' OBVIOUS
<1>1. IInv' /\ ResumeAdds' BY StepHolds, StepAdds DEF RInv
<1>2. ~torn'
  BY DEF RInv, NoSwitch, Next, Turn, Fetch, LoadTurn, LoadPart, Emulate, Execute,
     Instruction, LoadI, Raise, Dispatch, Exit, SetIsr, Save, SavePart, Advance,
     Debugger, Continue, QuitCommand, SetIp, SetReg, SwitchDomain, SigInt,
     WindowClosed, Watchdog, vars
<1>3. ASSUME UNCHANGED <<jobs, total, active>> PROVE RInv'
  BY <1>1, <1>2, <1>3, SameTable DEF RInv
<1>4. CASE SavePart
  <2> DEFINE n == copy.done + 1
             k == copy.job
  <2>1. total' = total /\ SaveField(n, cpu, k) /\ pc = "saving" BY <1>4 DEF SavePart
  <2>2. k \in LiveJobs
    BY <2>1 DEF RInv, IInv, Placed, Moment, LiveJobs, Live
  <2>3. n \in 1 .. LastField BY DEF RInv, IInv, TypeOK, LastField
  <2>4. /\ \A e \in Slots : e # k => jobs'[e] = jobs[e]
        /\ jobs'[k].ismain = jobs[k].ismain
        /\ LiveJobs' = LiveJobs
    BY <2>1, <2>2, <2>3, SaveFieldType DEF RInv, IInv
  <2>5. \A d \in LiveJobs' : d \in LiveJobs /\ jobs'[d].ismain = jobs[d].ismain
    BY <2>4 DEF LiveJobs
  <2> QED BY <1>1, <1>2, <2>1, <2>5 DEF RInv
<1>5. CASE Dispatch
  <2>1. PICK a \in {t \in Targets : t <= MemorySize}, tail \in Tails :
          DispatchJob(a, TRUE, tail) \/ NoFreeSlot(tail)
    BY <1>5 DEF Dispatch
  <2>2. CASE NoFreeSlot(tail) BY <1>3, <2>2 DEF NoFreeSlot, tableVars
  <2>3. CASE DispatchJob(a, TRUE, tail)
    <3>1. TableTypeOK /\ active = Cardinality(LiveJobs) /\ a \in Addr
      BY <2>1, TypeOKTable, AddressAssumption DEF RInv, IInv, JobsCounted
    <3>2. /\ \A d \in Slots' : Live(d)' <=> Live(d) \/ d = FirstFree(tail)
          /\ \A d \in LiveJobs : jobs'[d] = jobs[d]
          /\ jobs'[FirstFree(tail)] = NewJob(a, FirstFree(tail), TRUE)
      BY <2>3, <3>1, DispatchJobEffect
    <3>3. \A d \in LiveJobs' : jobs'[d].ismain = TRUE
      <4>1. TAKE d \in LiveJobs'
      <4>2. d \in LiveJobs \/ d = FirstFree(tail) BY <3>2 DEF LiveJobs, Live
      <4>3. NewJob(a, FirstFree(tail), TRUE).ismain = TRUE BY DEF NewJob
      <4> QED BY <3>2, <4>2, <4>3 DEF RInv
    <3>4. total' <= MaxJobs + Chunk
      BY <1>5, <2>3, <3>1, TableAssumption
      DEF Dispatch, DispatchJob, NewTotal, MustGrow, TableTypeOK, RInv
    <3> QED BY <1>1, <1>2, <3>3, <3>4 DEF RInv
  <2> QED BY <2>1, <2>2, <2>3
<1>6. CASE Exit
  <2>1. CASE UNCHANGED tableVars BY <1>3, <2>1 DEF tableVars
  <2>2. CASE ExitJob(cur)
    <3>1. cur \in LiveJobs
      BY <1>6 DEF Exit, RInv, IInv, Placed, Moment, LiveJobs, Live
    <3>2. LiveJobs' = LiveJobs \ {cur} /\ \A d \in LiveJobs' : jobs'[d] = jobs[d]
      BY <2>2, <3>1, ExitJobEffect, TypeOKTable DEF RInv, IInv, JobsCounted
    <3>3. total' = total BY <2>2 DEF ExitJob
    <3> QED BY <1>1, <1>2, <3>2, <3>3 DEF RInv
  <2> QED BY <1>6, <2>1, <2>2 DEF Exit
<1>7. CASE ~(SavePart \/ Dispatch \/ Exit)
  <2>1. UNCHANGED <<jobs, total, active>>
    BY <1>7 DEF Next, Turn, Fetch, LoadTurn, LoadPart, Emulate, Execute, Instruction,
       LoadI, Raise, SetIsr, Save, Advance, Debugger, Continue, QuitCommand, SetIp,
       SetReg, SwitchDomain, SigInt, WindowClosed, Watchdog, vars, tableVars
  <2> QED BY <1>3, <2>1
<1> QED BY <1>4, <1>5, <1>6, <1>7

-----------------------------------------------------------------------------
(* The mapping.                                                             *)

\* The process ends
LEMMA StopMaps ==
  ASSUME pc' = "stopped", isr' = isr
  PROVE  D!Next
<1>1. Ctx' = <<>> /\ Held' = {} /\ Owed' = FALSE /\ Halted' = TRUE
  BY DEF Ctx, Held, Owed, Halted, Moment
<1> QED BY <1>1 DEF D!Next, D!Stop

\* The contexts of the domains while there is a process
LEMMA CtxIs ==
  /\ pc # "stopped" =>
       Ctx = [d \in LiveJobs |-> IF d = cur THEN CurrentContext ELSE SavedContext(d)]
  /\ pc' # "stopped" =>
       Ctx' = [d \in LiveJobs' |->
                 IF d = cur' THEN CurrentContext' ELSE SavedContext(d)']
BY DEF Ctx

\* Where the loop is between two turns every context is in the table
LEMMA AtRest ==
  ASSUME ~InCpu(1), ~InCpu(2), ~InCpu(3), ~InCpu(4), ~InCpu(5)
  PROVE  CurrentContext = SavedContext(cur)
BY DEF CurrentContext, SavedContext

\* A context that has moved on, as it is kept
LEMMA KeptSkipIs ==
  ASSUME NEW c \in Context, NEW n
  PROVE  Kept(Skip(c, n)) =
           [ip |-> Plus(c.ip, n), eflag |-> c.eflag, handlers |-> c.handlers,
            reg |-> c.reg % JobRegisterSpace, calls |-> c.calls]
<1>1. Skip(c, n) =
        [ip |-> Plus(c.ip, n), eflag |-> c.eflag, handlers |-> c.handlers,
         reg |-> c.reg, calls |-> c.calls]
  BY DEF Skip, Context
<1>2. ASSUME NEW d, d = Skip(c, n)
      PROVE  Kept(d) = [ip |-> d.ip, eflag |-> d.eflag, handlers |-> d.handlers,
                        reg |-> d.reg % JobRegisterSpace, calls |-> d.calls]
  BY <1>1, <1>2 DEF Kept
<1>3. Kept(Skip(c, n)) =
        [ip |-> Skip(c, n).ip, eflag |-> Skip(c, n).eflag,
         handlers |-> Skip(c, n).handlers,
         reg |-> Skip(c, n).reg % JobRegisterSpace, calls |-> Skip(c, n).calls]
  BY <1>2
<1> QED BY <1>1, <1>3

\* In the middle of a turn the current one is in the CPU
LEMMA InTheCpu ==
  ASSUME RInv, Moment \in {"emulate", "execute", "setisr", "save"}
  PROVE  Running \in Context /\ CurrentContext = Kept(Skip(Running, Pending))
<1>1. Running \in Context BY RunningIsContext DEF RInv, IInv
<1>2. InCpu(1) /\ InCpu(2) /\ InCpu(3) /\ InCpu(4) /\ InCpu(5) BY DEF InCpu
<1>3. CurrentContext =
        [ip |-> Plus(cpu.ip, Pending), eflag |-> cpu.eflag,
         handlers |-> cpu.handlers, reg |-> cpu.reg % JobRegisterSpace,
         calls |-> callStack[cpu.stk]]
  BY <1>2 DEF CurrentContext
<1>4. Kept(Skip(Running, Pending)) =
        [ip |-> Plus(cpu.ip, Pending), eflag |-> cpu.eflag,
         handlers |-> cpu.handlers, reg |-> cpu.reg % JobRegisterSpace,
         calls |-> callStack[cpu.stk]]
  BY <1>1, KeptSkipIs DEF Running
<1> QED BY <1>1, <1>3, <1>4

\* Steps that leave the table alone
LEMMA SameContexts ==
  ASSUME RInv, pc # "stopped", pc' # "stopped",
         UNCHANGED <<jobs, total, active, callStack, cur>>,
         cur \in LiveJobs => CurrentContext' = CurrentContext
  PROVE  Ctx' = Ctx
<1>1. LiveJobs' = LiveJobs BY SameTable DEF RInv
<1>2. \A d : SavedContext(d)' = SavedContext(d) BY DEF SavedContext
<1> QED BY <1>1, <1>2, CtxIs

\* Steps of the loop that no domain sees
LEMMA Unseen ==
  ASSUME RInv, pc \notin {"stopped", "debug"}, pc' # "stopped",
         UNCHANGED <<jobs, total, active, callStack, cur, isr, exitcalled>>,
         cur \in LiveJobs => CurrentContext' = CurrentContext,
         pc' = "debug" => ~MidTurn' \/ ~Live(cur)',
         Moment # "setisr", Moment' # "setisr", InFlight' <=> InFlight
  PROVE  UNCHANGED D!vars
<1>1. Ctx' = Ctx BY SameContexts
<1>2. Held' = {} /\ Held = {} BY DEF Held
<1>3. Owed' = Owed BY DEF Owed
<1>4. Halted' = Halted BY DEF Halted
<1> QED BY <1>1, <1>2, <1>3, <1>4 DEF D!vars

\* While an instruction is executed its domain's context is what the CPU holds
LEMMA RunningInCtx ==
  ASSUME RInv, pc = "execute"
  PROVE  /\ cur \in LiveJobs /\ cpu.stk = cur
         /\ DOMAIN Ctx = LiveJobs /\ cur \in D!Domain
         /\ Ctx[cur] = Kept(Running)
         /\ Running \in Context
         /\ \A d \in LiveJobs \ {cur} : Ctx[d] = SavedContext(d)
         /\ D!Ready /\ Owed = FALSE /\ Halted = FALSE /\ Held = {}
<1>1. Moment = "execute" /\ InTurn /\ Pending = 0
  BY DEF Moment, InTurn, Pending
<1>2. cur \in LiveJobs
  BY <1>1 DEF RInv, IInv, Placed, LiveJobs, Live
<1>3. cpu.stk = cur BY <1>1, <1>2 DEF RInv, IInv, ContextOwned, LiveJobs
<1>4. Running \in Context /\ CurrentContext = Kept(Skip(Running, 0))
  BY <1>1, InTheCpu
<1>5. Skip(Running, 0) = Running BY <1>4, PlusNothing DEF Skip, Context
<1>6. Held = {} /\ Owed = FALSE /\ Halted = FALSE
  BY <1>1 DEF Held, Owed, Halted, InFlight
<1> QED BY <1>2, <1>3, <1>4, <1>5, <1>6, CtxIs DEF D!Domain, D!Ready

\* An instruction changes the context of its domain, and no other: c is what it
\* leaves in the CPU, and n what is still to be added to the pointer
LEMMA InstructionMaps ==
  ASSUME RInv, pc = "execute", NEW c \in Context, NEW n \in Nat, Become(c),
         UNCHANGED <<jobs, total, active, cur, torn>>, RInv',
         pc' # "stopped", Moment' \in {"setisr", "save"}, Pending' = n
  PROVE  Ctx' = [Ctx EXCEPT ![cur] = Kept(Skip(c, n))]
<1>1. LiveJobs' = LiveJobs BY SameTable DEF RInv
<1>2. \A d \in LiveJobs \ {cur} : SavedContext(d)' = SavedContext(d)
  <2>1. TAKE d \in LiveJobs \ {cur}
  <2>2. jobs[d].stk = d /\ cpu.stk = cur /\ d # cur
    BY RunningInCtx DEF RInv, IInv, ContextOwned
  <2>3. callStack'[d] = callStack[d]
    BY <2>2 DEF Become, RInv, IInv, TypeOK, LiveJobs
  <2> QED BY <2>2, <2>3 DEF SavedContext
<1>3. Running' = c
  <2>1. cpu.stk \in Slots /\ cpu \in CpuRecord /\ callStack \in [Slots -> Seq(Addr)]
    BY DEF RInv, IInv, Stacked, TypeOK
  <2> QED BY <2>1 DEF Become, Running, CpuRecord, Context
<1>4. CurrentContext' = Kept(Skip(c, n))
  <2>1. CurrentContext' =
          [ip |-> Plus(cpu'.ip, n), eflag |-> cpu'.eflag,
           handlers |-> cpu'.handlers, reg |-> cpu'.reg % JobRegisterSpace,
           calls |-> callStack'[cpu'.stk]]
    BY DEF CurrentContext, InCpu
  <2>2. /\ cpu'.ip = c.ip /\ cpu'.eflag = c.eflag /\ cpu'.handlers = c.handlers
        /\ cpu'.reg = c.reg /\ callStack'[cpu'.stk] = c.calls
    <3>1. Running' = [ip |-> cpu'.ip, eflag |-> cpu'.eflag,
                      handlers |-> cpu'.handlers, reg |-> cpu'.reg,
                      calls |-> callStack'[cpu'.stk]]
      BY DEF Running
    <3> QED BY <1>3, <3>1
  <2>3. Kept(Skip(c, n)) =
          [ip |-> Plus(c.ip, n), eflag |-> c.eflag, handlers |-> c.handlers,
           reg |-> c.reg % JobRegisterSpace, calls |-> c.calls]
    BY KeptSkipIs
  <2> QED BY <2>1, <2>2, <2>3
<1>5. Ctx' = [d \in LiveJobs |-> IF d = cur THEN Kept(Skip(c, n)) ELSE SavedContext(d)]
  BY <1>1, <1>2, <1>4, CtxIs
<1>6. [Ctx EXCEPT ![cur] = Kept(Skip(c, n))]
        = [d \in LiveJobs |-> IF d = cur THEN Kept(Skip(c, n)) ELSE SavedContext(d)]
  BY RunningInCtx, CtxIs
<1> QED BY <1>5, <1>6

\* What is left of an instruction when the loop goes on at Save
LEMMA OverMaps ==
  ASSUME pc' = "save" PROVE Held' = {} /\ Owed' = FALSE /\ Halted' \in BOOLEAN
BY DEF Held, Owed, Halted, Moment

\* and when it stands in the debugger
LEMMA HeldMaps ==
  ASSUME RInv, pc = "execute", ~UseServer, NEW next \in {"setisr", "save"},
         NEW n \in Nat, EnterDebugger(next, n),
         UNCHANGED <<jobs, total, cur, exitcalled>>
  PROVE  /\ pc' = "debug" /\ Moment' = next
         /\ Held' = {cur} /\ (Owed' <=> next = "setisr")
         /\ Pending' = IF next = "setisr" THEN 5 ELSE n
         /\ next = "setisr" => Halted' = FALSE
         /\ Halted' \in BOOLEAN
<1>1. pc' = "debug" /\ resume' = [pc |-> next, add |-> n] BY DEF EnterDebugger
<1>2. Moment' = next BY <1>1 DEF Moment
<1>3. Live(cur)' BY RunningInCtx DEF LiveJobs, Live, Slots
<1>4. MidTurn' BY <1>2 DEF MidTurn, InTurn
<1> QED BY <1>1, <1>2, <1>3, <1>4 DEF Held, Owed, Pending, Halted, InFlight

-----------------------------------------------------------------------------
(* The instructions.                                                        *)

\* Domains and this module keep contexts alike
LEMMA DKept ==
  /\ \A c : D!Kept(c) = Kept(c)
  /\ \A d, c : D!Becomes(d, c) <=> Ctx' = [Ctx EXCEPT ![d] = Kept(c)]
BY DEF D!Kept, Kept, D!Becomes

\* Moving on and keeping commute
LEMMA KeptSkip ==
  ASSUME NEW c \in Context, NEW n \in Nat
  PROVE  Kept(Skip(Kept(c), n)) = Kept(Skip(c, n))
<1>1. Skip(c, n) \in Context BY SkipType
<1> QED BY <1>1, KeptCommutes, KeptType

\* Moving on by nothing
LEMMA SkipNothing ==
  ASSUME NEW c \in Context
  PROVE  Skip(c, 0) = c
BY PlusNothing DEF Skip, Context

\* The loop goes on at Save
LEMMA OverContext ==
  ASSUME RInv, pc = "execute", NEW c \in Context, Become(c), pc' = "save",
         UNCHANGED <<jobs, total, active, cur, torn>>, RInv'
  PROVE  Ctx' = [Ctx EXCEPT ![cur] = Kept(c)]
<1>1. pc' # "stopped" /\ Moment' = "save" /\ Pending' = 0
  BY DEF Moment, Pending
<1>2. Ctx' = [Ctx EXCEPT ![cur] = Kept(Skip(c, 0))] BY <1>1, InstructionMaps
<1> QED BY <1>2, SkipNothing

\* An ordinary instruction is an instruction of the domain
LEMMA InstructionRefines ==
  ASSUME RInv, RInv', Instruction PROVE D!Next
<1>1. PICK c \in Outcomes(Running, isr) : Become(c) BY DEF Instruction
<1>2. /\ pc = "execute" /\ pc' = "save" /\ isr' = isr
      /\ UNCHANGED <<jobs, total, active, cur, torn>>
  BY DEF Instruction
<1>3. isr \in Addr /\ Running \in Context /\ D!Ready /\ cur \in D!Domain
      /\ Ctx[cur] = Kept(Running) /\ Owed = FALSE /\ Held = {}
  BY <1>2, RunningInCtx DEF RInv, IInv, TypeOK
<1>4. c \in Context BY <1>1, <1>3, OutcomesType
<1>5. Ctx' = [Ctx EXCEPT ![cur] = Kept(c)] BY <1>1, <1>2, <1>4, OverContext
<1>6. Held' = {} /\ Owed' = FALSE /\ Halted' \in BOOLEAN BY <1>2, OverMaps
<1>7. PICK e \in Outcomes(Kept(Running), isr) : Kept(e) = Kept(c)
  BY <1>1, <1>3, OutcomeOfKept
<1>8. e \in D!Outcomes(Ctx[cur], isr) BY <1>3, <1>7, SameOutcomes
<1>9. D!Becomes(cur, e) BY <1>5, <1>7, DKept
<1>10. D!Execute(cur)
  BY <1>2, <1>3, <1>6, <1>8, <1>9 DEF D!Execute, D!MayHalt, D!Ready
<1> QED BY <1>3, <1>10 DEF D!Next

\* LOADI sets the vector that all domains share, or complains first
LEMMA LoadIRefines ==
  ASSUME RInv, RInv', LoadI PROVE D!Next
<1>1. /\ pc = "execute"
      /\ UNCHANGED <<jobs, total, active, cur, exitcalled, torn>>
  BY DEF LoadI
<1>2. PICK t \in Targets :
        \/ t <= MemorySize /\ Become(Skip(Running, 6)) /\ isr' = t /\ pc' = "save"
        \/ /\ Become(Skip(Running, 1))
           /\ EnterDebugger("setisr", 0)
           /\ isr' = isr
  BY DEF LoadI
<1>3. /\ Running \in Context /\ cur \in D!Domain /\ D!Ready
      /\ Ctx[cur] = Kept(Running) /\ Owed = FALSE /\ Held = {} /\ Halted = FALSE
  BY <1>1, RunningInCtx
<1>4. Skip(Running, 6) \in Context /\ Skip(Running, 1) \in Context
  BY <1>3, SkipType
<1>5. Kept(D!Skip(Ctx[cur], 6)) = Kept(Skip(Running, 6))
  BY <1>3, SameFaults, KeptSkip
<1>6. CASE t <= MemorySize /\ Become(Skip(Running, 6)) /\ isr' = t /\ pc' = "save"
  <2>1. Ctx' = [Ctx EXCEPT ![cur] = Kept(Skip(Running, 6))]
    BY <1>1, <1>4, <1>6, OverContext
  <2>2. D!Becomes(cur, D!Skip(Ctx[cur], 6)) BY <1>5, <2>1, DKept
  <2>3. Held' = {} /\ Owed' = FALSE /\ Halted' \in BOOLEAN BY <1>6, OverMaps
  <2>4. D!SetInterrupt(cur)
    BY <1>3, <1>6, <2>2, <2>3 DEF D!SetInterrupt, D!MayHalt, D!Ready
  <2> QED BY <1>3, <2>4 DEF D!Next
<1>7. CASE /\ Become(Skip(Running, 1))
           /\ EnterDebugger("setisr", 0)
           /\ isr' = isr
  <2>1. CASE UseServer BY <1>7, <2>1, StopMaps DEF EnterDebugger
  <2>2. CASE ~UseServer
    <3>1. /\ pc' = "debug" /\ Moment' = "setisr" /\ Held' = {cur} /\ Owed'
          /\ Pending' = 5 /\ Halted' = FALSE
      BY <1>1, <1>7, <2>2, HeldMaps
    <3>2. Ctx' = [Ctx EXCEPT ![cur] = Kept(Skip(Skip(Running, 1), 5))]
      BY <1>1, <1>4, <1>7, <3>1, InstructionMaps
    <3>3. Skip(Skip(Running, 1), 5) = Skip(Running, 6)
      BY <1>3, SkipTwice DEF Skip, Context
    <3>4. D!Becomes(cur, D!Skip(Ctx[cur], 6)) BY <1>5, <3>2, <3>3, DKept
    <3>5. Halted = FALSE /\ Owed' = TRUE BY <1>3, <3>1 DEF Owed
    <3>6. D!Complain(cur) BY <1>3, <1>7, <3>1, <3>4, <3>5 DEF D!Complain
    <3> QED BY <1>3, <3>6 DEF D!Next
  <2> QED BY <2>1, <2>2
<1> QED BY <1>2, <1>6, <1>7

\* The rest of a LOADI that has complained
LEMMA SetIsrRefines ==
  ASSUME RInv, RInv', SetIsr PROVE D!Next
<1>1. /\ pc = "setisr" /\ pc' = "save" /\ isr' \in Reread
      /\ cpu' = [cpu EXCEPT !.ip = Plus(@, 5)]
      /\ UNCHANGED <<jobs, total, active, callStack, cur>>
  BY DEF SetIsr, tableVars
<1>2. Moment = "setisr" /\ Moment' = "save" /\ Pending = 5 /\ Pending' = 0
  BY <1>1 DEF Moment, Pending
<1>3. Owed = TRUE /\ Halted = FALSE /\ Held = {}
  BY <1>1, <1>2 DEF Owed, Halted, Held, InFlight
<1>4. Held' = {} /\ Owed' = FALSE /\ Halted' \in BOOLEAN BY <1>1, OverMaps
<1>5. CurrentContext' = CurrentContext
  <2>1. Running \in Context /\ CurrentContext = Kept(Skip(Running, 5))
    BY <1>2, InTheCpu
  <2>2. Running' = Skip(Running, 5)
    <3>1. cpu \in CpuRecord BY DEF RInv, IInv, TypeOK
    <3> QED BY <1>1, <3>1 DEF Running, Skip, CpuRecord
  <2>4. Skip(Running, 5) \in Context BY <2>1, SkipType
  <2>3. CurrentContext' = Kept(Skip(Running', 0))
    <3>1. CurrentContext' =
            [ip |-> Plus(cpu'.ip, 0), eflag |-> cpu'.eflag,
             handlers |-> cpu'.handlers, reg |-> cpu'.reg % JobRegisterSpace,
             calls |-> callStack'[cpu'.stk]]
      BY <1>2 DEF CurrentContext, InCpu
    <3>2. Kept(Skip(Running', 0)) =
            [ip |-> Plus(Running'.ip, 0), eflag |-> Running'.eflag,
             handlers |-> Running'.handlers,
             reg |-> Running'.reg % JobRegisterSpace, calls |-> Running'.calls]
      BY <2>2, <2>4, KeptSkipIs
    <3> QED BY <3>1, <3>2 DEF Running
  <2> QED BY <2>1, <2>2, <2>3, <2>4, SkipNothing
<1>6. Ctx' = Ctx BY <1>1, <1>5, SameContexts
<1>7. isr' \in Targets BY <1>1 DEF Reread
<1>8. D!Settle BY <1>3, <1>4, <1>6, <1>7 DEF D!Settle, D!MayHalt
<1> QED BY <1>8 DEF D!Next

\* An exception enters the handler, or leaves the domain to the operator
LEMMA RaiseRefines ==
  ASSUME RInv, RInv', Raise PROVE D!Next
<1>1. /\ pc = "execute"
      /\ UNCHANGED <<jobs, total, active, cur, exitcalled, isr, torn>>
  BY DEF Raise
<1>2. PICK f \in Faults :
        LET c == Skip(Running, f.before) IN
        \E h \in HandlersOf(c, f.id) :
           \/ /\ EntersHandler(c, f.id, h)
              /\ Become(Skip(InHandler(c, h), f.after))
              /\ pc' = "save"
           \/ /\ ~EntersHandler(c, f.id, h)
              /\ Become(c)
              /\ EnterDebugger("save", f.after)
  BY DEF Raise
<1> DEFINE c == Skip(Running, f.before)
<1>3. /\ Running \in Context /\ cur \in D!Domain /\ Ctx[cur] = Kept(Running)
      /\ D!Ready /\ Owed = FALSE /\ Held = {}
  BY <1>1, RunningInCtx
<1>4. f.before \in Nat /\ f.after \in Nat /\ f \in D!Faults
  BY FaultType, SameFaults
<1>5. c \in Context BY <1>3, <1>4, SkipType
<1>6. D!Skip(Ctx[cur], f.before) = Kept(c) BY <1>3, KeptCommutes, SameFaults
<1>10. PICK h \in HandlersOf(c, f.id) :
         \/ /\ EntersHandler(c, f.id, h)
            /\ Become(Skip(InHandler(c, h), f.after))
            /\ pc' = "save"
         \/ /\ ~EntersHandler(c, f.id, h)
            /\ Become(c)
            /\ EnterDebugger("save", f.after)
  BY <1>2
<1> HIDE DEF c
<1>11. /\ h \in D!HandlersOf(Kept(c), f.id)
       /\ D!EntersHandler(Kept(c), f.id, h) <=> EntersHandler(c, f.id, h)
  <2>1. HandlersOf(Kept(c), f.id) = HandlersOf(c, f.id)
    BY <1>5, KeptCommutes DEF HandlersOf
  <2>2. EntersHandler(Kept(c), f.id, h) <=> EntersHandler(c, f.id, h)
    BY <1>5, KeptCommutes DEF EntersHandler
  <2> QED BY <1>10, <2>1, <2>2, SameFaults
<1>7. ASSUME D!MayHalt, Owed' = FALSE,
             \/ /\ EntersHandler(c, f.id, h)
                /\ D!Becomes(cur, D!Skip(D!InHandler(Kept(c), h), f.after))
                /\ Held' = {}
             \/ /\ ~EntersHandler(c, f.id, h)
                /\ D!Becomes(cur, D!Skip(Kept(c), f.after))
                /\ Held' = {cur}
      PROVE  D!Next
  <2>1. D!Trap(cur) BY <1>1, <1>3, <1>4, <1>6, <1>7, <1>11 DEF D!Trap
  <2> QED BY <1>3, <2>1 DEF D!Next
<1>8. CASE /\ EntersHandler(c, f.id, h)
           /\ Become(Skip(InHandler(c, h), f.after))
           /\ pc' = "save"
  <2>1. h \in Addr BY <1>5, HandlersOfType
  <2>2. InHandler(c, h) \in Context BY <1>5, <2>1, InHandlerType
  <2>3. Skip(InHandler(c, h), f.after) \in Context BY <1>4, <2>2, SkipType
  <2>4. Ctx' = [Ctx EXCEPT ![cur] = Kept(Skip(InHandler(c, h), f.after))]
    BY <1>1, <1>8, <2>3, OverContext
  <2>5. InHandler(Kept(c), h) = Kept(InHandler(c, h))
    BY <1>5 DEF InHandler, Kept, Context
  <2>6. Kept(Skip(InHandler(Kept(c), h), f.after))
          = Kept(Skip(InHandler(c, h), f.after))
    BY <1>4, <2>2, <2>5, KeptSkip
  <2>7. D!Becomes(cur, D!Skip(D!InHandler(Kept(c), h), f.after))
    BY <2>4, <2>6, DKept, SameFaults
  <2>8. Held' = {} /\ Owed' = FALSE /\ D!MayHalt BY <1>8, OverMaps DEF D!MayHalt
  <2> QED BY <1>7, <1>8, <2>7, <2>8
<1>9. CASE /\ ~EntersHandler(c, f.id, h)
           /\ Become(c)
           /\ EnterDebugger("save", f.after)
  <2>1. CASE UseServer BY <1>1, <1>9, <2>1, StopMaps DEF EnterDebugger
  <2>2. CASE ~UseServer
    <3>1. /\ pc' = "debug" /\ Moment' = "save" /\ Held' = {cur} /\ ~Owed'
          /\ Pending' = f.after /\ Halted' \in BOOLEAN
      BY <1>1, <1>4, <1>9, <2>2, HeldMaps
    <3>2. Ctx' = [Ctx EXCEPT ![cur] = Kept(Skip(c, f.after))]
      BY <1>1, <1>4, <1>5, <1>9, <3>1, InstructionMaps
    <3>3. D!Becomes(cur, D!Skip(Kept(c), f.after))
      BY <1>4, <1>5, <3>2, DKept, KeptSkip, SameFaults
    <3>4. Owed' = FALSE BY <3>1 DEF Owed
    <3> QED BY <1>7, <1>9, <3>1, <3>3, <3>4 DEF D!MayHalt
  <2> QED BY <2>1, <2>2
<1> QED BY <1>8, <1>9, <1>10 DEF c

\* SYSCALL_DISPATCH makes a domain, under the name of its slot
LEMMA DispatchRefines ==
  ASSUME RInv, RInv', Dispatch PROVE D!Next
<1>1. pc = "execute" /\ UNCHANGED <<cur, resume, exitcalled, isr>> BY DEF Dispatch
<1>2. PICK a \in {t \in Targets : t <= MemorySize}, tail \in Tails :
        \/ /\ DispatchJob(a, TRUE, tail)
           /\ cpu' = [cpu EXCEPT !.ip = Plus(@, 2)]
           /\ pc' = "save"
        \/ pc' = "stopped"
  BY DEF Dispatch
<1>3. CASE pc' = "stopped" BY <1>1, <1>3, StopMaps
<1>4. CASE /\ DispatchJob(a, TRUE, tail)
           /\ cpu' = [cpu EXCEPT !.ip = Plus(@, 2)]
           /\ pc' = "save"
  <2>0. PICK f : f = FirstFree(tail) OBVIOUS
  <2> DEFINE ctx == [d \in LiveJobs \cup {f} |->
                       IF d = cur THEN Kept(Skip(Running, 2))
                       ELSE IF d = f THEN NewContext(a) ELSE SavedContext(d)]
  <2>1. TableTypeOK /\ active = Cardinality(LiveJobs) /\ a \in Addr
    BY <1>2, TypeOKTable, AddressAssumption DEF RInv, IInv, JobsCounted
  <2>2. /\ \A d \in Slots' : Live(d)' <=> Live(d) \/ d = f
        /\ Slots \subseteq Slots'
        /\ \A d \in LiveJobs : jobs'[d] = jobs[d] /\ callStack'[d] = callStack[d]
        /\ f \in Slots' /\ f \notin LiveJobs
        /\ jobs'[f] = NewJob(a, f, TRUE)
    BY <1>4, <2>0, <2>1, DispatchJobEffect
  <2>3. callStack'[f] = <<0>>
    BY <1>4, <2>0, <2>2 DEF DispatchJob, Slots
  <2>4. LiveJobs' = LiveJobs \cup {f} BY <2>2 DEF LiveJobs, Live
  <2>5. \A d \in LiveJobs : SavedContext(d)' = SavedContext(d)
    BY <2>2 DEF SavedContext, RInv, IInv, ContextOwned
  <2>6. SavedContext(f)' = NewContext(a)
    <3>1. /\ jobs'[f].ip = a /\ jobs'[f].eflag = FALSE /\ jobs'[f].reg = 0
          /\ jobs'[f].handlers = NoHandlers /\ jobs'[f].stk = f
      BY <2>2 DEF NewJob
    <3>2. SavedContext(f)' =
            [ip |-> jobs'[f].ip, eflag |-> jobs'[f].eflag,
             handlers |-> jobs'[f].handlers, reg |-> jobs'[f].reg,
             calls |-> callStack'[jobs'[f].stk]]
      BY DEF SavedContext
    <3> QED BY <2>3, <3>1, <3>2 DEF NewContext
  <2>7. /\ cur \in LiveJobs /\ cpu.stk = cur /\ Running \in Context
        /\ D!Ready /\ Owed = FALSE /\ Held = {} /\ DOMAIN Ctx = LiveJobs
        /\ Ctx[cur] = Kept(Running) /\ cur \in D!Domain
        /\ \A d \in LiveJobs \ {cur} : Ctx[d] = SavedContext(d)
    BY <1>1, RunningInCtx
  <2>8. Running' = Skip(Running, 2)
    <3>1. cpu \in CpuRecord BY DEF RInv, IInv, TypeOK
    <3> QED BY <1>4, <2>2, <2>7, <3>1 DEF Running, Skip, CpuRecord
  <2>9. CurrentContext' = Kept(Skip(Running, 2))
    <3>1. Skip(Running, 2) \in Context BY <2>7, SkipType
    <3>2. CurrentContext' =
            [ip |-> Plus(cpu'.ip, 0), eflag |-> cpu'.eflag,
             handlers |-> cpu'.handlers, reg |-> cpu'.reg % JobRegisterSpace,
             calls |-> callStack'[cpu'.stk]]
      BY <1>4 DEF CurrentContext, InCpu, Pending, Moment
    <3>3. Kept(Skip(Running', 0)) =
            [ip |-> Plus(Running'.ip, 0), eflag |-> Running'.eflag,
             handlers |-> Running'.handlers,
             reg |-> Running'.reg % JobRegisterSpace, calls |-> Running'.calls]
      BY <2>8, <3>1, KeptSkipIs
    <3>4. CurrentContext' = Kept(Skip(Running', 0)) BY <3>2, <3>3 DEF Running
    <3> QED BY <2>8, <3>1, <3>4, SkipNothing
  <2>10. Ctx' = ctx
    <3>1. Ctx' = [d \in LiveJobs' |->
                    IF d = cur' THEN CurrentContext' ELSE SavedContext(d)']
      BY <1>4, CtxIs
    <3>3. \A d \in LiveJobs \cup {f} :
             (IF d = cur' THEN CurrentContext' ELSE SavedContext(d)')
               = (IF d = cur THEN Kept(Skip(Running, 2))
                  ELSE IF d = f THEN NewContext(a) ELSE SavedContext(d))
      BY <1>1, <2>5, <2>6, <2>9
    <3> QED BY <2>4, <3>1, <3>3
  <2>11. /\ D!Domain = LiveJobs
         /\ D!Kept(D!Skip(Ctx[cur], 2)) = Kept(Skip(Running, 2))
         /\ D!NewContext(a) = NewContext(a)
    BY <2>7, KeptSkip, DKept, SameFaults DEF D!Domain
  <2>12. Ctx' = [e \in D!Domain \cup {f} |->
                   IF e = cur THEN D!Kept(D!Skip(Ctx[cur], 2))
                   ELSE IF e = f THEN D!NewContext(a) ELSE Ctx[e]]
    BY <2>7, <2>10, <2>11
  <2>13. f \in (0 .. MaxJobs + Chunk) \ D!Domain
    <3>1. total' <= MaxJobs + Chunk /\ total' \in Nat BY DEF RInv, IInv, TypeOK
    <3>2. f \in 0 .. total' - 1 /\ f \notin LiveJobs BY <2>2 DEF Slots
    <3>3. MaxJobs + Chunk \in Nat BY TableAssumption
    <3>4. f \in 0 .. MaxJobs + Chunk
      <4> DEFINE n == total'
                 m == MaxJobs + Chunk
      <4>1. n \in Nat /\ m \in Nat /\ n <= m /\ f \in 0 .. n - 1 BY <3>1, <3>2, <3>3
      <4> HIDE DEF n, m
      <4>2. f \in 0 .. m BY <4>1
      <4> QED BY <4>2 DEF m
    <3> QED BY <2>11, <3>2, <3>4
  <2>14. Held' = {} /\ Owed' = FALSE /\ D!MayHalt BY <1>4, OverMaps DEF D!MayHalt
  <2>15. D!Dispatch(cur) BY <1>1, <2>7, <2>12, <2>13, <2>14 DEF D!Dispatch
  <2> QED BY <2>7, <2>15 DEF D!Next
<1> QED BY <1>2, <1>3, <1>4

\* EXIT takes the domain away and halts the machine; when exitcalled has been set
\* in the middle of it, that is all
LEMMA ExitRefines ==
  ASSUME RInv, Exit PROVE D!Next
<1>1. pc = "execute" /\ pc' = "save" /\ UNCHANGED <<cpu, cur, isr>> BY DEF Exit
<1>2. /\ cur \in LiveJobs /\ cpu.stk = cur /\ cur \in D!Domain /\ DOMAIN Ctx = LiveJobs
      /\ D!Ready /\ Owed = FALSE /\ Held = {}
      /\ \A d \in LiveJobs \ {cur} : Ctx[d] = SavedContext(d)
  BY <1>1, RunningInCtx
<1>3. Held' = {} /\ Owed' = FALSE BY <1>1, OverMaps
<1>4. exitcalled' = TRUE => Halted' = TRUE BY <1>1 DEF Halted, InFlight, Moment
<1>5. CASE /\ exitcalled' = jobs[cur].ismain
           /\ ExitJob(cur)
  <2>1. jobs[cur].stk = cur BY <1>2 DEF RInv, IInv, ContextOwned
  <2>2. /\ LiveJobs' = LiveJobs \ {cur}
        /\ \A d \in LiveJobs' : jobs'[d] = jobs[d] /\ callStack'[d] = callStack[d]
    BY <1>2, <1>5, <2>1, ExitJobEffect, TypeOKTable DEF RInv, IInv, JobsCounted
  <2>3. \A d \in LiveJobs' : SavedContext(d)' = SavedContext(d)
    BY <2>2 DEF SavedContext, RInv, IInv, ContextOwned
  <2>4. Ctx' = [d \in LiveJobs \ {cur} |-> SavedContext(d)]
    <3>1. Ctx' = [d \in LiveJobs' |->
                    IF d = cur' THEN CurrentContext' ELSE SavedContext(d)']
      BY <1>1, CtxIs
    <3> QED BY <1>1, <2>2, <2>3, <3>1
  <2>5. Ctx' = [d \in D!Domain \ {cur} |-> Ctx[d]] BY <1>2, <2>4 DEF D!Domain
  <2>6. Halted' = TRUE BY <1>2, <1>4, <1>5 DEF RInv
  <2>7. D!Exit(cur) BY <1>1, <1>2, <1>3, <2>5, <2>6 DEF D!Exit
  <2> QED BY <1>2, <2>7 DEF D!Next
<1>6. CASE exitcalled /\ UNCHANGED <<tableVars, exitcalled>>
  <2>1. UNCHANGED <<jobs, total, active, callStack, cur>>
    BY <1>1, <1>6 DEF tableVars
  <2>2. CurrentContext' = CurrentContext
    BY <1>1, <2>1 DEF CurrentContext, InCpu, Moment, Pending
  <2>3. Ctx' = Ctx BY <1>1, <2>1, <2>2, SameContexts
  <2>4. Halted' = TRUE BY <1>4, <1>6 DEF RInv, IInv, TypeOK
  <2> QED BY <1>1, <1>2, <1>3, <2>3, <2>4 DEF D!Next, D!Quit
<1> QED BY <1>5, <1>6 DEF Exit

-----------------------------------------------------------------------------
(* The loop's other steps.                                                  *)

\* Between two turns, and at the start of a load, nothing is in the CPU
LEMMA Resting ==
  /\ Moment \in {"fetch", "load", "advance", "stopped"}
        => CurrentContext = SavedContext(cur) /\ ~MidTurn /\ Owed = FALSE
  /\ Moment' \in {"fetch", "load", "advance", "stopped"}
        => CurrentContext' = SavedContext(cur)' /\ ~MidTurn' /\ Owed' = FALSE
<1>1. ASSUME Moment \in {"fetch", "load", "advance", "stopped"}
      PROVE  CurrentContext = SavedContext(cur) /\ ~MidTurn /\ Owed = FALSE
  <2>1. ~InCpu(1) /\ ~InCpu(2) /\ ~InCpu(3) /\ ~InCpu(4) /\ ~InCpu(5)
    BY <1>1 DEF InCpu
  <2> QED BY <1>1, <2>1, AtRest DEF MidTurn, InTurn, Owed
<1>2. ASSUME Moment' \in {"fetch", "load", "advance", "stopped"}
      PROVE  CurrentContext' = SavedContext(cur)' /\ ~MidTurn' /\ Owed' = FALSE
  <2>1. ~InCpu(1)' /\ ~InCpu(2)' /\ ~InCpu(3)' /\ ~InCpu(4)' /\ ~InCpu(5)'
    BY <1>2 DEF InCpu
  <2>2. CurrentContext' = SavedContext(cur)'
    BY <2>1 DEF CurrentContext, SavedContext
  <2> QED BY <1>2, <2>2 DEF MidTurn, InTurn, Owed
<1> QED BY <1>1, <1>2

\* The head of the loop changes no domain
LEMMA FetchRefines ==
  ASSUME RInv, Fetch PROVE D!Next \/ UNCHANGED D!vars
<1>1. pc = "fetch" /\ UNCHANGED <<jobs, total, active, callStack, cur, exitcalled, isr>>
  BY DEF Fetch, tableVars
<1>2. CASE pc' = "stopped" BY <1>1, <1>2, StopMaps
<1>3. CASE pc' # "stopped"
  <2>1. Moment = "fetch" /\ Moment' \in {"load", "stopped"}
    BY <1>1, <1>3 DEF Fetch, EnterDebugger, Moment
  <2>2. CurrentContext' = CurrentContext BY <1>1, <2>1, Resting DEF SavedContext
  <2>3. ~MidTurn' /\ (InFlight' <=> InFlight) BY <2>1, Resting DEF InFlight
  <2> QED BY <1>1, <1>3, <2>1, <2>2, <2>3, Unseen
<1> QED BY <1>2, <1>3

\* Nothing has been copied yet
LEMMA LoadTurnRefines ==
  ASSUME RInv, LoadTurn PROVE UNCHANGED D!vars
<1>1. /\ pc = "load"
      /\ UNCHANGED <<jobs, total, active, callStack, cur, exitcalled, isr>>
      /\ pc' = "advance" \/ (pc' = "loading" /\ copy'.done = 0)
  BY DEF LoadTurn, tableVars
<1>2. Moment = "load" /\ Moment' = pc' BY <1>1 DEF Moment
<1>3. CurrentContext' = SavedContext(cur)'
  <2>1. CASE pc' = "advance" BY <1>2, <2>1, Resting
  <2>2. CASE pc' = "loading" /\ copy'.done = 0
    <3>1. ~InCpu(1)' /\ ~InCpu(2)' /\ ~InCpu(3)' /\ ~InCpu(4)' /\ ~InCpu(5)'
      BY <1>2, <2>2 DEF InCpu
    <3> QED BY <3>1 DEF CurrentContext, SavedContext
  <2> QED BY <1>1, <2>1, <2>2
<1>4. CurrentContext' = CurrentContext BY <1>1, <1>2, <1>3, Resting DEF SavedContext
<1>5. InFlight' <=> InFlight BY <1>1, <1>2 DEF InFlight
<1> QED BY <1>1, <1>2, <1>4, <1>5, Unseen

\* In the middle of a load a field is where it was, or has just been copied
LEMMA LoadPartRefines ==
  ASSUME RInv, LoadPart PROVE D!Next \/ UNCHANGED D!vars
<1> DEFINE n == copy.done + 1
<1>1. /\ pc = "loading" /\ Moment = "loading"
      /\ UNCHANGED <<jobs, total, active, callStack, cur, exitcalled, isr>>
  BY DEF LoadPart, tableVars, Moment
<1>2. copy.job = cur BY <1>1 DEF RInv, IInv, Placed
<1>3. CASE IsWild(copy.job) /\ EnterDebugger("loading", 0) /\ UNCHANGED <<cpu, copy>>
  <2>1. CASE UseServer BY <1>1, <1>3, <2>1, StopMaps DEF EnterDebugger
  <2>2. CASE ~UseServer
    <3>1. pc' = "debug" /\ Moment' = "loading"
      BY <1>3, <2>2 DEF EnterDebugger, Moment
    <3>2. cur \notin LiveJobs /\ ~Live(cur)'
      BY <1>1, <1>2, <1>3 DEF IsWild, LiveJobs, Live, Slots
    <3>3. InFlight' <=> InFlight BY <1>1, <3>1 DEF InFlight
    <3> QED BY <1>1, <3>1, <3>2, <3>3, Unseen
  <2> QED BY <2>1, <2>2
<1>4. CASE /\ Live(copy.job)
           /\ cpu' = LoadField(copy.done + 1, cpu, copy.job)
           /\ NextField("emulate")
           /\ UNCHANGED resume
  <2>1. cur \in LiveJobs /\ n \in 1 .. LastField /\ cpu' = LoadField(n, cpu, cur)
    BY <1>2, <1>4 DEF LiveJobs, Live, RInv, IInv, TypeOK, LastField
  <2>2. /\ cpu'.ip = IF n = 1 THEN jobs[cur].ip ELSE cpu.ip
        /\ cpu'.stk = IF n = 2 THEN jobs[cur].stk ELSE cpu.stk
        /\ cpu'.eflag = IF n = 3 THEN jobs[cur].eflag ELSE cpu.eflag
        /\ cpu'.handlers = IF n = 4 THEN jobs[cur].handlers ELSE cpu.handlers
        /\ cpu'.reg = IF n = 5 THEN jobs[cur].reg ELSE cpu.reg
    BY <2>1, LoadFieldType DEF RInv, IInv
  <2>3. \/ pc' = "emulate" /\ n = LastField
        \/ pc' = "loading" /\ n < LastField /\ copy'.done = n
    BY <1>1, <1>4, NextFieldType DEF RInv, IInv, LoopSteps
  <2>4. Moment' = pc' /\ Pending = 0 /\ Pending' = 0
    BY <1>1, <2>3 DEF Moment, Pending
  <2>5. copy.done = n - 1 /\ n \in Nat BY <2>1 DEF RInv, IInv, TypeOK
  <2>6. /\ (InCpu(1) <=> 1 < n) /\ (InCpu(1)' <=> 1 <= n)
        /\ (InCpu(2) <=> 2 < n) /\ (InCpu(2)' <=> 2 <= n)
        /\ (InCpu(3) <=> 3 < n) /\ (InCpu(3)' <=> 3 <= n)
        /\ (InCpu(4) <=> 4 < n) /\ (InCpu(4)' <=> 4 <= n)
        /\ (InCpu(5) <=> 5 < n) /\ (InCpu(5)' <=> 5 <= n)
    BY <1>1, <2>1, <2>3, <2>4, <2>5 DEF InCpu, LastField
  <2>7. /\ Plus(jobs[cur].ip, 0) = jobs[cur].ip
        /\ jobs[cur].reg % JobRegisterSpace = jobs[cur].reg
    <3>1. jobs[cur] \in Job BY <2>1 DEF LiveJobs, Live, RInv, IInv, TypeOK
    <3> QED BY <3>1, PlusNothing, SmallModulus, JobRegisterAssumption DEF Job
  <2>8. CurrentContext' = CurrentContext
    <3>0. /\ n = 1 \/ n = 2 \/ n = 3 \/ n = 4 \/ n = 5
      BY <2>1 DEF LastField
    <3> HIDE DEF n
    <3>1. /\ (IF InCpu(1)' THEN Plus(cpu'.ip, 0) ELSE jobs'[cur'].ip)
               = (IF InCpu(1) THEN Plus(cpu.ip, 0) ELSE jobs[cur].ip)
          /\ (IF InCpu(3)' THEN cpu'.eflag ELSE jobs'[cur'].eflag)
               = (IF InCpu(3) THEN cpu.eflag ELSE jobs[cur].eflag)
          /\ (IF InCpu(4)' THEN cpu'.handlers ELSE jobs'[cur'].handlers)
               = (IF InCpu(4) THEN cpu.handlers ELSE jobs[cur].handlers)
          /\ (IF InCpu(5)' THEN cpu'.reg % JobRegisterSpace ELSE jobs'[cur'].reg)
               = (IF InCpu(5) THEN cpu.reg % JobRegisterSpace ELSE jobs[cur].reg)
          /\ (IF InCpu(2)' THEN cpu'.stk ELSE jobs'[cur'].stk)
               = (IF InCpu(2) THEN cpu.stk ELSE jobs[cur].stk)
      BY <1>1, <2>2, <2>6, <2>7, <3>0
    <3> QED BY <1>1, <2>4, <3>1 DEF CurrentContext
  <2>9. pc' # "stopped" /\ pc' # "debug" /\ (InFlight' <=> InFlight)
    BY <1>1, <2>3, <2>4 DEF InFlight
  <2> QED BY <1>1, <2>3, <2>4, <2>8, <2>9, Unseen
<1> QED BY <1>3, <1>4 DEF LoadPart

\* The test of exitcalled
LEMMA EmulateRefines ==
  ASSUME RInv, Emulate PROVE UNCHANGED D!vars
<1>1. /\ pc = "emulate"
      /\ pc' = "save" \/ (pc' = "execute" /\ ~exitcalled)
      /\ UNCHANGED <<jobs, total, active, callStack, cpu, cur, exitcalled, isr>>
  BY DEF Emulate, tableVars
<1>2. Moment = "emulate" /\ Moment' = pc' /\ Pending = 0 /\ Pending' = 0
  BY <1>1 DEF Moment, Pending
<1>3. CurrentContext' = CurrentContext
  BY <1>1, <1>2 DEF CurrentContext, InCpu
<1>4. Ctx' = Ctx BY <1>1, <1>3, SameContexts
<1>5. Held' = Held /\ Owed' = Owed BY <1>1, <1>2 DEF Held, Owed
<1>6. Halted' = Halted BY <1>1, <1>2 DEF Halted, InFlight
<1> QED BY <1>1, <1>4, <1>5, <1>6 DEF D!vars

\* Nothing has been copied back yet
LEMMA SaveRefines ==
  ASSUME RInv, Save PROVE UNCHANGED D!vars
<1>1. /\ pc = "save"
      /\ \/ pc' = "advance" /\ ~Live(cur)
         \/ pc' = "saving" /\ copy'.done = 0
      /\ UNCHANGED <<jobs, total, active, callStack, cpu, cur, exitcalled, isr>>
  BY DEF Save, tableVars
<1>2. Moment = "save" /\ Moment' = pc' /\ Pending = 0 /\ Pending' = 0
  BY <1>1 DEF Moment, Pending
<1>3. cur \in LiveJobs => CurrentContext' = CurrentContext
  <2>1. SUFFICES ASSUME pc' = "saving", copy'.done = 0
                 PROVE  CurrentContext' = CurrentContext
    BY <1>1 DEF LiveJobs
  <2>2. /\ InCpu(1) /\ InCpu(2) /\ InCpu(3) /\ InCpu(4) /\ InCpu(5)
        /\ InCpu(1)' /\ InCpu(2)' /\ InCpu(3)' /\ InCpu(4)' /\ InCpu(5)'
    BY <1>2, <2>1 DEF InCpu
  <2> QED BY <1>1, <1>2, <2>2 DEF CurrentContext
<1>4. InFlight' <=> InFlight BY <1>1, <1>2 DEF InFlight
<1> QED BY <1>1, <1>2, <1>3, <1>4, Unseen

\* In the middle of a save a field is where it was, or has just been copied back,
\* and what is cut off it no domain sees
LEMMA SavePartRefines ==
  ASSUME RInv, SavePart PROVE UNCHANGED D!vars
<1> DEFINE n == copy.done + 1
<1>1. /\ pc = "saving" /\ Moment = "saving" /\ NextField("advance")
      /\ UNCHANGED <<total, active, callStack, cpu, cur, exitcalled, isr>>
  BY DEF SavePart, Moment
<1>2. copy.job = cur /\ cur \in LiveJobs
  BY <1>1 DEF RInv, IInv, Placed, LiveJobs, Live
<1>3. SaveField(n, cpu, cur) /\ n \in 1 .. LastField
  BY <1>2 DEF SavePart, RInv, IInv, TypeOK, LastField
<1>4. /\ \A e \in Slots : e # cur => jobs'[e] = jobs[e]
      /\ jobs'[cur].ip = IF n = 1 THEN cpu.ip ELSE jobs[cur].ip
      /\ jobs'[cur].stk = IF n = 2 THEN cpu.stk ELSE jobs[cur].stk
      /\ jobs'[cur].eflag = IF n = 3 THEN cpu.eflag ELSE jobs[cur].eflag
      /\ jobs'[cur].handlers = IF n = 4 THEN cpu.handlers ELSE jobs[cur].handlers
      /\ jobs'[cur].reg = IF n = 5 THEN cpu.reg % JobRegisterSpace ELSE jobs[cur].reg
      /\ LiveJobs' = LiveJobs
  BY <1>1, <1>2, <1>3, SaveFieldType DEF RInv, IInv
<1>5. \/ pc' = "advance" /\ n = LastField
      \/ pc' = "saving" /\ n < LastField /\ copy'.done = n
  BY <1>1, NextFieldType DEF RInv, IInv, LoopSteps
<1>6. Moment' = pc' /\ Pending = 0 /\ Pending' = 0
  BY <1>1, <1>5 DEF Moment, Pending
<1>7. copy.done = n - 1 /\ n \in Nat BY <1>3 DEF RInv, IInv, TypeOK
<1>8. /\ (InCpu(1) <=> 1 >= n) /\ (InCpu(1)' <=> 1 > n)
      /\ (InCpu(2) <=> 2 >= n) /\ (InCpu(2)' <=> 2 > n)
      /\ (InCpu(3) <=> 3 >= n) /\ (InCpu(3)' <=> 3 > n)
      /\ (InCpu(4) <=> 4 >= n) /\ (InCpu(4)' <=> 4 > n)
      /\ (InCpu(5) <=> 5 >= n) /\ (InCpu(5)' <=> 5 > n)
  BY <1>1, <1>3, <1>5, <1>6, <1>7 DEF InCpu, LastField
<1>9. Plus(cpu.ip, 0) = cpu.ip
  <2>1. cpu.ip \in Addr BY DEF RInv, IInv, TypeOK, CpuRecord
  <2> QED BY <2>1, PlusNothing
<1>10. CurrentContext' = CurrentContext
  <2>0. n = 1 \/ n = 2 \/ n = 3 \/ n = 4 \/ n = 5 BY <1>3 DEF LastField
  <2> HIDE DEF n
  <2>1. /\ (IF InCpu(1)' THEN Plus(cpu'.ip, 0) ELSE jobs'[cur'].ip)
             = (IF InCpu(1) THEN Plus(cpu.ip, 0) ELSE jobs[cur].ip)
        /\ (IF InCpu(3)' THEN cpu'.eflag ELSE jobs'[cur'].eflag)
             = (IF InCpu(3) THEN cpu.eflag ELSE jobs[cur].eflag)
        /\ (IF InCpu(4)' THEN cpu'.handlers ELSE jobs'[cur'].handlers)
             = (IF InCpu(4) THEN cpu.handlers ELSE jobs[cur].handlers)
        /\ (IF InCpu(5)' THEN cpu'.reg % JobRegisterSpace ELSE jobs'[cur'].reg)
             = (IF InCpu(5) THEN cpu.reg % JobRegisterSpace ELSE jobs[cur].reg)
        /\ (IF InCpu(2)' THEN cpu'.stk ELSE jobs'[cur'].stk)
             = (IF InCpu(2) THEN cpu.stk ELSE jobs[cur].stk)
    BY <1>1, <1>4, <1>8, <1>9, <2>0
  <2> QED BY <1>1, <1>6, <2>1 DEF CurrentContext
<1>11. \A d \in LiveJobs : d # cur => SavedContext(d)' = SavedContext(d)
  BY <1>1, <1>4 DEF SavedContext, LiveJobs
<1>12. Ctx' = Ctx BY <1>1, <1>4, <1>5, <1>10, <1>11, CtxIs
<1>13. Held' = Held /\ Owed' = Owed /\ Halted' = Halted
  BY <1>1, <1>5, <1>6 DEF Held, Owed, Halted, InFlight
<1> QED BY <1>1, <1>12, <1>13 DEF D!vars

\* CurrentJobID moves between two turns only
LEMMA AdvanceRefines ==
  ASSUME RInv, Advance PROVE UNCHANGED D!vars
<1>1. /\ pc = "advance" /\ pc' = "fetch"
      /\ UNCHANGED <<jobs, total, active, callStack, exitcalled, isr>>
  BY DEF Advance, tableVars
<1>2. Moment = "advance" /\ Moment' = "fetch" BY <1>1 DEF Moment
<1>3. LiveJobs' = LiveJobs /\ \A d : SavedContext(d)' = SavedContext(d)
  BY <1>1, SameTable DEF RInv, SavedContext
<1>4. CurrentContext = SavedContext(cur) /\ CurrentContext' = SavedContext(cur)'
  BY <1>2, Resting
<1>5. Ctx' = Ctx
  <2>1. \A d \in LiveJobs : (IF d = cur' THEN CurrentContext' ELSE SavedContext(d)')
                              = SavedContext(d)
    BY <1>1, <1>3, <1>4 DEF SavedContext
  <2> QED BY <1>1, <1>3, <1>4, <2>1, CtxIs
<1>6. Held' = Held /\ Owed' = Owed /\ Halted' = Halted
  BY <1>1, <1>2 DEF Held, Owed, Halted, InFlight
<1> QED BY <1>1, <1>5, <1>6 DEF D!vars

-----------------------------------------------------------------------------
(* The debugger, and what comes from outside.                               *)

\* The debugger returns to the loop, and adds what it owes
LEMMA ContinueRefines ==
  ASSUME RInv, Continue PROVE D!Next
<1>1. /\ pc = "debug" /\ pc' = resume.pc
      /\ cpu' = [cpu EXCEPT !.ip = Plus(@, resume.add)]
      /\ UNCHANGED <<jobs, total, active, callStack, cur, copy, exitcalled, isr>>
  BY DEF Continue, tableVars
<1>2. CASE pc' = "stopped" BY <1>1, <1>2, StopMaps
<1>3. CASE pc' # "stopped"
  <2>1. resume.pc \in LoopSteps BY <1>1, <1>3 DEF RInv, IInv, TypeOK
  <2>2. pc' # "debug" /\ Moment' = Moment /\ Moment = resume.pc
    BY <1>1, <2>1 DEF Moment, LoopSteps
  <2>3. /\ (InCpu(1)' <=> InCpu(1)) /\ (InCpu(2)' <=> InCpu(2))
        /\ (InCpu(3)' <=> InCpu(3)) /\ (InCpu(4)' <=> InCpu(4))
        /\ (InCpu(5)' <=> InCpu(5))
    BY <1>1, <2>2 DEF InCpu
  <2>4. cpu \in CpuRecord /\ cpu.ip \in Addr /\ resume.add \in Int
    BY DEF RInv, IInv, TypeOK, CpuRecord
  <2>5. /\ cpu'.ip = Plus(cpu.ip, resume.add) /\ cpu'.ip \in Addr
        /\ cpu'.eflag = cpu.eflag /\ cpu'.handlers = cpu.handlers
        /\ cpu'.reg = cpu.reg /\ cpu'.stk = cpu.stk
    <3>1. Plus(cpu.ip, resume.add) \in Addr BY <2>4, PlusIsAddr, AddrIsInt
    <3> QED BY <1>1, <2>4, <3>1 DEF CpuRecord
  <2>6. Plus(cpu'.ip, Pending') = Plus(cpu.ip, Pending)
    <3>1. CASE Moment = "setisr"
      <4>1. resume.add = 0 BY <2>2, <3>1 DEF RInv, ResumeAdds
      <4>2. cpu'.ip = cpu.ip BY <2>4, <2>5, <4>1, PlusNothing
      <4> QED BY <2>2, <3>1, <4>2 DEF Pending
    <3>2. CASE Moment # "setisr"
      <4>1. Pending = resume.add /\ Pending' = 0
        BY <1>1, <2>2, <3>2 DEF Pending
      <4> QED BY <2>5, <4>1, PlusNothing
    <3> QED BY <3>1, <3>2
  <2>7. CurrentContext' = CurrentContext
    BY <1>1, <2>3, <2>5, <2>6 DEF CurrentContext
  <2>8. Ctx' = Ctx BY <1>1, <1>3, <2>7, SameContexts
  <2>9. Held' = {} /\ Owed' = Owed /\ Halted' = Halted
    BY <1>1, <1>3, <2>2 DEF Held, Owed, Halted, InFlight
  <2> QED BY <1>1, <2>8, <2>9 DEF D!Next, D!Release
<1> QED BY <1>2, <1>3

\* The operator changes a field of what is in the CPU: the context of the domain
\* in hand, or what no domain will see again
LEMMA Operated ==
  ASSUME RInv, pc = "debug", pc' = "debug",
         UNCHANGED <<jobs, total, active, callStack, cur, copy, resume,
                     exitcalled, isr>>,
         \/ CurrentContext' = CurrentContext
         \/ InCpu(1) /\ \E a \in Addr :
               CurrentContext' = [CurrentContext EXCEPT !.ip = a]
         \/ InCpu(5) /\ \E r \in 0 .. JobRegisterSpace - 1 :
               CurrentContext' = [CurrentContext EXCEPT !.reg = r]
  PROVE  D!Next \/ UNCHANGED D!vars
<1>1. Moment' = Moment /\ (InFlight' <=> InFlight) /\ (MidTurn' <=> MidTurn)
  BY DEF Moment, InFlight, MidTurn, InTurn
<1>2. Held' = Held /\ Owed' = Owed /\ Halted' = Halted
  BY <1>1 DEF Held, Owed, Halted, Live, Slots
<1>3. CASE cur \notin LiveJobs \/ CurrentContext' = CurrentContext
  <2>1. Ctx' = Ctx BY <1>3, SameContexts
  <2> QED BY <1>2, <2>1 DEF D!vars
<1>4. CASE cur \in LiveJobs /\ CurrentContext' # CurrentContext
  <2>1. Held = {cur}
    <3>1. MidTurn BY <1>4 DEF InCpu, MidTurn, InTurn
    <3> QED BY <1>4, <3>1 DEF Held, LiveJobs
  <2>2. Ctx = [d \in LiveJobs |->
                 IF d = cur THEN CurrentContext ELSE SavedContext(d)]
    BY CtxIs
  <2>3. Ctx' = [d \in LiveJobs |->
                  IF d = cur THEN CurrentContext' ELSE SavedContext(d)]
    <3>1. LiveJobs' = LiveJobs /\ \A d : SavedContext(d)' = SavedContext(d)
      BY SameTable DEF RInv, SavedContext
    <3> QED BY <3>1, CtxIs
  <2>4. DOMAIN Ctx = LiveJobs /\ Ctx[cur] = CurrentContext BY <1>4, <2>2
  <2>5. Ctx' = [Ctx EXCEPT ![cur] = CurrentContext'] BY <1>4, <2>2, <2>3
  <2>6. CASE \E a \in Addr : CurrentContext' = [CurrentContext EXCEPT !.ip = a]
    <3>1. PICK a \in Addr : CurrentContext' = [CurrentContext EXCEPT !.ip = a]
      BY <2>6
    <3>2. Ctx' = [Ctx EXCEPT ![cur].ip = a] BY <2>4, <2>5, <3>1
    <3>3. D!Operate(cur) BY <1>2, <2>1, <3>2, SameFaults DEF D!Operate
    <3> QED BY <1>4, <2>4, <3>3 DEF D!Next, D!Domain
  <2>7. CASE \E r \in 0 .. JobRegisterSpace - 1 :
               CurrentContext' = [CurrentContext EXCEPT !.reg = r]
    <3>1. PICK r \in 0 .. JobRegisterSpace - 1 :
            CurrentContext' = [CurrentContext EXCEPT !.reg = r]
      BY <2>7
    <3>2. Ctx' = [Ctx EXCEPT ![cur].reg = r] BY <2>4, <2>5, <3>1
    <3>3. D!Operate(cur) BY <1>2, <2>1, <3>2 DEF D!Operate
    <3> QED BY <1>4, <2>4, <3>3 DEF D!Next, D!Domain
  <2> QED BY <1>4, <2>6, <2>7
<1> QED BY <1>3, <1>4

\* setip: what the debugger still adds is added to the new address
LEMMA SetIpRefines ==
  ASSUME RInv, SetIp PROVE D!Next \/ UNCHANGED D!vars
<1>1. PICK t \in Targets : cpu' = [cpu EXCEPT !.ip = t] BY DEF SetIp
<1>2. /\ pc = "debug" /\ pc' = "debug"
      /\ UNCHANGED <<jobs, total, active, callStack, cur, copy, resume,
                     exitcalled, isr>>
  BY DEF SetIp, tableVars
<1>3. Moment' = Moment /\ Pending' = Pending /\ Pending \in Int
  BY <1>2 DEF Moment, Pending, RInv, IInv, TypeOK
<1>4. /\ (InCpu(1)' <=> InCpu(1)) /\ (InCpu(2)' <=> InCpu(2))
      /\ (InCpu(3)' <=> InCpu(3)) /\ (InCpu(4)' <=> InCpu(4))
      /\ (InCpu(5)' <=> InCpu(5))
  BY <1>2, <1>3 DEF InCpu
<1>5. /\ cpu'.ip = t /\ cpu'.eflag = cpu.eflag /\ cpu'.handlers = cpu.handlers
      /\ cpu'.reg = cpu.reg /\ cpu'.stk = cpu.stk
  BY <1>1 DEF RInv, IInv, TypeOK, CpuRecord
<1>6. CASE ~InCpu(1)
  <2>1. CurrentContext' = CurrentContext
    BY <1>2, <1>3, <1>4, <1>5, <1>6 DEF CurrentContext
  <2> QED BY <1>2, <2>1, Operated
<1>7. CASE InCpu(1)
  <2>1. Plus(t, Pending) \in Addr
    BY <1>3, PlusIsAddr, AddrIsInt, AddressAssumption
  <2>2. CurrentContext' = [CurrentContext EXCEPT !.ip = Plus(t, Pending)]
    BY <1>2, <1>3, <1>4, <1>5, <1>7 DEF CurrentContext
  <2> QED BY <1>2, <1>7, <2>1, <2>2, Operated
<1> QED BY <1>6, <1>7

\* setreg: the value fits in the register of a job
LEMMA SetRegRefines ==
  ASSUME RInv, SetReg PROVE D!Next \/ UNCHANGED D!vars
<1>1. PICK r \in 0 .. JobRegisterSpace - 1 : cpu' = [cpu EXCEPT !.reg = r]
  BY DEF SetReg
<1>2. /\ pc = "debug" /\ pc' = "debug"
      /\ UNCHANGED <<jobs, total, active, callStack, cur, copy, resume,
                     exitcalled, isr>>
  BY DEF SetReg, tableVars
<1>3. Moment' = Moment /\ Pending' = Pending BY <1>2 DEF Moment, Pending
<1>4. /\ (InCpu(1)' <=> InCpu(1)) /\ (InCpu(2)' <=> InCpu(2))
      /\ (InCpu(3)' <=> InCpu(3)) /\ (InCpu(4)' <=> InCpu(4))
      /\ (InCpu(5)' <=> InCpu(5))
  BY <1>2, <1>3 DEF InCpu
<1>5. /\ cpu'.ip = cpu.ip /\ cpu'.eflag = cpu.eflag /\ cpu'.handlers = cpu.handlers
      /\ cpu'.reg = r /\ cpu'.stk = cpu.stk
  BY <1>1 DEF RInv, IInv, TypeOK, CpuRecord
<1>6. CASE ~InCpu(5)
  <2>1. CurrentContext' = CurrentContext
    BY <1>2, <1>3, <1>4, <1>5, <1>6 DEF CurrentContext
  <2> QED BY <1>2, <2>1, Operated
<1>7. CASE InCpu(5)
  <2>1. r % JobRegisterSpace = r BY SmallModulus, JobRegisterAssumption
  <2>2. CurrentContext' = [CurrentContext EXCEPT !.reg = r]
    BY <1>2, <1>3, <1>4, <1>5, <1>7, <2>1 DEF CurrentContext
  <2> QED BY <1>2, <1>7, <2>2, Operated
<1> QED BY <1>6, <1>7

\* Ctrl-C stops the loop where it is
LEMMA SigIntRefines ==
  ASSUME RInv, SigInt PROVE D!Next \/ UNCHANGED D!vars
<1>1. /\ pc \in LoopSteps /\ EnterDebugger(pc, 0)
      /\ UNCHANGED <<jobs, total, active, callStack, cpu, cur, copy, exitcalled, isr>>
  BY DEF SigInt, tableVars
<1>2. CASE UseServer BY <1>1, <1>2, StopMaps DEF EnterDebugger
<1>3. CASE ~UseServer
  <2>1. pc' = "debug" /\ resume' = [pc |-> pc, add |-> 0]
    BY <1>1, <1>3 DEF EnterDebugger
  <2>2. pc # "stopped" /\ pc # "debug" BY <1>1 DEF LoopSteps
  <2>3. Moment' = Moment /\ Pending' = Pending
    BY <2>1, <2>2 DEF Moment, Pending
  <2>4. CurrentContext' = CurrentContext
    BY <1>1, <2>3 DEF CurrentContext, InCpu
  <2>5. Ctx' = Ctx BY <1>1, <2>1, <2>2, <2>4, SameContexts
  <2>6. Held = {} /\ Owed' = Owed /\ Halted' = Halted
    BY <1>1, <2>1, <2>2, <2>3 DEF Held, Owed, Halted, InFlight
  <2>7. Held' = IF MidTurn /\ Live(cur) THEN {cur} ELSE {}
    BY <1>1, <2>1, <2>3 DEF Held, MidTurn, InTurn, Live, Slots
  <2>8. CASE MidTurn /\ Live(cur)
    <3>1. cur \in D!Domain
      BY <2>2, <2>8, CtxIs DEF D!Domain, LiveJobs, Live
    <3>2. D!Hold(cur) BY <1>1, <2>5, <2>6, <2>7, <2>8 DEF D!Hold
    <3> QED BY <3>1, <3>2 DEF D!Next
  <2>9. CASE ~(MidTurn /\ Live(cur))
    BY <1>1, <2>5, <2>6, <2>7, <2>9 DEF D!vars
  <2> QED BY <2>8, <2>9
<1> QED BY <1>2, <1>3

\* Another thread sets exitcalled
LEMMA ExitFlagRefines ==
  ASSUME RInv, WindowClosed \/ Watchdog PROVE D!Next \/ UNCHANGED D!vars
<1>1. /\ pc # "stopped" /\ exitcalled' = TRUE
      /\ UNCHANGED <<jobs, total, active, callStack, cpu, cur, copy, pc, resume, isr>>
  BY DEF WindowClosed, Watchdog, tableVars
<1>2. Moment' = Moment /\ Pending' = Pending BY <1>1 DEF Moment, Pending
<1>3. CurrentContext' = CurrentContext
  BY <1>1, <1>2 DEF CurrentContext, InCpu
<1>4. Ctx' = Ctx BY <1>1, <1>3, SameContexts
<1>5. Held' = Held /\ Owed' = Owed
  BY <1>1, <1>2 DEF Held, Owed, MidTurn, InTurn, Live, Slots
<1>6. CASE InFlight
  <2>1. Halted' = Halted BY <1>1, <1>2, <1>6 DEF Halted, InFlight
  <2> QED BY <1>1, <1>4, <1>5, <2>1 DEF D!vars
<1>7. CASE ~InFlight
  <2>1. Halted' = TRUE BY <1>1, <1>2, <1>7 DEF Halted, InFlight
  <2> QED BY <1>1, <1>4, <1>5, <2>1 DEF D!Next, D!Quit
<1> QED BY <1>6, <1>7

-----------------------------------------------------------------------------
(* The refinement.                                                          *)

\* The machine starts as the domains do: the BIOS alone, at address 0, with the
\* entry point of the program in its register
LEMMA InitRefines == Init => D!Init
<1> SUFFICES ASSUME Init PROVE D!Init OBVIOUS
<1> DEFINE e == Entry % JobRegisterSpace
           bios == [NewJob(0, 0, TRUE) EXCEPT !.reg = e]
<1>1. /\ jobs = [d \in 0 .. Chunk - 1 |-> IF d = 0 THEN bios ELSE NoJob]
      /\ callStack = [d \in 0 .. Chunk - 1 |-> IF d = 0 THEN <<0>> ELSE <<>>]
      /\ total = Chunk /\ pc = "fetch" /\ exitcalled = FALSE /\ isr = 0
  BY DEF Init
<1>2. e \in 0 .. JobRegisterSpace - 1 /\ Entry \in Registers
  BY ModulusTwice, JobRegisterAssumption, RegisterAssumption DEF Registers
<1>3. NewContext(0) \in Context /\ [NewContext(0) EXCEPT !.reg = Entry] \in Context
  <2>1. NoHandlers \in Handlers BY ZeroIsAddr DEF NoHandlers, Handlers
  <2>2. 0 \in Registers BY RegisterAssumption DEF Registers
  <2>3. <<0>> \in Seq(Addr) BY ZeroIsAddr
  <2> QED BY <1>2, <2>1, <2>2, <2>3, ZeroIsAddr DEF NewContext, Context
<1> HIDE DEF e
<1>4. bios \in Job
  BY <1>2, ZeroIsAddr DEF NewJob, Job, NoHandlers, Handlers
<1>5. LiveJobs = {0}
  BY <1>1, <1>4, SlotAssumption, TableAssumption DEF LiveJobs, Live, Slots
<1>6. Ctx = [d \in {0} |-> SavedContext(0)]
  <2>1. CurrentContext = SavedContext(cur) BY <1>1, Resting DEF Moment
  <2>2. Ctx = [d \in LiveJobs |-> SavedContext(d)] BY <1>1, <2>1, CtxIs
  <2> QED BY <1>5, <2>2
<1>7. SavedContext(0) = [NewContext(0) EXCEPT !.reg = e]
  <2>1. jobs[0] = bios /\ callStack[0] = <<0>> BY <1>1, TableAssumption
  <2>2. /\ jobs[0].ip = 0 /\ jobs[0].eflag = FALSE /\ jobs[0].reg = e
        /\ jobs[0].handlers = NoHandlers /\ jobs[0].stk = 0
    BY <2>1 DEF NewJob
  <2>3. SavedContext(0) =
          [ip |-> jobs[0].ip, eflag |-> jobs[0].eflag, handlers |-> jobs[0].handlers,
           reg |-> jobs[0].reg, calls |-> callStack[jobs[0].stk]]
    BY DEF SavedContext
  <2>4. PICK n, f, s : n = NoHandlers /\ f = FALSE /\ s = <<0>> OBVIOUS
  <2>5. SavedContext(0) = [ip |-> 0, eflag |-> f, handlers |-> n, reg |-> e, calls |-> s]
    <3>1. callStack[jobs[0].stk] = <<0>> BY <2>1, <2>2
    <3> QED BY <2>2, <2>3, <2>4, <3>1
  <2>6. NewContext(0) = [ip |-> 0, eflag |-> f, handlers |-> n, reg |-> 0, calls |-> s]
    BY <2>4 DEF NewContext
  <2> HIDE DEF bios
  <2>7. [NewContext(0) EXCEPT !.reg = e]
          = [ip |-> 0, eflag |-> f, handlers |-> n, reg |-> e, calls |-> s]
    BY <2>6
  <2> QED BY <2>5, <2>7
<1>8. Kept([NewContext(0) EXCEPT !.reg = Entry]) = [NewContext(0) EXCEPT !.reg = e]
  BY <1>3 DEF Kept, Context, e
<1>9. Halted = FALSE /\ Held = {} /\ Owed = FALSE
  BY <1>1 DEF Halted, Held, Owed, Moment
<1> QED BY <1>1, <1>6, <1>7, <1>8, <1>9, DKept, SameFaults DEF D!Init

\* Every step of the machine is a step of one domain, or a step no domain sees
LEMMA StepRefines ==
  ASSUME NoSwitch, RInv, RInv', [Next]_vars PROVE D!Next \/ UNCHANGED D!vars
<1>1. CASE UNCHANGED vars
  <2>1. Ctx' = Ctx /\ Held' = Held /\ Owed' = Owed /\ Halted' = Halted /\ isr' = isr
    BY <1>1 DEF vars, Ctx, Held, Owed, Halted, InFlight, MidTurn, InTurn, Moment,
       LiveJobs, Live, Slots, CurrentContext, SavedContext, InCpu, Pending
  <2> QED BY <2>1 DEF D!vars
<1>2. CASE Execute
  BY <1>2, InstructionRefines, LoadIRefines, RaiseRefines, DispatchRefines, ExitRefines
  DEF Execute
<1>3. CASE Turn
  BY <1>2, <1>3, FetchRefines, LoadTurnRefines, LoadPartRefines, EmulateRefines,
     SetIsrRefines, SaveRefines, SavePartRefines, AdvanceRefines
  DEF Turn
<1>4. CASE Debugger
  <2>1. ~SwitchDomain BY DEF SwitchDomain, NoSwitch
  <2>2. CASE QuitCommand BY <2>2, StopMaps DEF QuitCommand
  <2> QED BY <1>4, <2>1, <2>2, ContinueRefines, SetIpRefines, SetRegRefines DEF Debugger
<1>5. CASE SigInt BY <1>5, SigIntRefines
<1>6. CASE WindowClosed \/ Watchdog BY <1>6, ExitFlagRefines
<1> QED BY <1>1, <1>3, <1>4, <1>5, <1>6 DEF Next

\* The machine implements the private contexts: whatever the loop, the one
\* register file, the copies in and out of the table and its growth do, a
\* program sees domains that each own a context, as long as the operator does
\* not switch domains in the debugger (cpu.c:162-185, dispatcher.c:27-138)
THEOREM CpuImplementsDomains ==
  ASSUME NoSwitch
  PROVE  Spec => ImplementsDomains
<1>1. Init => RInv BY InitNames
<1>2. RInv /\ [Next]_vars => RInv' BY StepNames
<1>3. Init => D!Init BY InitRefines
<1>4. RInv /\ RInv' /\ [Next]_vars => [D!Next]_(D!vars) BY StepRefines
<1> QED BY <1>1, <1>2, <1>3, <1>4, PTL DEF Spec, ImplementsDomains, D!Spec
=============================================================================
