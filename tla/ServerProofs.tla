---------------------------- MODULE ServerProofs ----------------------------
(***************************************************************************)
(* Proofs about Server for every set of pids and every size of the table.  *)
(* The invariant has three parts: the types, the exact table, and what is  *)
(* remembered of the clients that the table no longer holds.               *)
(***************************************************************************)
EXTENDS Server, FiniteSetTheorems, TLAPS

States == {"none", "starting", "up", "ended"}

ClientsOK ==
    /\ proc \in [Pids -> States]
    /\ stopped \subseteq Live
    /\ due \subseteq {p \in stopped : proc[p] = "starting"}

\* What no signal does: start a client or bring one back.
Signalled ==
    /\ ClientsOK'
    /\ Started' = Started
    /\ \A p \in Pids : proc[p] = "ended" => proc'[p] = "ended"

History ==
    /\ removed \cup lost \subseteq Started
    /\ \A p \in removed : proc[p] = "ended"
    /\ pc = "forked" => client \notin removed \cup lost
    /\ server = "quit" => pc = "prompt"
    /\ QuitEndsClients

IInv == TypeOK /\ TableExact /\ History

-----------------------------------------------------------------------------
(* Signals. *)

LEMMA KillSignals ==
    ASSUME ClientsOK, NEW S, SIGKILL(S)
    PROVE  Signalled /\ \A p \in S \cap Started : proc'[p] = "ended"
  BY DEF ClientsOK, SIGKILL, Signalled, States, Started, Live

LEMMA StopSignals ==
    ASSUME ClientsOK, NEW S, SIGSTOP(S)
    PROVE  Signalled
  BY DEF ClientsOK, SIGSTOP, Signalled, States, Started, Live

LEMMA ContSignals ==
    ASSUME ClientsOK, NEW S, SIGCONT(S)
    PROVE  Signalled
  BY DEF ClientsOK, SIGCONT, Signalled, States, Started, Live

LEMMA UnhandledSignals ==
    ASSUME ClientsOK, NEW S, Unhandled(S)
    PROVE  Signalled
  BY DEF ClientsOK, Unhandled, Signalled, States, Started, Live

LEMMA QuietSignals ==
    ASSUME ClientsOK, UNCHANGED clients
    PROVE  Signalled
  BY DEF ClientsOK, clients, Signalled, States, Started, Live

LEMMA TypesOfClients ==
    ASSUME TypeOK
    PROVE  ClientsOK
  BY DEF TypeOK, ClientsOK, States

-----------------------------------------------------------------------------
(* A step that signals, and leaves the table and the place alone. *)

LEMMA SignalKeeps ==
    ASSUME IInv, Signalled, UNCHANGED <<table, pc, client>>,
           server' \in {"running", "suspended", "quit", "dead"},
           server' = "quit" =>
                pc = "prompt" /\ \A p \in Started \ lost : proc'[p] = "ended"
    PROVE  IInv'
<1>1. TypeOK'
  BY DEF IInv, TypeOK, Signalled, ClientsOK, States, table
<1>2. TableExact'
  BY DEF IInv, TableExact, Signalled, Holds, Unrecorded, table
<1>3. History'
  BY DEF IInv, TypeOK, History, Signalled, QuitEndsClients, table
<1> QED BY <1>1, <1>2, <1>3 DEF IInv

(* kill_pid of a client: it leaves the table, and it has ended. *)

LEMMA KillKeeps ==
    ASSUME IInv, AtPrompt, NEW pid \in Pids, kill_pid(pid), UNCHANGED <<pc, client>>
    PROVE  IInv'
<1> USE PidsAssumption
<1>1. pid # 0 /\ server' = "running" /\ pc = "prompt"
  BY DEF AtPrompt, kill_pid
<1>2. Signalled /\ \A p \in Targets(pid) \cap Started : proc'[p] = "ended"
  BY KillSignals, TypesOfClients DEF IInv, kill_pid
<1>3. PICK i \in First(Holds(pid)) : childpids' = [childpids EXCEPT ![i] = 0]
  BY <1>1 DEF kill_pid
<1>4. removed' = removed \cup {pid} /\ lost' = lost /\ uncleared' = uncleared
  BY <1>1 DEF kill_pid, Targets
<1>5. i \in 1..Slots /\ childpids[i] = pid
  BY <1>3 DEF First, Holds
<1>6. childpids \in [1..Slots -> Pids \cup {0, Junk}] /\ Junk \notin Pids
  BY JunkAssumption DEF IInv, TypeOK
<1>7. pid \in Started /\ Targets(pid) = {pid}
  <2>1. pid \in {p \in Pids : Holds(p) # {}}
    BY <1>5 DEF Holds
  <2> QED BY <2>1, <1>1 DEF IInv, TableExact, Targets
<1>8. TypeOK'
  BY <1>1, <1>2, <1>3, <1>4, <1>5, <1>6 DEF IInv, TypeOK, Signalled, ClientsOK, States
<1>9. Holds(pid)' = {}
  <2>1. \A j \in Holds(pid) : j = i
    BY <1>5 DEF IInv, TableExact, Holds
  <2> QED BY <2>1, <1>1, <1>3, <1>5, <1>6 DEF Holds
<1>10. \A p \in Pids \ {pid} : Holds(p)' = Holds(p)
  BY <1>1, <1>3, <1>5, <1>6 DEF Holds
<1>11. Unrecorded = {} /\ Unrecorded' = {}
  BY <1>1 DEF Unrecorded
<1>12. TableExact'
  <2>1. {p \in Pids : Holds(p)' # {}} = {p \in Pids : Holds(p) # {}} \ {pid}
    BY <1>9, <1>10
  <2>2. {p \in Pids : Holds(p)' # {}} = Started' \ (removed' \cup lost' \cup Unrecorded')
    BY <2>1, <1>2, <1>4, <1>11 DEF IInv, TableExact, Signalled
  <2>3. \A p \in Pids : \A j, k \in Holds(p)' : j = k
    BY <1>9, <1>10 DEF IInv, TableExact
  <2> QED BY <2>2, <2>3 DEF TableExact
<1>13. History'
  BY <1>1, <1>2, <1>4, <1>7 DEF IInv, TypeOK, History, Signalled, QuitEndsClients
<1> QED BY <1>8, <1>12, <1>13 DEF IInv

(* kill_pid of junk: a slot becomes empty, and nothing else happens here. *)

LEMMA KillJunkKeeps ==
    ASSUME IInv, kill_pid(Junk), UNCHANGED <<pc, client>>
    PROVE  IInv'
<1>1. Junk \notin Pids /\ Junk # 0 /\ 0 \notin Pids
  BY JunkAssumption, PidsAssumption
<1>2. Targets(Junk) = {}
  BY <1>1 DEF Targets
<1>3. Signalled
  BY KillSignals, TypesOfClients DEF IInv, kill_pid
<1>4. PICK i \in First(Holds(Junk)) : childpids' = [childpids EXCEPT ![i] = 0]
  BY <1>1 DEF kill_pid
<1>5. UNCHANGED <<server, removed, lost, uncleared>>
  BY <1>1, <1>2 DEF kill_pid
<1>6. i \in 1..Slots /\ childpids[i] = Junk
  BY <1>4 DEF First, Holds
<1>7. childpids \in [1..Slots -> Pids \cup {0, Junk}]
  BY DEF IInv, TypeOK
<1>8. \A p \in Pids : Holds(p)' = Holds(p)
  BY <1>1, <1>4, <1>6, <1>7 DEF Holds
<1>9. TypeOK'
  BY <1>3, <1>4, <1>5, <1>7 DEF IInv, TypeOK, Signalled, ClientsOK, States
<1>10. TableExact'
  BY <1>3, <1>5, <1>8 DEF IInv, TableExact, Signalled, Unrecorded
<1>11. History'
  <2>1. Started' = Started /\ \A p \in Pids : proc[p] = "ended" => proc'[p] = "ended"
    BY <1>3 DEF Signalled
  <2>2. removed \cup lost \subseteq Pids /\ Started \subseteq Pids
    BY DEF IInv, TypeOK, Started
  <2>3. History
    BY DEF IInv
  <2>4. QuitEndsClients'
    BY <2>1, <2>2, <2>3, <1>5 DEF History, QuitEndsClients
  <2> QED BY <2>1, <2>2, <2>3, <2>4, <1>5 DEF History
<1> QED BY <1>9, <1>10, <1>11 DEF IInv

(* add_pid of the client just forked, which no slot holds yet. *)

LEMMA AddKeeps ==
    ASSUME IInv, Add
    PROVE  IInv'
<1>1. server = "running" /\ server' = server /\ pc = "forked" /\ pc' = "added"
      /\ client' = client /\ UNCHANGED <<removed, uncleared>> /\ UNCHANGED clients
  BY DEF Add, add_pid
<1>2. client \in Pids /\ client \in Started /\ client \notin removed \cup lost
  BY <1>1 DEF IInv, TypeOK, History, Started
<1>3. childpids \in [1..Slots -> Pids \cup {0, Junk}] /\ 0 \notin Pids
  BY PidsAssumption DEF IInv, TypeOK
<1>4. Started' = Started /\ Unrecorded = {client} /\ Unrecorded' = {}
  BY <1>1 DEF Started, Unrecorded, clients
<1>5. Holds(client) = {}
  BY <1>2, <1>4 DEF IInv, TableExact
<1>6. CASE EmptySlots = {} /\ lost' = lost \cup {client} /\ childpids' = childpids
  <2>1. TypeOK'
    BY <1>1, <1>2, <1>6 DEF IInv, TypeOK, clients, Live, Started
  <2>2. \A p \in Pids : Holds(p)' = Holds(p)
    BY <1>6 DEF Holds
  <2>3. TableExact'
    BY <2>2, <1>1, <1>4, <1>6 DEF IInv, TableExact
  <2>4. History'
    BY <1>1, <1>2, <1>4, <1>6 DEF IInv, History, QuitEndsClients, clients
  <2> QED BY <2>1, <2>3, <2>4 DEF IInv
<1>7. ASSUME NEW i \in First(EmptySlots), lost' = lost,
             childpids' = [childpids EXCEPT ![i] = client]
      PROVE  IInv'
  <2>1. i \in 1..Slots /\ childpids[i] = 0
    BY <1>7 DEF First, EmptySlots, Holds
  <2>2. TypeOK'
    BY <1>1, <1>2, <1>3, <1>7, <2>1 DEF IInv, TypeOK, clients, Live, Started
  <2>3. Holds(client)' = {i}
    BY <1>1, <1>3, <1>5, <1>7, <2>1 DEF Holds
  <2>4. \A p \in Pids \ {client} : Holds(p)' = Holds(p)
    BY <1>3, <1>7, <2>1 DEF Holds
  <2>5. {p \in Pids : Holds(p)' # {}} = {p \in Pids : Holds(p) # {}} \cup {client}
    BY <2>3, <2>4, <1>1, <1>2
  <2>6. {p \in Pids : Holds(p)' # {}} = Started' \ (removed' \cup lost' \cup Unrecorded')
    BY <2>5, <1>1, <1>2, <1>4, <1>7 DEF IInv, TableExact
  <2>7. \A p \in Pids : \A j, k \in Holds(p)' : j = k
    BY <2>3, <2>4, <1>1 DEF IInv, TableExact
  <2>8. TableExact'
    BY <2>6, <2>7 DEF TableExact
  <2>9. History'
    BY <1>1, <1>2, <1>4, <1>7 DEF IInv, History, QuitEndsClients, clients
  <2> QED BY <2>2, <2>8, <2>9 DEF IInv
<1> QED BY <1>6, <1>7 DEF Add, add_pid

(* fork: a pid that was not there before. *)

LEMMA ForkKeeps ==
    ASSUME IInv, Fork
    PROVE  IInv'
<1>1. PICK p \in Pids : /\ proc[p] = "none"
                        /\ proc' = [proc EXCEPT ![p] = "starting"]
                        /\ client' = p
  BY DEF Fork
<1>2. server = "running" /\ server' = server /\ pc = "prompt" /\ pc' = "forked"
      /\ UNCHANGED <<childpids, removed, lost, uncleared, stopped, due>>
  BY DEF Fork, AtPrompt, table
<1>3. p \notin Started /\ Started' = Started \cup {p}
  BY <1>1 DEF IInv, TypeOK, Started
<1>4. TypeOK'
  BY <1>1, <1>2, <1>3 DEF IInv, TypeOK, Live
<1>5. Unrecorded = {} /\ Unrecorded' = {p}
  BY <1>1, <1>2 DEF Unrecorded
<1>6. \A q \in Pids : Holds(q)' = Holds(q)
  BY <1>2 DEF Holds
<1>7. TableExact'
  BY <1>2, <1>3, <1>5, <1>6 DEF IInv, TableExact
<1>8. History'
  BY <1>1, <1>2, <1>3 DEF IInv, TypeOK, History, QuitEndsClients, Started
<1> QED BY <1>4, <1>7, <1>8 DEF IInv

(* A client installs its handlers or ends. *)

LEMMA ClientKeeps ==
    ASSUME IInv, NEW p \in Pids, Install(p) \/ End(p)
    PROVE  IInv'
<1>1. Signalled
  BY TypesOfClients DEF IInv, ClientsOK, Install, End, Signalled, Started, Live, States
<1>2. UNCHANGED <<server, table, pc, client>>
  BY DEF Install, End
<1> QED
  BY <1>1, <1>2, SignalKeeps
     DEF IInv, TypeOK, History, QuitEndsClients, Signalled, Started

-----------------------------------------------------------------------------
(* The commands, the answers and the terminal. *)

LEMMA CommandKeeps ==
    ASSUME IInv, Command
    PROVE  IInv'
<1>1. PICK pid \in Pids \cup {0, Junk} :
        kill_pid(pid) \/ pause_pid(pid) \/ cont_pid(pid) \/ query_pid(pid)
  BY DEF Command
<1>2. AtPrompt /\ server = "running" /\ UNCHANGED <<pc, client>> /\ ClientsOK
  BY TypesOfClients DEF Command, AtPrompt, IInv
<1>3. CASE kill_pid(pid)
  <2>1. CASE pid = 0
    BY <1>2, <1>3, <2>1, KillSignals, SignalKeeps DEF kill_pid
  <2>2. CASE pid = Junk
    BY <1>2, <1>3, <2>2, KillJunkKeeps
  <2> QED BY <1>2, <1>3, <2>1, <2>2, KillKeeps
<1>4. CASE pause_pid(pid)
  BY <1>2, <1>4, StopSignals, SignalKeeps DEF pause_pid
<1>5. CASE cont_pid(pid)
  BY <1>2, <1>5, ContSignals, SignalKeeps DEF cont_pid
<1>6. CASE query_pid(pid)
  BY <1>2, <1>6, UnhandledSignals, SignalKeeps DEF query_pid
<1> QED BY <1>1, <1>3, <1>4, <1>5, <1>6

(* `Continue Execution?' and its answer move pc as well. *)

LEMMA PlaceKeeps ==
    ASSUME IInv, Signalled, UNCHANGED table,
           server = "running", server' \in {"running", "suspended"}, pc # "forked",
           \/ pc' = "asked" /\ pc # "prompt" /\ client' = client
           \/ pc' = "prompt" /\ client' = None
    PROVE  IInv'
<1>1. TypeOK'
  BY DEF IInv, TypeOK, Signalled, ClientsOK, States, table
<1>2. TableExact'
  BY DEF IInv, TableExact, Signalled, Holds, Unrecorded, table
<1>3. History'
  BY DEF IInv, TypeOK, History, Signalled, QuitEndsClients, table
<1> QED BY <1>1, <1>2, <1>3 DEF IInv

LEMMA AskKeeps ==
    ASSUME IInv, Ask
    PROVE  IInv'
<1>1. Signalled /\ UNCHANGED table /\ server' \in {"running", "suspended"}
  BY TypesOfClients, StopSignals, QuietSignals DEF IInv, Ask, pause_pid
<1> QED BY <1>1, PlaceKeeps DEF Ask

LEMMA AnswerKeeps ==
    ASSUME IInv, Answer
    PROVE  IInv'
<1>1. Signalled /\ UNCHANGED table /\ server' = "running"
  BY TypesOfClients, ContSignals, QuietSignals DEF IInv, Answer, cont_pid
<1> QED BY <1>1, PlaceKeeps DEF Answer

(* cleanup: who is not recorded was removed, and has ended, or is lost. *)

LEMMA QuitKeeps ==
    ASSUME IInv, Quit
    PROVE  IInv'
<1>1. pc = "prompt" /\ server' = "quit" /\ UNCHANGED <<table, pc, client>>
  BY DEF Quit, AtPrompt
<1>2. Signalled /\ \A p \in Cleanup \cap Started : proc'[p] = "ended"
  BY TypesOfClients, KillSignals DEF IInv, Quit
<1>3. Cleanup = Started \ (removed \cup lost)
  BY <1>1 DEF IInv, TableExact, Cleanup, Unrecorded
<1>4. \A p \in Started \ lost : proc'[p] = "ended"
  BY <1>2, <1>3 DEF IInv, TypeOK, History, Signalled
<1> QED BY <1>1, <1>2, <1>4, SignalKeeps

LEMMA TerminalKeeps ==
    ASSUME IInv, Fails \/ CtrlC \/ CtrlZ \/ Foreground
    PROVE  IInv'
<1>1. Signalled
  BY TypesOfClients, QuietSignals, UnhandledSignals, StopSignals, ContSignals
     DEF IInv, Fails, CtrlC, CtrlZ, Foreground
<1>2. UNCHANGED <<table, pc, client>> /\ server' \in {"running", "suspended", "dead"}
  BY DEF Fails, CtrlC, CtrlZ, Foreground
<1> QED BY <1>1, <1>2, SignalKeeps

-----------------------------------------------------------------------------
LEMMA InitInv == Init => IInv
<1> SUFFICES ASSUME Init PROVE IInv
  OBVIOUS
<1>1. Started = {} /\ Live = {} /\ Unrecorded = {}
  BY DEF Init, Started, Live, Unrecorded
<1>2. \A p \in Pids : Holds(p) = {}
  BY PidsAssumption, JunkAssumption DEF Init, Holds
<1>3. TypeOK
  BY <1>1 DEF Init, TypeOK, Holds
<1>4. TableExact
  BY <1>1, <1>2 DEF Init, TableExact
<1> QED BY <1>1, <1>3, <1>4 DEF Init, IInv, History, QuitEndsClients

LEMMA NextInv == IInv /\ [Next]_vars => IInv'
<1> SUFFICES ASSUME IInv, [Next]_vars PROVE IInv'
  OBVIOUS
<1>1. CASE UNCHANGED vars
  BY <1>1 DEF vars, IInv, TypeOK, TableExact, History, QuitEndsClients, Holds,
              Started, Live, Unrecorded
<1>2. CASE Next
  BY <1>2, CommandKeeps, ForkKeeps, AddKeeps, AskKeeps, AnswerKeeps, QuitKeeps,
     TerminalKeeps, ClientKeeps DEF Next
<1> QED BY <1>1, <1>2

\* The types of the server's state, for every set of pids and table size.
THEOREM ServerTypes == Spec => []TypeOK
  BY InitInv, NextInv, PTL DEF Spec, IInv

\* The table holds every started client that was neither killed nor lost,
\* and each in one slot: server.c add_pid and kill_pid.
THEOREM ServerTable == Spec => []TableExact
  BY InitInv, NextInv, PTL DEF Spec, IInv

\* After `quit' no client that add_pid found a slot for is alive.
THEOREM ServerQuit == Spec => []QuitEndsClients
<1>1. IInv => QuitEndsClients
  BY DEF IInv, History
<1> QED BY <1>1, InitInv, NextInv, PTL DEF Spec
-----------------------------------------------------------------------------
(* The count.  A client is lost when no slot is empty: the slots without    *)
(* junk hold different clients, none of them the lost one.                 *)

CountInv ==
    /\ IsFiniteSet(Started)
    /\ Holds(Junk) \subseteq uncleared
    /\ FirstClientsRecorded

LEMMA FullTableCounts ==
    ASSUME IInv, IsFiniteSet(Started), Holds(Junk) \subseteq uncleared,
           pc = "forked", EmptySlots = {}
    PROVE  Cardinality(Started) > Slots - Cardinality(uncleared)
<1> DEFINE Taken == (1..Slots) \ uncleared
           Others == Started \ {client}
           f == [i \in Taken |-> childpids[i]]
<1>1. client \in Started /\ Unrecorded = {client}
  BY DEF IInv, TypeOK, Unrecorded
<1>2. \A i \in Taken : childpids[i] \in Pids
  BY DEF IInv, TypeOK, EmptySlots, Holds
<1>3. \A i \in Taken : childpids[i] \in Others
  <2>1. \A i \in Taken : childpids[i] \in {p \in Pids : Holds(p) # {}}
    BY <1>2 DEF Holds
  <2> QED BY <2>1, <1>1 DEF IInv, TableExact
<1>4. \A i, j \in Taken : childpids[i] = childpids[j] => i = j
  <2> SUFFICES ASSUME NEW i \in Taken, NEW j \in Taken, childpids[i] = childpids[j]
               PROVE  i = j
    OBVIOUS
  <2>1. i \in Holds(childpids[i]) /\ j \in Holds(childpids[i])
    BY DEF Holds
  <2> QED BY <2>1, <1>2 DEF IInv, TableExact
<1>5. f \in Injection(Taken, Others)
  <2>1. f \in [Taken -> Others]
    BY <1>3
  <2>2. \A a, b \in Taken : f[a] = f[b] => a = b
    BY <1>4
  <2> HIDE DEF f
  <2> QED BY <2>1, <2>2 DEF Injection, IsInjective
<1>6. IsFiniteSet(Others) /\ Cardinality(Others) = Cardinality(Started) - 1
  BY <1>1, FS_RemoveElement
<1>7. Cardinality(Taken) <= Cardinality(Others)
  <2> HIDE DEF f, Taken, Others
  <2> QED BY <1>5, <1>6, FS_Injection
<1>8. IsFiniteSet(1..Slots) /\ Cardinality(1..Slots) = Slots
  BY SlotsAssumption, FS_Interval
<1>9. (1..Slots) \cap uncleared = uncleared
  BY DEF IInv, TypeOK
<1>10. Cardinality(Taken) = Slots - Cardinality(uncleared)
  <2>1. Cardinality(Taken) = Cardinality(1..Slots) - Cardinality((1..Slots) \cap uncleared)
    BY <1>8, FS_Difference
  <2> QED BY <2>1, <1>8, <1>9
<1>11. Cardinality(Started) \in Nat /\ Cardinality(uncleared) \in Nat
  <2>1. uncleared \in SUBSET (1..Slots)
    BY DEF IInv, TypeOK
  <2> QED BY <2>1, <1>8, FS_Subset, FS_CardinalityType
<1> QED BY <1>6, <1>7, <1>10, <1>11, SlotsAssumption

(* No step puts junk into a slot. *)

LEMMA JunkGoes ==
    ASSUME IInv, [Next]_vars
    PROVE  Holds(Junk)' \subseteq Holds(Junk) /\ uncleared' = uncleared
<1>1. childpids \in [1..Slots -> Pids \cup {0, Junk}] /\ Junk \notin Pids \cup {0}
  BY JunkAssumption DEF IInv, TypeOK
<1>2. ASSUME UNCHANGED childpids
      PROVE  Holds(Junk)' \subseteq Holds(Junk)
  BY <1>2 DEF Holds
<1>3. ASSUME Add
      PROVE  Holds(Junk)' \subseteq Holds(Junk)
  <2>1. client \in Pids
    BY <1>3 DEF IInv, TypeOK, Add, Started
  <2>2. UNCHANGED childpids \/ \E i \in First(EmptySlots) :
            childpids' = [childpids EXCEPT ![i] = client]
    BY <1>3 DEF Add, add_pid
  <2> QED BY <2>1, <2>2, <1>1, <1>2 DEF First, EmptySlots, Holds
<1>4. ASSUME NEW pid \in Pids \cup {0, Junk}, kill_pid(pid)
      PROVE  Holds(Junk)' \subseteq Holds(Junk)
  <2>1. UNCHANGED childpids \/ \E i \in First(Holds(pid)) :
            childpids' = [childpids EXCEPT ![i] = 0]
    BY <1>4 DEF kill_pid, table
  <2> QED BY <2>1, <1>1, <1>2 DEF First, Holds
<1>5. \/ UNCHANGED childpids \/ Add
      \/ \E pid \in Pids \cup {0, Junk} : kill_pid(pid)
  BY DEF Next, vars, table, Command, Fork, Ask, Answer, Quit, Fails, CtrlC, CtrlZ,
         Foreground, Install, End, pause_pid, cont_pid, query_pid
<1>6. uncleared' = uncleared
  BY DEF Next, vars, table, Command, Fork, Add, add_pid, Ask, Answer, Quit, Fails, CtrlC,
         CtrlZ, Foreground, Install, End, kill_pid, pause_pid, cont_pid, query_pid
<1> QED BY <1>2, <1>3, <1>4, <1>5, <1>6

(* Only fork adds to the clients started, and only add_pid loses one. *)

LEMMA StartedSteps ==
    ASSUME IInv, [Next]_vars
    PROVE  \/ Started' = Started /\ lost' = lost
           \/ Started' = Started /\ pc = "forked" /\ EmptySlots = {}
           \/ Fork /\ lost' = lost
<1>1. ClientsOK
  BY TypesOfClients DEF IInv
<1>2. CASE UNCHANGED vars
  BY <1>2 DEF vars, Started
<1>3. CASE Command
  BY <1>1, <1>3, KillSignals, StopSignals, ContSignals, UnhandledSignals
     DEF Command, kill_pid, pause_pid, cont_pid, query_pid, table, Signalled
<1>4. CASE Fork
  BY <1>4 DEF Fork, table
<1>5. CASE Add
  BY <1>5 DEF Add, add_pid, clients, Started
<1>6. CASE Ask \/ Answer
  BY <1>1, <1>6, StopSignals, ContSignals, QuietSignals
     DEF Ask, Answer, pause_pid, cont_pid, table, Signalled
<1>7. CASE Quit \/ Fails \/ CtrlC \/ CtrlZ \/ Foreground
  BY <1>1, <1>7, KillSignals, StopSignals, ContSignals, UnhandledSignals, QuietSignals
     DEF Quit, Fails, CtrlC, CtrlZ, Foreground, table, Signalled
<1>8. ASSUME NEW p \in Pids, Install(p) \/ End(p)
      PROVE  Started' = Started /\ lost' = lost
  BY <1>1, <1>8 DEF ClientsOK, States, Install, End, table, Started, Live
<1> QED BY <1>2, <1>3, <1>4, <1>5, <1>6, <1>7, <1>8 DEF Next

LEMMA CountInit == Init => CountInv
<1> SUFFICES ASSUME Init PROVE CountInv
  OBVIOUS
<1>1. Started = {}
  BY DEF Init, Started
<1> QED BY <1>1, FS_EmptySet DEF Init, CountInv, FirstClientsRecorded

LEMMA CountNext == IInv /\ CountInv /\ [Next]_vars => CountInv'
<1> SUFFICES ASSUME IInv, CountInv, [Next]_vars PROVE CountInv'
  OBVIOUS
<1>1. Holds(Junk)' \subseteq uncleared' /\ uncleared' = uncleared
  BY JunkGoes DEF CountInv
<1>2. CASE Started' = Started /\ lost' = lost
  BY <1>1, <1>2 DEF CountInv, FirstClientsRecorded
<1>3. CASE Started' = Started /\ pc = "forked" /\ EmptySlots = {}
  BY <1>1, <1>3, FullTableCounts DEF CountInv, FirstClientsRecorded
<1>4. CASE Fork /\ lost' = lost
  <2>1. PICK p \in Pids : proc[p] = "none" /\ proc' = [proc EXCEPT ![p] = "starting"]
    BY <1>4 DEF Fork
  <2>2. p \notin Started /\ Started' = Started \cup {p}
    BY <2>1 DEF IInv, TypeOK, Started
  <2>3. IsFiniteSet(Started') /\ Cardinality(Started') = Cardinality(Started) + 1
    BY <2>2, FS_AddElement DEF CountInv
  <2>4. Cardinality(Started) \in Nat
    BY FS_CardinalityType DEF CountInv
  <2>5. Cardinality(uncleared) \in Nat
    <3>1. uncleared \in SUBSET (1..Slots)
      BY DEF IInv, TypeOK
    <3>2. IsFiniteSet(1..Slots)
      BY SlotsAssumption, FS_Interval
    <3> QED BY <3>1, <3>2, FS_Subset, FS_CardinalityType
  <2> QED BY <1>1, <1>4, <2>3, <2>4, <2>5, SlotsAssumption DEF CountInv, FirstClientsRecorded
<1> QED BY <1>2, <1>3, <1>4, StartedSteps

\* No client is lost before the empty slots have run out: server.c add_pid.
THEOREM ServerRecords == Spec => []FirstClientsRecorded
<1>1. CountInv => FirstClientsRecorded
  BY DEF CountInv
<1> QED BY <1>1, InitInv, NextInv, CountInit, CountNext, PTL DEF Spec
=============================================================================
