------------------------------- MODULE Server -------------------------------
(***************************************************************************)
(* The mini-server (server/server.c): a prompt that forks one VM per       *)
(* `run', keeps the pids in a table and sends them signals.  The server    *)
(* and its clients are one process group on one terminal.  A client that   *)
(* has ended is never waited for: its pid stays its own.                   *)
(***************************************************************************)
EXTENDS Integers, FiniteSets

CONSTANTS
    Pids,        \* the pids fork returns
    Slots,       \* number_of_pids: DEFAULT_CHILD_PIDS_SIZE, and it never grows
    Cleared,     \* how many slots memset(childpids, 0, 16 bytes) clears
    Junk,        \* what an uncleared slot may hold: a pid of somebody else
    None

ASSUME PidsAssumption  == Pids \subseteq Nat \ {0}
ASSUME SlotsAssumption == Slots \in Nat /\ Slots > 1 /\ Cleared \in 1..Slots
ASSUME JunkAssumption  == Junk \notin Pids \cup {0} /\ None \notin Pids

VARIABLES
    childpids,   \* the table; 0 is an empty slot
    server,      \* "running", "suspended", "quit", or "dead" without a cleanup
    pc,          \* "prompt", or in `run': "forked", "added", "asked"
    client,      \* the pid `run' is at
    proc,        \* proc[p]: "none", "starting" (no handlers yet), "up", "ended"
    stopped,     \* the clients a SIGSTOP or SIGTSTP holds
    due,         \* held clients without a handler for the signal that waits
    removed,     \* history: the pids that kill_pid took out of the table
    lost,        \* history: the pids that add_pid found no slot for
    uncleared    \* history: the slots that held junk at the start

table   == <<childpids, removed, lost, uncleared>>
clients == <<proc, stopped, due>>
vars    == <<childpids, server, pc, client, proc, stopped, due, removed, lost, uncleared>>

Started     == {p \in Pids : proc[p] # "none"}
Live        == {p \in Pids : proc[p] \in {"starting", "up"}}
Holds(pid)  == {i \in 1..Slots : childpids[i] = pid}
First(S)    == {i \in S : \A j \in S : i <= j}

\* main: the table is allocated, and its first 16 BYTES are cleared.
Init ==
    /\ childpids \in [1..Slots -> {0, Junk}]
    /\ \A i \in 1..Cleared : childpids[i] = 0
    /\ server = "running" /\ pc = "prompt" /\ client = None
    /\ proc = [p \in Pids |-> "none"]
    /\ stopped = {} /\ due = {} /\ removed = {} /\ lost = {}
    /\ uncleared = Holds(Junk)

-----------------------------------------------------------------------------
(***************************************************************************)
(* What a signal does to the clients S.                                    *)
(***************************************************************************)

SIGKILL(S) ==
    /\ proc' = [p \in Pids |-> IF p \in S \cap Live THEN "ended" ELSE proc[p]]
    /\ stopped' = stopped \ S
    /\ due' = due \ S

SIGSTOP(S) ==
    /\ stopped' = stopped \cup (S \cap Live)
    /\ UNCHANGED <<proc, due>>

\* A held client that a signal is due for ends as it is continued.
SIGCONT(S) ==
    /\ proc' = [p \in Pids |-> IF p \in S \cap due THEN "ended" ELSE proc[p]]
    /\ stopped' = stopped \ S
    /\ due' = due \ S

\* SIGUSR1 or SIGINT: main.c installs the handlers; until then they end a
\* client, and a client that is held ends once it is continued.
Unhandled(S) ==
    LET bare == {p \in S : proc[p] = "starting"}
    IN /\ proc' = [p \in Pids |-> IF p \in bare \ stopped THEN "ended" ELSE proc[p]]
       /\ due' = due \cup (bare \cap stopped)
       /\ UNCHANGED stopped

\* kill(0, ...) is for the whole group, and the server is in it.
Targets(pid) == IF pid = 0 THEN Pids ELSE {pid} \cap Pids

-----------------------------------------------------------------------------
(***************************************************************************)
(* The table.  Every command takes the first slot that holds the number    *)
(* typed; what is no number is 0 to atoi, and 0 is what an empty slot      *)
(* holds.  A number that is in no slot is refused: no step.  The number an *)
(* uncleared slot holds is accepted: the signal goes to somebody else, and *)
(* kill empties the slot.                                                  *)
(***************************************************************************)

AtPrompt == server = "running" /\ pc = "prompt"

kill_pid(pid) ==
    /\ Holds(pid) # {}
    /\ SIGKILL(Targets(pid))
    /\ server' = IF pid = 0 THEN "dead" ELSE server
    /\ IF pid = 0
       THEN UNCHANGED table
       ELSE /\ \E i \in First(Holds(pid)) :
                 childpids' = [childpids EXCEPT ![i] = 0]
            /\ removed' = removed \cup Targets(pid)
            /\ UNCHANGED <<lost, uncleared>>

pause_pid(pid) ==
    /\ Holds(pid) # {}
    /\ SIGSTOP(Targets(pid))
    /\ server' = IF pid = 0 THEN "suspended" ELSE server
    /\ UNCHANGED table

cont_pid(pid) ==
    /\ Holds(pid) # {}
    /\ SIGCONT(Targets(pid))
    /\ UNCHANGED <<server, table>>

query_pid(pid) ==
    /\ Holds(pid) # {}
    /\ Unhandled(Targets(pid))
    /\ server' = IF pid = 0 THEN "dead" ELSE server
    /\ UNCHANGED table

\* A plausible slip: the search stops one short.
EmptySlotsShort == Holds(0) \ {Slots}

\* number_of_used_pids stays 0, so the table never grows; without an empty
\* slot the loop ends and the pid is in no slot.
EmptySlots == Holds(0)
\* A plausible slip: the new pid goes into the first slot, taken or not.
add_pid_first(pid) ==
    /\ childpids' = [childpids EXCEPT ![1] = pid]
    /\ UNCHANGED <<removed, lost, uncleared>>

add_pid(pid) ==
    /\ \/ /\ \E i \in First(EmptySlots) :
               childpids' = [childpids EXCEPT ![i] = pid]
          /\ UNCHANGED lost
       \/ /\ EmptySlots = {}
          /\ lost' = lost \cup {pid}
          /\ UNCHANGED childpids
    /\ UNCHANGED <<removed, uncleared>>

\* A plausible slip: the loop stops at the first empty slot.
CleanupToFirstEmpty ==
    {p \in Pids : \E i \in Holds(p) : \A j \in 1..i : childpids[j] # 0}

\* cleanup: every slot that is not empty.  (A slot of junk is killed too.)
Cleanup == {p \in Pids : Holds(p) # {}}

-----------------------------------------------------------------------------
(***************************************************************************)
(* The prompt's commands.                                                  *)
(***************************************************************************)

Command ==
    /\ AtPrompt
    /\ \E pid \in Pids \cup {0, Junk} :
        kill_pid(pid) \/ pause_pid(pid) \/ cont_pid(pid) \/ query_pid(pid)
    /\ UNCHANGED <<pc, client>>

\* A plausible slip: the pid that fork returned is not kept.
ForkPidDropped ==
    /\ AtPrompt
    /\ \E p \in Pids :
        /\ proc[p] = "none"
        /\ proc' = [proc EXCEPT ![p] = "starting"]
    /\ pc' = "forked"
    /\ UNCHANGED <<server, table, client, stopped, due>>

Fork ==
    /\ AtPrompt
    /\ \E p \in Pids :
        /\ proc[p] = "none"
        /\ proc' = [proc EXCEPT ![p] = "starting"]
        /\ client' = p
    /\ pc' = "forked"
    /\ UNCHANGED <<server, table, stopped, due>>

\* The pid is recorded; the client has been running since the fork.
Add ==
    /\ server = "running" /\ pc = "forked"
    /\ add_pid(client)
    /\ pc' = "added"
    /\ UNCHANGED <<server, client, clients>>

\* `Continue Execution?': the client is put on hold, if it was recorded.
Ask ==
    /\ server = "running" /\ pc = "added"
    /\ \/ pause_pid(client)
       \/ Holds(client) = {} /\ UNCHANGED <<server, table, clients>>
    /\ pc' = "asked"
    /\ UNCHANGED client

\* Anything but n and N continues it.
Answer ==
    /\ server = "running" /\ pc = "asked"
    /\ \/ cont_pid(client)
       \/ UNCHANGED <<server, table, clients>>
    /\ pc' = "prompt" /\ client' = None

Quit ==
    /\ AtPrompt
    /\ SIGKILL(Cleanup)
    /\ server' = "quit"
    /\ UNCHANGED <<table, pc, client>>

\* fork fails: exit without a cleanup.  End of input: strncmp(NULL, ...).
Fails ==
    /\ AtPrompt
    /\ server' = "dead"
    /\ UNCHANGED <<table, pc, client, clients>>

(***************************************************************************)
(* The terminal: Ctrl-C ends the server, Ctrl-Z holds the whole group and  *)
(* the shell's fg continues it, the clients that were paused included.     *)
(***************************************************************************)

CtrlC ==
    /\ server = "running"
    /\ Unhandled(Pids)
    /\ server' = "dead"
    /\ UNCHANGED <<table, pc, client>>

CtrlZ ==
    /\ server = "running"
    /\ SIGSTOP(Pids)
    /\ server' = "suspended"
    /\ UNCHANGED <<table, pc, client>>

Foreground ==
    /\ server = "suspended"
    /\ SIGCONT(Pids)
    /\ server' = "running"
    /\ UNCHANGED <<table, pc, client>>

(***************************************************************************)
(* The clients: main.c installs its handlers; a VM ends by itself, or the  *)
(* exec fails.                                                             *)
(***************************************************************************)

Install(p) ==
    /\ proc[p] = "starting" /\ p \notin stopped
    /\ proc' = [proc EXCEPT ![p] = "up"]
    /\ UNCHANGED <<server, table, pc, client, stopped, due>>

End(p) ==
    /\ p \in Live \ stopped
    /\ proc' = [proc EXCEPT ![p] = "ended"]
    /\ UNCHANGED <<server, table, pc, client, stopped, due>>

Next ==
    \/ Command \/ Fork \/ Add \/ Ask \/ Answer \/ Quit \/ Fails
    \/ CtrlC \/ CtrlZ \/ Foreground
    \/ \E p \in Pids : Install(p) \/ End(p)

Spec == Init /\ [][Next]_vars

-----------------------------------------------------------------------------
(***************************************************************************)
(* Properties.                                                             *)
(***************************************************************************)

\* The types; a signal is due only to a client that is held without its
\* handlers, and only live clients are held.
TypeOK ==
    /\ childpids \in [1..Slots -> Pids \cup {0, Junk}]
    /\ server \in {"running", "suspended", "quit", "dead"}
    /\ pc \in {"prompt", "forked", "added", "asked"}
    /\ client \in Pids \cup {None} /\ (pc # "prompt" => client \in Started)
    /\ proc \in [Pids -> {"none", "starting", "up", "ended"}]
    /\ stopped \subseteq Live
    /\ due \subseteq {p \in stopped : proc[p] = "starting"}
    /\ removed \subseteq Pids /\ lost \subseteq Pids
    /\ uncleared \subseteq 1..Slots

\* A client that fork has returned and add_pid has not seen yet.
Unrecorded == IF pc = "forked" THEN {client} ELSE {}

\* The table is exact: every client that was ever started is in one slot, or
\* was killed by kill_pid, or was lost, or is just being recorded; and no two
\* slots hold the same client.
TableExact ==
    /\ {p \in Pids : Holds(p) # {}} = Started \ (removed \cup lost \cup Unrecorded)
    /\ \A p \in Pids : \A i, j \in Holds(p) : i = j

\* A client is lost only after more clients were started than the table had
\* empty slots at the start, whatever kill has emptied since.
FirstClientsRecorded ==
    lost # {} => Cardinality(Started) > Slots - Cardinality(uncleared)

\* `quit' ends every client the server has recorded, paused ones, starting
\* ones and ones taken out by kill included: only the lost ones live on.
QuitEndsClients ==
    server = "quit" => \A p \in Started \ lost : proc[p] = "ended"
=============================================================================
