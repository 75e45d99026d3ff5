\* The mini-server: one client more than the table has slots.  Everything
\* stops once the server is gone and the clients have ended.
CONSTANTS
    Pids = {1, 2, 3, 4}
    Slots = 3
    Cleared = 1
    Junk = junk
    None = none
SPECIFICATION Spec
INVARIANTS
    TypeOK
    TableExact
    FirstClientsRecorded
    QuitEndsClients
CHECK_DEADLOCK FALSE
