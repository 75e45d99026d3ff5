------------------------------ MODULE MCServer ------------------------------
\* An instance of Server: four pids, a table of three slots of which one is
\* cleared (the code: sixteen slots, four cleared).
EXTENDS Server
=============================================================================
