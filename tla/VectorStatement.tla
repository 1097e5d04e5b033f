-------------------------- MODULE VectorStatement --------------------------
(***************************************************************************)
(* The abstract machine of a vector statement: it executes in one step and *)
(* leaves a memory its lanes allow.                                        *)
(***************************************************************************)
EXTENDS VectorLanes

VARIABLES
  stmt,      \* the statement
  mem,       \* the memory of the program
  executed   \* whether the statement has executed

svars == <<stmt, mem, executed>>

SInit ==
  /\ [stmt |-> stmt, mem |-> mem] \in Inputs
  /\ executed = FALSE

Execute ==
  /\ ~executed
  /\ executed' = TRUE
  /\ mem' \in Memory
  /\ Outcome(stmt, stmt.n, mem, mem')
  /\ UNCHANGED stmt

SNext == Execute

SSpec == SInit /\ [][SNext]_svars
=============================================================================
