------------------------------ MODULE PostgresPool ------------------------------
(* The application instances that share the tables of the PostgreSQL schema:   *)
(* each call borrows one connection of the bounded pool for one transaction.   *)
CONSTANTS
    Instances,  \* processes, each with one pooled connection in use
    None        \* no row, nobody
=============================================================================
