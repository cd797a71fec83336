---------------------------- MODULE MCRedisMutex ----------------------------
(* An instance of RedisMutex for TLC. *)
EXTENDS RedisMutex

\* Every combination of disturbances.
MCEnvironments == SUBSET Disturbance
=============================================================================
