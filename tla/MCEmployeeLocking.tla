------------------------- MODULE MCEmployeeLocking --------------------------
(* An instance of EmployeeLocking for TLC. *)
EXTENDS EmployeeLocking

EmptySearch == {{}}
=============================================================================
