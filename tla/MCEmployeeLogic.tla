-------------------------- MODULE MCEmployeeLogic ---------------------------
(* Instances of EmployeeLogic for TLC. *)
EXTENDS EmployeeLogic, TLC

\* All employees, or one of them.
MCSearches == {{}, {1}}

\* All employees only.
EmptySearch == {{}}

RequestSymmetry == Permutations(Req)
=============================================================================
