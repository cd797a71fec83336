--------------------------- MODULE EmployeeTable ----------------------------
(***************************************************************************)
(* The employees table behind sql/sql.go.  A row is abstracted to the      *)
(* number of the statement that wrote it: two rows are equal exactly when  *)
(* the same INSERT or UPDATE wrote both.                                   *)
(***************************************************************************)
EXTENDS Integers

CONSTANTS
    MaxEmp,      \* bound: employee numbers are 1 .. MaxEmp
    MaxCommits,  \* bound: number of INSERTs and UPDATEs that take effect
    Seeded       \* the employees the database is loaded with

ASSUME TableAssumption ==
    /\ MaxEmp \in Nat \ {0}
    /\ MaxCommits \in Nat
    /\ Seeded \in SUBSET (1 .. MaxEmp)
    /\ MaxCommits >= 1

Emp == 1 .. MaxEmp
NoRow == 0
Version == 0 .. MaxCommits   \* NoRow, or the number of a commit

VARIABLES
    table,    \* employee -> version of its row
    commits   \* commits so far; the seeded rows are version 1

TableOK == table \in [Emp -> Version] /\ commits \in 1 .. MaxCommits

TableInit ==
    /\ table = [e \in Emp |-> IF e \in Seeded THEN 1 ELSE NoRow]
    /\ commits = 1

Rows == {e \in Emp : table[e] # NoRow}

\* employeeCriteria: an empty list of numbers is no criterion at all.
Matching(search) == {e \in Rows : search = {} \/ e \in search}

\* findEmpNo: one more than the highest number in the table.
IsNextEmpNo(n) == n - 1 \in Rows /\ \A e \in Rows : e < n

\* INSERT or UPDATE of the row of e.
Commit(e) ==
    /\ commits' = commits + 1
    /\ table' = [table EXCEPT ![e] = commits + 1]

\* DELETE of the row of e.
Remove(e) ==
    /\ table' = [table EXCEPT ![e] = NoRow]
    /\ UNCHANGED commits
=============================================================================
