----------------------------- MODULE AuthzRules -----------------------------
(***************************************************************************)
(* The Rego rules: opa/compilation/compile.rego turns roles into sets of   *)
(* users per permission, opa/evaluation/evaluation.rego decides with them. *)
(* An undefined field of the input is Absent; comparing it, or looking for *)
(* something in it, makes a rule fail.                                     *)
(***************************************************************************)
CONSTANTS
    User,       \* user ids other than the empty one
    Anonymous,  \* the empty id ""
    Absent,     \* an undefined field, or no compilation (a nil pointer)
    Employee    \* ids of the employees the input may list

ASSUME UserAssumption ==
    /\ Anonymous \notin User /\ Absent \notin User /\ Anonymous # Absent
    /\ Anonymous \notin Employee /\ Absent \notin Employee

Permission == {"create", "read", "update", "delete"}

\* compile.rego: the users of the roles that have a permission.
UsersOf(roles, permission) ==
    UNION {role.userIds : role \in {r \in roles : permission \in r.permissions}}

Compile(roles) == [permission \in Permission |-> UsersOf(roles, permission)]

\* A role may list the empty id.
Access == [Permission -> SUBSET (User \cup {Anonymous})]

\* What the rules read: employees maps the listed employees to their users,
\* Absent for those not listed.
Input == [tokenUserId    : User \cup {Anonymous, Absent},
          employeeUserId : User \cup {Anonymous, Absent},
          employeeId     : Employee \cup {Anonymous, Absent},
          employees      : [Employee -> User \cup {Anonymous, Absent}],
          access         : Access \cup {Absent}]

HasToken(in) == in.tokenUserId \notin {Anonymous, Absent}

Permits(in, permission) ==
    HasToken(in) /\ in.access # Absent /\ in.tokenUserId \in in.access[permission]

\* The token's user is the user of the employee the input is about.
IsOwner(in) ==
    /\ in.employeeId \in Employee
    /\ in.employees[in.employeeId] # Absent
    /\ in.tokenUserId = in.employees[in.employeeId]

OwnEmployee(in) == HasToken(in) /\ IsOwner(in)

can_create_employee(in) ==
    \/ /\ in.employeeUserId \notin {Anonymous, Absent}
       /\ in.tokenUserId = in.employeeUserId
    \/ Permits(in, "create")
    \/ /\ in.employeeUserId = Anonymous
       /\ IsOwner(in)
       /\ in.tokenUserId = in.employeeUserId

can_update_employee(in) ==
    OwnEmployee(in) \/ Permits(in, "update") \/ can_create_employee(in)

can_delete_employee(in) ==
    OwnEmployee(in) \/ Permits(in, "delete") \/ can_create_employee(in)

can_read_employee(in) ==
    \/ OwnEmployee(in)
    \/ Permits(in, "read")
    \/ can_create_employee(in)
    \/ can_update_employee(in)
    \/ can_delete_employee(in)

Listed(in) == {e \in Employee : in.employees[e] # Absent}

\* can_read_employee with input.employeeId as e.  user_employees_filter is the same
\* for the employees listed in input.employeeIds.
user_employees(in) ==
    {e \in Listed(in) : \/ can_read_employee(in)
                        \/ can_read_employee([in EXCEPT !.employeeId = e])}

\* authz.go builds its input without employees and without employeeUserId.
EvaluationInput(userId, compileOutput) ==
    [tokenUserId |-> userId, employeeUserId |-> Absent, employeeId |-> Anonymous,
     employees |-> [e \in Employee |-> Absent], access |-> compileOutput]

\* Bug: without a compilation everybody has access.
HasAccessByDefault(userId, compileOutput) ==
    compileOutput = Absent \/ can_create_employee(EvaluationInput(userId, compileOutput))

\* evaluateBoolean(can_create_employee): what every operation of authz asks.
HasAccess(userId, compileOutput) ==
    can_create_employee(EvaluationInput(userId, compileOutput))
=============================================================================
