SPECIFICATION Spec
CONSTANTS
    r1 = r1
    r2 = r2
    Request = {r1, r2}
    Asked <- MCAsked
INVARIANTS
    AtRestBalanced
    UnendedIsActive
    SuccessIsTrue
    ClientNotMisled
CHECK_DEADLOCK FALSE
