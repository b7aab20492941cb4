SPECIFICATION Spec
CONSTANTS
    Setup <- Mixed
CHECK_DEADLOCK FALSE
INVARIANTS
    CoIssue
