SPECIFICATION Spec
CONSTANTS
    Setup <- GroupsAndLanes
CHECK_DEADLOCK FALSE
INVARIANTS
    EntriesExact
    CoIssue
    NoReturn
    NeverStuck
