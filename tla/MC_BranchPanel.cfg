CONSTANTS
    a = a
    b = b
    None = None
    Shas <- MCShas
    MaxEvents <- MCMaxEvents

SPECIFICATION Spec
INVARIANT TypeOK
PROPERTY BranchActionOffered
CHECK_DEADLOCK FALSE
