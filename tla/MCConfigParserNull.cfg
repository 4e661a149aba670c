CONSTANTS
    NULL = NULL
    Docs <- MCDocs
SPECIFICATION Spec
INVARIANT NoNullDereference
CHECK_DEADLOCK FALSE
