CONSTANTS
    NULL = NULL
    Docs <- MCDocs
SPECIFICATION Spec
INVARIANTS
    TypeOK
    InputArraysSized
    ReturnedGlobValid
    ListsMatchDocument
CHECK_DEADLOCK FALSE
