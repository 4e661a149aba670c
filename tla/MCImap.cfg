\* Every cut of four well-formed sessions (PLAIN or GSSAPI, NOOP or IDLE).
CONSTANTS
  Scripts <- ScriptsPass
  StubResults <- MCStubResults
  NoSpace = NoSpace
  Merged = Merged
  NoMech = NoMech
  NoTok = NoTok
  Null = Null
SPECIFICATION Spec
INVARIANTS TypeOK NoLiveToken CcDirectionsMatch StubUnreachable
PROPERTIES IngestionReturns
\* The transcript is finite: once it is consumed and processed nothing is enabled.
CHECK_DEADLOCK FALSE
