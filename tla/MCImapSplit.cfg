\* AUTHENTICATE PLAIN with the token after the server's continuation.
CONSTANTS
  Scripts <- ScriptsSplit
  StubResults <- MCStubResults
  NoSpace = NoSpace
  Merged = Merged
  NoMech = NoMech
  NoTok = NoTok
  Null = Null
SPECIFICATION Spec
INVARIANTS CcDirectionsMatch
\* The transcript is finite: once it is consumed and processed nothing is enabled.
CHECK_DEADLOCK FALSE
