\* A server greeting of "* PREAUTH".
CONSTANTS
  Scripts <- ScriptsPreauth
  StubResults <- MCStubResults
  NoSpace = NoSpace
  Merged = Merged
  NoMech = NoMech
  NoTok = NoTok
  Null = Null
SPECIFICATION Spec
PROPERTIES IngestionReturns
\* The transcript is finite: once it is consumed and processed nothing is enabled.
CHECK_DEADLOCK FALSE
