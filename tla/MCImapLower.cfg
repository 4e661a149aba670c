\* A client that writes the command in lower case: authenticate PLAIN.
CONSTANTS
  Scripts <- ScriptsLower
  StubResults <- MCStubResults
  NoSpace = NoSpace
  Merged = Merged
  NoMech = NoMech
  NoTok = NoTok
  Null = Null
SPECIFICATION Spec
INVARIANTS WorkerNeverCrashes
\* The transcript is finite: once it is consumed and processed nothing is enabled.
CHECK_DEADLOCK FALSE
