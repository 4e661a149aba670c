\* A client pipelining NOOPs while an untagged response is pending.
CONSTANTS
  Scripts <- ScriptsPipelined
  StubResults <- MCStubResults
  NoSpace = NoSpace
  Merged = Merged
  NoMech = NoMech
  NoTok = NoTok
  Null = Null
SPECIFICATION Spec
INVARIANT ServerLinesIntercepted
\* The transcript is finite: once it is consumed and processed nothing is enabled.
CHECK_DEADLOCK FALSE
