\* AUTHENTICATE PLAIN with an inline token.
CONSTANTS
  Scripts <- ScriptsMailbox
  StubResults <- MCStubResults
  NoSpace = NoSpace
  Merged = Merged
  NoMech = NoMech
  NoTok = NoTok
  Null = Null
SPECIFICATION Spec
INVARIANTS MailboxIsAuthcid
\* The transcript is finite: once it is consumed and processed nothing is enabled.
CHECK_DEADLOCK FALSE
