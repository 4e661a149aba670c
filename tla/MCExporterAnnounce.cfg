CONSTANTS
  m1 = m1  m2 = m2  a1 = a1  a2 = a2  l1 = l1  c1 = c1
  Mediators <- MCMediators
  Addrs <- MCAddrs
  LIIDs <- MCLIIDs
  CINs <- MCCINs
  NoAddr = NoAddr  Absent = Absent  NoConn = NoConn  None = None
  Garbled = Garbled  NoIntercept = NoIntercept  NoCounter = NoCounter
  MaxMsgs = 4
  MaxIriRecs = 2
  MaxFaults = 2
  FlagSupport = FALSE
SPECIFICATION Spec
\* The exporter may exit (exporter_thread_main returns -1) and the message
\* supply is bounded: a state with no successor is expected.
CHECK_DEADLOCK FALSE
INVARIANTS
  AnnouncedNotHalted
