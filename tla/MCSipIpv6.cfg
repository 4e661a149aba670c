CONSTANTS
  Tokens <- MCTokens
  Hosts <- MCHostsV6
  MaxPackets = 3
  NoParser = NoParser
  NoSdp = NoSdp
  NoAuth = NoAuth
  NoId = NoId
  NoUri = NoUri
SPECIFICATION Spec
CHECK_DEADLOCK FALSE
INVARIANT
  StrippedUriIsAddress
