CONSTANTS
  Tokens <- MCTokensEmpty
  Hosts <- MCHosts
  MaxPackets = 3
  NoParser = NoParser
  NoSdp = NoSdp
  NoAuth = NoAuth
  NoId = NoId
  NoUri = NoUri
SPECIFICATION Spec
CHECK_DEADLOCK FALSE
INVARIANT
  AuthIdentityUnquoted
