CONSTANTS
  k1 = k1  k2 = k2
  Clients <- MCClients
  NoEv = NoEv
SPECIFICATION Spec
\* destroy_provisioner_client is the last call for a client: once every
\* client is destroyed nothing is enabled.
CHECK_DEADLOCK FALSE
INVARIANTS
  TypeOK
  TrustedOnlyConnected
  ConnectionHasBuffers
  DestroyReleasesAll
SYMMETRY MCSymmetry
