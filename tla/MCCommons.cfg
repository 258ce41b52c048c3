\* Two residents, three ids, fifteen events of which some are refused.
CONSTANTS
  a = a
  b = b
  live = live
  m1 = m1
  m2 = m2
  m3 = m3
  hi = hi
  yo = yo
  secret = secret
  oversized = oversized
  Label <- MCLabel
  Synthetic <- MCSynthetic
  EventId <- MCEventId
  Body <- MCBody
  Event <- MCEvent
  Malformed <- MCMalformed
  CredentialShaped <- MCCredentialShaped
SPECIFICATION Spec
INVARIANTS
  TypeOK
  LogIntegrity
  ReceiptsHonoured
  AcksPartition
PROPERTIES
  RevokedFrozen
  ImplementsContract
