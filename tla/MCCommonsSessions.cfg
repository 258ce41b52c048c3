\* Sessions s1, s2 of a and s3 of b, two messages, two crashes.
CONSTANTS
  a = a
  b = b
  s1 = s1
  s2 = s2
  s3 = s3
  m1 = m1
  m2 = m2
  hi = hi
  Label <- MCLabel
  Synthetic <- MCLabel
  EventId <- MCEventId
  Body = {hi}
  Event <- MCEvent
  Malformed = {}
  CredentialShaped = {}
  Session = {s1, s2, s3}
  owner <- MCOwner
  MaxCrashes = 2
SPECIFICATION SessionSpec
INVARIANTS
  SessionTypeOK
  NothingSkipped
  SettledOnce
PROPERTIES
  CatchesUp
