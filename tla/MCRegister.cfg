SPECIFICATION Spec
CHECK_DEADLOCK FALSE
CONSTANTS
  MaxSession = 4
  MaxBank = 5
  FOUND_BANK_CAP = 2
  RESPAWN_BACKOFF = 1
  MaxChanges = 2
INVARIANTS
  RegisterSound
PROPERTIES
  SessionsAreServed
