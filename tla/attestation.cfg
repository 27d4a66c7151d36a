SPECIFICATION AttestationSpec
CONSTANTS
  Legacy = {0, 2}
  MaxPosted = 3
  MaxDay = 2
  Keep = 1
CONSTRAINT MCFocus
CHECK_DEADLOCK FALSE
INVARIANTS DamageReported AttestationHolds
