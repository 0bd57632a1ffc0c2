CONSTANTS
  Checks <- DcoThenValidation
  MaxAttempts = 3
  MaxPushes = 2
SPECIFICATION Spec
INVARIANT SignedDropsComment

CHECK_DEADLOCK FALSE
