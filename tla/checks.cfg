CONSTANTS
  Checks <- DcoThenValidation
  MaxAttempts = 3
  MaxPushes = 2
SPECIFICATION Spec
INVARIANTS TypeOK HeadStatusIsTrue OneComment QuietDco QuietValidation
PROPERTIES EventsEnd DeliverySpec

CHECK_DEADLOCK FALSE
