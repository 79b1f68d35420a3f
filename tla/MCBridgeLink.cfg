SPECIFICATION Spec
CONSTANTS MaxChanges = 4  MaxDisconnects = 1
INVARIANTS LatchNeedsCrossing
PROPERTIES CarrierFollows
CHECK_DEADLOCK FALSE
