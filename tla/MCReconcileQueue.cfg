SPECIFICATION FairSpec
CONSTANT Keys = {p1, p2, p3}
INVARIANTS OneWakeUp NoLostWakeUp
PROPERTIES RequestsKept EveryRequestRead
