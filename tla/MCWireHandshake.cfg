SPECIFICATION FairSpec
CONSTANTS Links = {l1, l2}  MaxFaults = 1
INVARIANTS MisdeliveryNeedsRestart EndsAgree
PROPERTY WiresComeUp
CHECK_DEADLOCK FALSE
