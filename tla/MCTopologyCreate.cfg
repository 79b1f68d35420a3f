SPECIFICATION FairSpec
CONSTANTS Nodes = {n1, n2}  Serving = {n1, n2}  Timeout = TRUE
INVARIANTS RootCause LinksMirrored UserConfigKept ShowAgreesWithCreate ServicesShown InterfacesServed
PROPERTIES EndStateReached CreateReturns
CHECK_DEADLOCK FALSE
