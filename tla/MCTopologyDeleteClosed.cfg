SPECIFICATION Spec
CONSTANTS Nodes = {n1, n2}  MayFail = {}
INVARIANTS NoSendOnClosed
CHECK_DEADLOCK FALSE
