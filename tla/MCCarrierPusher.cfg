SPECIFICATION Spec
CONSTANTS Wires = {w1, w2}  Answered = {w1}  NoWatch = NoWatch  MaxChanges = 1  MaxFaults = 1
INVARIANTS NoLostKick WatchHasOwner PeerHasLatest
CHECK_DEADLOCK FALSE
