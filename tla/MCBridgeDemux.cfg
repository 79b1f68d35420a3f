SPECIFICATION FairSpec
CONSTANTS Streams = {s1, s2}  MaxDemux = 2  MaxSubscribers = 1  QueueCap = 1
INVARIANTS ListenersOpen SingleReader
PROPERTIES EverythingReleased
CHECK_DEADLOCK FALSE
