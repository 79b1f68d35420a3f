SPECIFICATION Spec
CONSTANTS Pods = {p1, p2}  PodContents <- MCPodContents  MaxUpdates = 3
INVARIANT CaughtUp
PROPERTIES WatcherExits GuardKept
CHECK_DEADLOCK FALSE
