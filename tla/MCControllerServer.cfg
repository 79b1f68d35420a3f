SPECIFICATION Spec
CONSTANTS
  n1 = n1  n2 = n2  Nodes = {n1, n2}  Sorts <- MCSorts
   Declared = {"np"}  ExternalV6 = TRUE
  Certified = {n1}  MaxFaults = 1
  Clients = {c1, c2}  NoClient = NoClient  MaxRequests = 3
  MayFail = {"namespace", "watch"}
INVARIANTS TopologyGone NodeDeleted ChangesApplied
PROPERTIES RecordedIsWhole RequestsAnswered
CHECK_DEADLOCK FALSE
