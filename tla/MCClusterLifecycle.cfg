SPECIFICATION Spec
CONSTANTS
  Deployments <- MCDeployments
  MaxJobs <- MCMaxJobs
  MaxFaults = 1
CHECK_DEADLOCK FALSE
INVARIANTS RecordMatchesHost
PROPERTIES DeployedWhereAsked AnnouncedUnlessFailedBefore
