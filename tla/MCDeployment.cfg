SPECIFICATION FairSpec
CONSTANTS Components = {metallb, meshnet}  Ingress = metallb  CNI = meshnet  ConfigMaps = {}
          PoolRetries = 1  MaxWatchers = 2
INVARIANTS RootCause 
PROPERTY ReturnsUnlessHung
CHECK_DEADLOCK FALSE
