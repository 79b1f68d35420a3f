SPECIFICATION Spec
CONSTANTS MaxFaults = 2  MaxLag = 1
PROPERTIES WritesMerge CacheCatchesUp LinksConnected
