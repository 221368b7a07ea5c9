\* One process, one region, every XmemSetMarkersMask input, faults on.
CONSTANTS
  n1 = n1
  n2 = n2
  Nodes <- MCOneNode
  TableElems <- MCTableElems
  Regions <- MCWholeRegion
  Values <- MCValues
  Tokens <- MCTokens
  Junk <- MCJunk
  MaskInputs <- MCAllMasks
  TransportFaults = TRUE
  MallocFaults = TRUE
  RandSeeded = TRUE
SPECIFICATION Spec
INVARIANTS
  TypeOK
  RoundTrip
