\* Two nodes, overlapping regions, both atomic marker modes, faults on.
CONSTANTS
  n1 = n1
  n2 = n2
  Nodes <- MCNodes
  TableElems <- MCTableElems
  Regions <- MCRegions
  Values <- MCValues
  Tokens <- MCTokens
  Junk <- MCJunk
  MaskInputs <- MCAtomicMasks
  TransportFaults = TRUE
  MallocFaults = TRUE
  RandSeeded = TRUE
SYMMETRY MCSymmetry
SPECIFICATION Spec
INVARIANTS
  MarkedReadIsWhole
  RoundTrip
PROPERTY
  ImplementsAtomicRegister
