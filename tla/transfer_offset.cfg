\* Atomic markers on a region at public offset 1: spec 8.1 round trip.
CONSTANTS
  n1 = n1
  n2 = n2
  Nodes <- MCNodes
  TableElems <- MCTableElems
  Regions <- MCOffsetRegion
  Values <- MCValues
  Tokens <- MCTokens
  Junk <- MCJunk
  MaskInputs <- MCAtomicMasks
  TransportFaults = FALSE
  MallocFaults = FALSE
  RandSeeded = TRUE
SYMMETRY MCSymmetry
SPECIFICATION Spec
INVARIANT RoundTrip
