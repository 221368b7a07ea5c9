\* Two unseeded processes, atomic markers without checksum, two region sizes.
CONSTANTS
  n1 = n1
  n2 = n2
  Nodes <- MCNodes
  TableElems <- MCTableElems
  Regions <- MCRegions
  Values <- MCValues
  Tokens <- MCTokens
  Junk <- MCJunk
  MaskInputs <- MCAtomicNoChecksum
  TransportFaults = FALSE
  MallocFaults = FALSE
  RandSeeded = FALSE
SYMMETRY MCSymmetry
SPECIFICATION Spec
INVARIANT MarkedReadIsWhole
