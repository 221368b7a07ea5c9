\* Descriptor files with single-bit ids and unique names, one with its only
\* record's id not the bit of its slot; every lookup input.
CONSTANTS
  cb1 = cb1
  cb2 = cb2
  Callbacks <- MCCallbacks
  MaskInputs <- MCMasks
  RaisedErrors <- MCNoTransferErrors
  TransferErrors <- MCNoTransferErrors
  TransportFaults = FALSE
  Slots <- MCSlots
  NodeFiles <- MCFiles
  SegFiles <- MCFiles
  NameInputs <- MCNames
  IdInputs <- MCIds
SPECIFICATION Spec
INVARIANT LookupsFindLoaded
