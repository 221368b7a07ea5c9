\* One process: initialisation with any file and transport outcome, registrations, raised errors, transfer failures, service calls.
CONSTANTS
  cb1 = cb1
  cb2 = cb2
  Callbacks <- MCCallbacks
  MaskInputs <- MCMasks
  RaisedErrors <- MCRaised
  TransferErrors <- MCTransferErrors
  TransportFaults = TRUE
  Slots <- MCSlots
  NodeFiles <- MCNodeFiles
  SegFiles <- MCSegFiles
  NameInputs <- MCOneName
  IdInputs <- MCFewIds
SPECIFICATION Spec
VIEW MCNoLookupView
INVARIANTS
  InitPicksFirstUp
  FailuresBroadcast
  ServedByCommitted
