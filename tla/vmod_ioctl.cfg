\* Two threads on two boards, every init and copy_from_user failure.
SPECIFICATION Spec
CONSTANTS
  t1 = t1
  t2 = t2
  Threads <- MCThreads
  MAX_BOARDS = 2
  NumLun = 2
  LunInputs <- MCLuns
  CarrierInputs <- MCCarriers
  InitFaults = TRUE
  UserFaults = TRUE
  OpenAfterInsmod = TRUE
  FlagInputs <- MCFlags
  Data <- MCData
  MaxCalls = 3
SYMMETRY MCSymmetry
INVARIANT StrobeCarriesOwnData
