\* Two initialised processes, reliable system calls: check-then-create race.
CONSTANTS
  p1 = p1
  p2 = p2
  p3 = p3
  Procs <- MCProcs
  Initialized <- MCProcs
  SysFaults = FALSE
  LoadFaults = FALSE
  FileOps <- MCNoFileOps
  FileFaults = FALSE
  MaxCalls = 2
SYMMETRY MCSymmetry
SPECIFICATION Spec
INVARIANT ServedLoaded
