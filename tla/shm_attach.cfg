\* Two initialised processes and one whose XmemInitialize failed, all faults,
\* three calls each, any of them XmemGetSharedMemory, XmemReadTableFile or
\* XmemWriteTableFile.
CONSTANTS
  p1 = p1
  p2 = p2
  p3 = p3
  Procs <- MCThreeProcs
  Initialized <- MCProcs
  SysFaults = TRUE
  LoadFaults = TRUE
  FileOps <- MCFileOps
  FileFaults = TRUE
  MaxCalls = 3
SYMMETRY MCSymmetry
SPECIFICATION Spec
INVARIANTS
  NoAttachLeak
