------------------------------ MODULE MC_XmemShm ------------------------------
EXTENDS XmemShm, TLC

CONSTANTS p1, p2, p3

MCProcs == {p1, p2}
MCThreeProcs == {p1, p2, p3}
MCSymmetry == Permutations(MCProcs)
MCOneInitialized == {p1}
MCFileOps   == {"read", "write"}
MCNoFileOps == {}
=============================================================================
