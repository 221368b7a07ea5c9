--------------------------- MODULE MC_XmemTransfer ---------------------------
(* Model-checking instances of XmemTransfer.                               *)
EXTENDS XmemTransfer, TLC

CONSTANTS n1, n2

MCNodes == {n1, n2}
MCSymmetry == Permutations(MCNodes)
MCOneNode == {n1}

(* A 6-element table: a 3-element header, up to 2 payload elements and the *)
(* footer.  The whole-table region and a 1-element region at the same     *)
(* offset overlap, so their markers overwrite each other's elements.       *)
MCTableElems == 6
MCRegions == {[off |-> 0, elems |-> 1], [off |-> 0, elems |-> 2]}
MCWholeRegion == {[off |-> 0, elems |-> 2]}
(* A region at a nonzero public offset.                                    *)
MCOffsetRegion == {[off |-> 1, elems |-> 1]}

MCValues == {1, 2}
MCTokens == {11, 12}
MCJunk == {0}

(* XmemSetMarkersMask arguments: the two atomic modes, or every mask.      *)
MCAtomicMasks == {{ENABLE, ATOMIC}, {ENABLE, ATOMIC, CHECKSUM}}
MCAllMasks == SUBSET XmemMarkersALL

MCAtomicNoChecksum == {{ENABLE, ATOMIC}}

=============================================================================
