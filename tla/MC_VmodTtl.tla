----------------------------- MODULE MC_VmodTtl -----------------------------
(* Instances of VmodTtl for TLC: two user threads, boards of a two-slot   *)
(* driver build, and small sets of ioctl arguments.                       *)
EXTENDS VmodTtl, TLC

CONSTANTS t1, t2

MCThreads  == {t1, t2}
MCOneThread == {t1}
MCSymmetry == Permutations(MCThreads)

(* lun= values: in range, and out of range below.                       *)
MCLuns      == {-1, 0}
MCLunsValid == {0}
(* lun= at the driver's bound (MAX_BOARDS = 2 in the cfgs).             *)
MCLunsAtBound == {2}

MCCarriers     == {"ok", "bad_slot", "none"}
MCCarriersOk   == {"ok"}

(* conf.io_flag: all inputs, A out, A and B out, and out of range.        *)
MCFlags     == {[ok |-> TRUE, outs |-> o] : o \in {{}, {"A"}, {"A", "B"}}}
                 \cup {[ok |-> FALSE, outs |-> {}]}
MCFlagsLive == {[ok |-> b, outs |-> {"A"}] : b \in BOOLEAN}

(* Two words whose bytes differ, so a mixed latch is told apart.         *)
MCData     == {258, 513}
MCDataOne  == {258}
=============================================================================
