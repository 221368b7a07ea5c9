------------------------------ MODULE MC_CdcmPci ------------------------------
(* Instances of CdcmPci for TLC: three boards on the bus, two of the type *)
(* the driver asks for, and one or two install groups.  The byte-order   *)
(* helpers of cdcmUninstInst.h (CdcmEndian) share no state with the      *)
(* wrappers; MCSpec runs their calls interleaved with the wrappers' so    *)
(* that the two are checked in one run.                                   *)
EXTENDS CdcmPci, CdcmEndian

CONSTANTS d1, d2, d3, g1, g2

MCBus    == << d1, d2, d3 >>
MCDevId  == d1 :> "ttl" @@ d2 :> "other" @@ d3 :> "ttl"
MCIds    == {"ttl"}
MCGroups == {g1, g2}
MCOneGroup == {g1}

MCInit == Init /\ EInit

MCSpec == /\ MCInit
          /\ [][(Next /\ UNCHANGED evars) \/ (ENext /\ UNCHANGED vars)]_<< vars, evars >>
=============================================================================
