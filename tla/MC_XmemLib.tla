------------------------------ MODULE MC_XmemLib ------------------------------
EXTENDS XmemLib, TLC

CONSTANTS cb1, cb2

MCCallbacks == {cb1, cb2}
MCMasks == {{}, {"IO"}, {"TIMEOUT"}, {"SYSTEM"}, {"SOFTWARE"}}
MCRaised == {"SUCCESS", "TIMEOUT", "IO", "SYSTEM", "NO_SUCH_TABLE"}
MCTransferErrors == {"INCOHERENT_MARKERS", "CHECKSUM", "ENOMEM"}
MCNoTransferErrors == {}

(* Descriptor files over two slots.  Each lists single-bit ids with unique *)
(* names, as spec 3 requires: in slot order, one record whose id is not   *)
(* its slot's bit, one with a syntax error after a record, and a missing  *)
(* file.                                                                  *)
MCSlots == 2
File(lines) == [exists |-> TRUE, lines |-> lines]
InOrder  == File(<< Rec("a", 1), Comment, Rec("b", 2) >>)
OneHigh  == File(<< Blank, Rec("a", 2) >>)
Broken   == File(<< Rec("a", 1), Bad >>)
Missing  == [exists |-> FALSE, lines |-> << >>]
MCFiles  == {InOrder, OneHigh, Broken, Missing}
MCNodeFiles == {InOrder, Missing}
MCSegFiles  == {InOrder, Broken}
MCNames  == {"a", ""}
MCIds    == {0, 1, 2, 3}
MCFewIds == {0, 2}
MCOneName == {"b"}
(* The state without the lookup history lk, which only LookupsFindLoaded *)
(* reads, and with only the transport of the service history srv, the     *)
(* part ServedByCommitted reads.  No action reads lk or srv: runs that do *)
(* not check LookupsFindLoaded tell states apart by this view.            *)
MCNoLookupView ==
  << libinitialized, routines, libcallmask, libcallback, sub, last, tried,
     node_tab, seg_tab, srv.to >>

=============================================================================
