----------------------------- MODULE XmemMarkers -----------------------------
(***************************************************************************)
(* Marker codec of libxmem.c: the markers mask and its clean-up            *)
(* (XmemSetMarkersMask), the public <-> physical element-offset arithmetic *)
(* and the header/footer pair wrapped around a table region (fill_hf,      *)
(* evaluate_hf).  The process-wide markers_mask the C functions read is a  *)
(* parameter here.  A mask is the set of its XmemMarkers* bits.            *)
(***************************************************************************)
EXTENDS Naturals, Sequences, Adler32

DISABLE  == "DISABLE"
ENABLE   == "ENABLE"
ATOMIC   == "ATOMIC"
CHECKSUM == "CHECKSUM"
XmemMarkersALL == {DISABLE, ENABLE, ATOMIC, CHECKSUM}

(* The four marker modes of spec section 3.                               *)
MarkerModes == {{DISABLE}, {ENABLE}, {ENABLE, ATOMIC}, {ENABLE, ATOMIC, CHECKSUM}}

(* XmemSetMarkersMask(mask): exactly one of ENABLE/DISABLE survives,       *)
(* ENABLE+DISABLE and a mask without ENABLE both become DISABLE, bits      *)
(* outside ALL are dropped, CHECKSUM without ATOMIC is dropped; the result *)
(* replaces markers_mask unless it is 0.                                   *)
(* Mutant: CHECKSUM kept without ATOMIC.                                  *)
SetMask_keep_checksum(old, mask) ==
  LET m1 == IF ENABLE \in mask /\ DISABLE \notin mask THEN mask ELSE {DISABLE}
      m2 == m1 \cap XmemMarkersALL
  IN  IF m2 # {} THEN m2 ELSE old

SetMask(old, mask) ==
  LET m1 == IF ENABLE \in mask /\ DISABLE \notin mask THEN mask ELSE {DISABLE}
      m2 == m1 \cap XmemMarkersALL
      m3 == IF CHECKSUM \in m2 /\ ATOMIC \notin m2 THEN m2 \ {CHECKSUM} ELSE m2
  IN  IF m3 # {} THEN m3 ELSE old

(* struct header {val, checksum, size} and struct footer {val}, in uint32  *)
(* elements.                                                               *)
XMEM_H_ELEMS  == 3
XMEM_F_ELEMS  == 1
XMEM_HF_ELEMS == XMEM_H_ELEMS + XMEM_F_ELEMS

h_eloff(pub_eloff) == pub_eloff

(* Mutant: the header is skipped only in ATOMIC mode.                      *)
phys_eloff_atomic_only(mask, pub_eloff) ==
  IF ATOMIC \in mask THEN pub_eloff + XMEM_H_ELEMS ELSE pub_eloff

phys_eloff(mask, pub_eloff) ==
  IF ENABLE \in mask THEN pub_eloff + XMEM_H_ELEMS ELSE pub_eloff

f_eloff(mask, pub_elems, pub_eloff) == phys_eloff(mask, pub_eloff) + pub_elems

priv_to_pub_elems(mask, priv_elems) ==
  IF ENABLE \in mask THEN priv_elems - XMEM_HF_ELEMS ELSE priv_elems

(* fill_hf: header and footer carry the same rand() value; the checksum is *)
(* computed only in CHECKSUM mode with a payload in hand, otherwise the    *)
(* field keeps whatever the storage held (chk0).                           *)
(* Mutant: the checksum field is never filled in.                         *)
HeaderOf_no_checksum(mask, randval, pub_elems, pub_buf, chk0) ==
  << randval, chk0, pub_elems * 4 >>

HeaderOf(mask, randval, pub_elems, pub_buf, chk0) ==
  << randval,
     IF pub_buf # << >> /\ CHECKSUM \in mask THEN calc_adler32(pub_buf) ELSE chk0,
     pub_elems * 4 >>

(* evaluate_hf: tokens first, then (with a payload in hand and CHECKSUM    *)
(* set) the checksum.  hdr is the header's three elements, ftr the footer. *)
(* Mutant: the token comparison is left out.                               *)
evaluate_hf_skip_token(mask, hdr, ftr, pub_buf) ==
  IF pub_buf # << >> /\ CHECKSUM \in mask /\ hdr[2] # calc_adler32(pub_buf)
  THEN "CHECKSUM" ELSE "SUCCESS"

evaluate_hf(mask, hdr, ftr, pub_buf) ==
  IF hdr[1] # ftr THEN "INCOHERENT_MARKERS"
  ELSE IF pub_buf # << >> /\ CHECKSUM \in mask /\ hdr[2] # calc_adler32(pub_buf)
       THEN "CHECKSUM"
       ELSE "SUCCESS"

=============================================================================
