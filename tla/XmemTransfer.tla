----------------------------- MODULE XmemTransfer -----------------------------
(***************************************************************************)
(* Transfer engine of libxmem.c: XmemSendTable / XmemRecvTable and the     *)
(* strategies they dispatch to (bare, send_table/check_markers with plain  *)
(* markers, send_table_atomic/receive_table_atomic with a bounce buffer),  *)
(* run by several processes, one per node, on one table of the mirrored    *)
(* memory.  Each process makes one library call at a time.  Every         *)
(* routines.SendTable / routines.RecvTable call is one indivisible step    *)
(* on the table (the transport's guarantee, spec section 5); the steps of  *)
(* different processes interleave freely.                                  *)
(***************************************************************************)
EXTENDS Naturals, Sequences, FiniteSets, XmemMarkers

CONSTANTS
  Nodes,           \* processes using the table, one per node
  TableElems,      \* physical size of the table in uint32 elements
  Regions,         \* public regions [off, elems] the callers transfer
  Values,          \* payload element values
  Tokens,          \* values rand() returns to fill_hf; each is drawn once
  Junk,            \* values uninitialised storage may hold
  MaskInputs,      \* arguments passed to XmemSetMarkersMask
  TransportFaults, \* TRUE: a transport call may fail with XmemErrorIO
  MallocFaults,    \* TRUE: malloc of a bounce buffer may fail
  RandSeeded       \* TRUE: each process seeds rand() apart from the others

ASSUME /\ TableElems \in Nat
       /\ \A r \in Regions : /\ r.off \in Nat /\ r.elems \in Nat \ {0}
                             /\ r.off + r.elems + XMEM_HF_ELEMS <= TableElems
       /\ Tokens \cap (Values \cup Junk) = {}
       /\ MaskInputs \subseteq SUBSET XmemMarkersALL
       /\ TransportFaults \in BOOLEAN /\ MallocFaults \in BOOLEAN
       /\ RandSeeded \in BOOLEAN /\ Tokens \subseteq Nat

VARIABLES
  xmem,          \* the table's physical elements, mirrored on every node
  markers_mask,  \* markers_mask of each process
  op,            \* the call each process is in the middle of
  rd,            \* each process's last XmemRecvTable: region, result,
                 \* what it copied to the caller's buffer, expectation
  drawn,         \* rand() values each process's fill_hf has used
  issued,        \* history: every [reg, vals] a send wrote to the table
  lastw,         \* history: the last send that returned SUCCESS
  quiet          \* history: no table write since lastw returned

vars == << xmem, markers_mask, op, rd, drawn, issued, lastw, quiet >>

NoExp   == {}
NoReg   == [off |-> 0, elems |-> 0]
NoWrite == [reg |-> NoReg, vals |-> << >>, mask |-> {}]
Idle    == [pc |-> "idle", reg |-> NoReg, vals |-> << >>, tok |-> 0,
            hdr |-> << 0, 0, 0 >>, exp |-> NoExp, clash |-> FALSE]

Zeros(r)    == [i \in 1 .. r.elems |-> 0]
Payloads(r) == [1 .. r.elems -> Values]
Mask(n)     == markers_mask[n]
(* The value process n's next rand() returns.  The library never calls    *)
(* srand(), so unless the application seeds each process differently all *)
(* of them return the same sequence (here: Tokens in ascending order).    *)
(* Seeded apart, a value is one no process has drawn yet.                 *)
Fresh(n) ==
  LET left == Tokens \ drawn[n]
  IN  IF RandSeeded THEN Tokens \ UNION {drawn[m] : m \in Nodes}
      ELSE {t \in left : \A u \in left : t <= u}
Draw(n, randval) == drawn' = [drawn EXCEPT ![n] = @ \cup {randval}]

(* The elements [from, from + len) of the table, and the table with s     *)
(* stored from element from on: one transport read and write.             *)
Slice(m, from, len) == [i \in 1 .. len |-> m[from + i - 1]]
Store(m, from, s) ==
  [k \in DOMAIN m |-> IF from <= k /\ k < from + Len(s) THEN s[k - from + 1]
                      ELSE m[k]]

SendPcs == {"send_footer", "send_payload"}
RecvPcs == {"recv_footer", "recv_payload"}

(* History: a read that a table write overlaps no longer has an expected  *)
(* result, and a send that one overlaps may not leave the table whole.    *)
Blind(o) == CASE o.pc \in RecvPcs -> [o EXCEPT !.exp = NoExp]
              [] o.pc \in SendPcs -> [o EXCEPT !.clash = TRUE]
              [] OTHER             -> o
Overlap(n, o) == [m \in Nodes |-> IF m = n THEN o ELSE Blind(op[m])]

(* History: what a read of r by n must return if the table still holds    *)
(* exactly the last successful send, made to r in n's mode.               *)
Expect(n, r) ==
  IF quiet /\ lastw.reg = r /\ lastw.mask = Mask(n) THEN {lastw.vals} ELSE NoExp

(* History of a send that returns SUCCESS.                                *)
Commit(n, r, v) ==
  /\ lastw' = [reg |-> r, vals |-> v, mask |-> Mask(n)]
  /\ quiet' = /\ ~ op[n].clash
              /\ ~ \E m \in Nodes \ {n} : op[m].pc \in SendPcs

(* XmemRecvTable returns err to the caller, whose buffer got buf.        *)
Return(n, r, err, buf, exp) ==
  rd' = [rd EXCEPT ![n] = [reg |-> r, err |-> err, buf |-> buf,
                           marked |-> ENABLE \in Mask(n), exp |-> exp]]

(* History of a send whose payload reaches the table.                     *)
Wrote(r, v) == issued' = issued \cup {[reg |-> r, vals |-> v]}

-----------------------------------------------------------------------------
(* XmemSetMarkersMask                                                      *)

SetMarkersMask(n, m) ==
  /\ op[n].pc = "idle"
  /\ markers_mask' = [markers_mask EXCEPT ![n] = SetMask(@, m)]
  /\ UNCHANGED << xmem, op, rd, drawn, issued, lastw, quiet >>

-----------------------------------------------------------------------------
(* XmemSendTable.  A failed transport call changes nothing and its error   *)
(* is returned at once.                                                    *)

(* DISABLE: one routines.SendTable of the payload at phys_eloff(offset).   *)
SendBare(n, r, v) ==
  /\ op[n].pc = "idle"
  /\ DISABLE \in Mask(n)
  /\ xmem' = Store(xmem, phys_eloff(Mask(n), r.off), v)
  /\ op' = Overlap(n, op[n])
  /\ Wrote(r, v)
  /\ Commit(n, r, v)
  /\ UNCHANGED << markers_mask, rd, drawn >>

(* ATOMIC: send_table_atomic.  malloc the bounce buffer (ENOMEM), copy the *)
(* payload after the header, fill_hf with the footer at bounce +           *)
(* __f_eloff(pub_elems, pub_eloff), then one routines.SendTable of the     *)
(* whole buffer at __h_eloff(pub_eloff).  The checksum field is malloc'd   *)
(* storage unless CHECKSUM fills it; so is the buffer's last element when  *)
(* the footer pointer lands past it (pub_eloff > 0: that store is outside  *)
(* the buffer and has no modelled effect).                                 *)
SendAtomic(n, r, v) ==
  /\ op[n].pc = "idle"
  /\ DISABLE \notin Mask(n)
  /\ ATOMIC \in Mask(n)
  /\ \E randval \in Fresh(n), chk0, last \in Junk :
       LET priv   == r.elems + XMEM_HF_ELEMS
           fpos   == f_eloff(Mask(n), r.elems, r.off)
           filled == HeaderOf(Mask(n), randval, r.elems, v, chk0) \o v \o << last >>
           bounce == IF fpos < priv THEN [filled EXCEPT ![fpos + 1] = randval]
                     ELSE filled
       IN  /\ Draw(n, randval)
           /\ xmem' = Store(xmem, h_eloff(r.off), bounce)
  /\ op' = Overlap(n, op[n])
  /\ Wrote(r, v)
  /\ Commit(n, r, v)
  /\ UNCHANGED << markers_mask, rd >>

(* send_table_atomic fails before the transport (ENOMEM) or in it (IO).    *)
(* rand() is called only once malloc has succeeded.                        *)
SendAtomicFails(n) ==
  /\ op[n].pc = "idle"
  /\ DISABLE \notin Mask(n)
  /\ ATOMIC \in Mask(n)
  /\ \/ MallocFaults /\ UNCHANGED drawn
     \/ TransportFaults /\ \E randval \in Fresh(n) : Draw(n, randval)
  /\ UNCHANGED << xmem, markers_mask, op, rd, issued, lastw, quiet >>

(* Plain markers: send_table.  fill_hf on the stack (checksum field left   *)
(* as found), then three routines.SendTable calls: header, footer,         *)
(* payload; the first failure returns.                                     *)
SendHeader(n, r, v) ==
  /\ op[n].pc = "idle"
  /\ DISABLE \notin Mask(n)
  /\ ATOMIC \notin Mask(n)
  /\ \E randval \in Fresh(n), chk0 \in Junk :
       /\ Draw(n, randval)
       /\ \/ /\ xmem' = Store(xmem, h_eloff(r.off),
                              HeaderOf(Mask(n), randval, r.elems, << >>, chk0))
             /\ op' = Overlap(n, [Idle EXCEPT !.pc = "send_footer", !.reg = r,
                                              !.vals = v, !.tok = randval])
             /\ quiet' = FALSE
          \/ /\ TransportFaults
             /\ UNCHANGED << xmem, op, quiet >>
  /\ UNCHANGED << markers_mask, rd, issued, lastw >>

SendFooter(n) ==
  LET o == op[n] IN
  /\ o.pc = "send_footer"
  /\ \/ /\ xmem' = Store(xmem, f_eloff(Mask(n), o.reg.elems, o.reg.off), << o.tok >>)
        /\ op' = Overlap(n, [o EXCEPT !.pc = "send_payload"])
        /\ quiet' = FALSE
     \/ /\ TransportFaults
        /\ op' = [op EXCEPT ![n] = Idle]
        /\ UNCHANGED << xmem, quiet >>
  /\ UNCHANGED << markers_mask, rd, drawn, issued, lastw >>

SendPayload(n) ==
  LET o == op[n] IN
  /\ o.pc = "send_payload"
  /\ \/ /\ xmem' = Store(xmem, phys_eloff(Mask(n), o.reg.off), o.vals)
        /\ op' = Overlap(n, Idle)
        /\ Wrote(o.reg, o.vals)
        /\ Commit(n, o.reg, o.vals)
     \/ /\ TransportFaults
        /\ op' = [op EXCEPT ![n] = Idle]
        /\ UNCHANGED << xmem, issued, lastw, quiet >>
  /\ UNCHANGED << markers_mask, rd, drawn >>

-----------------------------------------------------------------------------
(* XmemRecvTable.  Only a SUCCESS copies anything to the caller's buffer.  *)

(* Mutant: the payload is copied to the caller's buffer before           *)
(* evaluate_hf, so a read that fails still overwrites it.                 *)
RecvAtomic_copy_on_error(n, r) ==
  /\ op[n].pc = "idle"
  /\ ATOMIC \in Mask(n)
  /\ \/ /\ MallocFaults
        /\ Return(n, r, "ENOMEM", << >>, Expect(n, r))
     \/ /\ TransportFaults
        /\ Return(n, r, "IO", << >>, Expect(n, r))
     \/ \E beyond \in Junk \cup drawn[n] :
          LET priv   == r.elems + XMEM_HF_ELEMS
              bounce == Slice(xmem, h_eloff(r.off), priv)
              fpos   == f_eloff(Mask(n), r.elems, r.off)
              footer == IF fpos < priv THEN bounce[fpos + 1] ELSE beyond
              pay    == SubSeq(bounce, XMEM_H_ELEMS + 1, XMEM_H_ELEMS + r.elems)
              err    == evaluate_hf(Mask(n), SubSeq(bounce, 1, XMEM_H_ELEMS), footer, pay)
          IN  Return(n, r, err, pay, Expect(n, r))
  /\ UNCHANGED << xmem, markers_mask, op, drawn, issued, lastw, quiet >>

(* ATOMIC: receive_table_atomic.  malloc, one routines.RecvTable of the    *)
(* whole region into the bounce buffer, evaluate_hf on the embedded        *)
(* payload with the footer at bounce + __f_eloff(pub_elems, pub_eloff)     *)
(* (past the buffer when pub_eloff > 0: whatever this process's heap      *)
(* holds there, which may be a rand() value its own sends stored there).   *)
(* and only on success copy the payload to the caller's buffer.            *)
RecvAtomic(n, r) ==
  /\ op[n].pc = "idle"
  /\ ATOMIC \in Mask(n)
  /\ \/ /\ MallocFaults
        /\ Return(n, r, "ENOMEM", << >>, Expect(n, r))
     \/ /\ TransportFaults
        /\ Return(n, r, "IO", << >>, Expect(n, r))
     \/ \E beyond \in Junk \cup drawn[n] :
          LET priv   == r.elems + XMEM_HF_ELEMS
              bounce == Slice(xmem, h_eloff(r.off), priv)
              fpos   == f_eloff(Mask(n), r.elems, r.off)
              footer == IF fpos < priv THEN bounce[fpos + 1] ELSE beyond
              pay    == SubSeq(bounce, XMEM_H_ELEMS + 1, XMEM_H_ELEMS + r.elems)
              err    == evaluate_hf(Mask(n), SubSeq(bounce, 1, XMEM_H_ELEMS), footer, pay)
          IN  Return(n, r, err, IF err = "SUCCESS" THEN pay ELSE << >>, Expect(n, r))
  /\ UNCHANGED << xmem, markers_mask, op, drawn, issued, lastw, quiet >>

(* DISABLE: check_markers returns at once; one routines.RecvTable of the   *)
(* payload at phys_eloff(offset) into the caller's buffer.                 *)
RecvBare(n, r) ==
  /\ op[n].pc = "idle"
  /\ ATOMIC \notin Mask(n)
  /\ DISABLE \in Mask(n)
  /\ \/ Return(n, r, "SUCCESS", Slice(xmem, phys_eloff(Mask(n), r.off), r.elems),
               Expect(n, r))
     \/ TransportFaults /\ Return(n, r, "IO", << >>, Expect(n, r))
  /\ UNCHANGED << xmem, markers_mask, op, drawn, issued, lastw, quiet >>

(* Plain markers: check_markers reads the header, then the footer, and     *)
(* evaluates them without the payload; then the payload is read straight   *)
(* into the caller's buffer.  Each read is one routines.RecvTable.         *)
RecvHeader(n, r) ==
  /\ op[n].pc = "idle"
  /\ ATOMIC \notin Mask(n)
  /\ DISABLE \notin Mask(n)
  /\ \/ /\ op' = [op EXCEPT ![n] = [Idle EXCEPT !.pc = "recv_footer", !.reg = r,
                       !.hdr = Slice(xmem, h_eloff(r.off), XMEM_H_ELEMS),
                       !.exp = Expect(n, r)]]
        /\ UNCHANGED rd
     \/ /\ TransportFaults
        /\ Return(n, r, "IO", << >>, Expect(n, r))
        /\ UNCHANGED op
  /\ UNCHANGED << xmem, markers_mask, drawn, issued, lastw, quiet >>

RecvFooter(n) ==
  LET o   == op[n]
      err == evaluate_hf(Mask(n), o.hdr,
                         xmem[f_eloff(Mask(n), o.reg.elems, o.reg.off)], << >>)
  IN
  /\ o.pc = "recv_footer"
  /\ \/ /\ err = "SUCCESS"
        /\ op' = [op EXCEPT ![n].pc = "recv_payload"]
        /\ UNCHANGED rd
     \/ /\ err # "SUCCESS"
        /\ op' = [op EXCEPT ![n] = Idle]
        /\ Return(n, o.reg, err, << >>, o.exp)
     \/ /\ TransportFaults
        /\ op' = [op EXCEPT ![n] = Idle]
        /\ Return(n, o.reg, "IO", << >>, o.exp)
  /\ UNCHANGED << xmem, markers_mask, drawn, issued, lastw, quiet >>

RecvPayload(n) ==
  LET o == op[n] IN
  /\ o.pc = "recv_payload"
  /\ op' = [op EXCEPT ![n] = Idle]
  /\ \/ Return(n, o.reg, "SUCCESS",
               Slice(xmem, phys_eloff(Mask(n), o.reg.off), o.reg.elems), o.exp)
     \/ TransportFaults /\ Return(n, o.reg, "IO", << >>, o.exp)
  /\ UNCHANGED << xmem, markers_mask, drawn, issued, lastw, quiet >>

-----------------------------------------------------------------------------
(* Each process starts after its configuration call to XmemSetMarkersMask  *)
(* (from the default XmemMarkersDISABLE) on a cleared table.               *)
Init ==
  /\ xmem = [k \in 0 .. TableElems - 1 |-> 0]
  /\ markers_mask \in [Nodes -> {SetMask({DISABLE}, m) : m \in MaskInputs}]
  /\ op = [n \in Nodes |-> Idle]
  /\ rd = [n \in Nodes |-> [reg |-> NoReg, err |-> "NONE", buf |-> << >>,
                            marked |-> FALSE, exp |-> NoExp]]
  /\ drawn = [n \in Nodes |-> {}]
  /\ issued = {}
  /\ lastw = NoWrite
  /\ quiet = FALSE

Next ==
  \E n \in Nodes :
    \/ \E m \in MaskInputs : SetMarkersMask(n, m)
    \/ \E r \in Regions : \E v \in Payloads(r) :
         SendBare(n, r, v) \/ SendAtomic(n, r, v) \/ SendHeader(n, r, v)
    \/ SendAtomicFails(n) \/ SendFooter(n) \/ SendPayload(n)
    \/ \E r \in Regions : RecvAtomic(n, r) \/ RecvBare(n, r) \/ RecvHeader(n, r)
    \/ RecvFooter(n) \/ RecvPayload(n)

Spec == Init /\ [][Next]_vars

-----------------------------------------------------------------------------
(* Properties                                                              *)

Errors == {"NONE", "SUCCESS", "IO", "ENOMEM", "INCOHERENT_MARKERS", "CHECKSUM"}

TypeOK ==
  /\ xmem \in [0 .. TableElems - 1 -> Nat]
  /\ \A n \in Nodes : markers_mask[n] \in MarkerModes
  /\ \A n \in Nodes : op[n].pc \in {"idle"} \cup SendPcs \cup RecvPcs
  /\ \A n \in Nodes : rd[n].err \in Errors
  /\ drawn \in [Nodes -> SUBSET Tokens]

(* Whole reads.  A XmemRecvTable with markers enabled that returns SUCCESS *)
(* hands the caller exactly the payload one XmemSendTable of the same      *)
(* region wrote (or the cleared table), never a mix of two sends or a      *)
(* marker word: header, footer and checksum must catch every interleaving  *)
(* with other nodes' sends and every send that failed part way.            *)
MarkedReadIsWhole ==
  \A n \in Nodes :
    (rd[n].err = "SUCCESS" /\ rd[n].marked)
      => rd[n].buf \in {w.vals : w \in {x \in issued : x.reg = rd[n].reg}}
                       \cup {Zeros(rd[n].reg)}

(* Round trip (spec 8.1).  A XmemRecvTable of the region the last          *)
(* successful XmemSendTable wrote, in the same markers mode, with no table *)
(* write since, returns that payload, or fails only for want of memory or  *)
(* a transport error; it never reports incoherent markers or a bad         *)
(* checksum.                                                               *)
RoundTrip ==
  \A n \in Nodes :
    rd[n].exp # NoExp
      => /\ rd[n].err \in {"SUCCESS", "IO", "ENOMEM"}
         /\ rd[n].err = "SUCCESS" => rd[n].buf \in rd[n].exp


(* Refinement of AtomicRegister, for callers that all use atomic markers   *)
(* at public offset 0: a region holds the payload between its markers     *)
(* when the header's token equals the footer's, and is spoilt otherwise;  *)
(* each process's last XmemRecvTable maps to the abstract read result.    *)
AtomicLayout == {ENABLE, ATOMIC}
Coherent(r) == xmem[h_eloff(r.off)] = xmem[f_eloff(AtomicLayout, r.elems, r.off)]
RegOf == [r \in Regions |->
           IF Coherent(r) THEN Slice(xmem, phys_eloff(AtomicLayout, r.off), r.elems)
           ELSE << >>]
ResOf == [n \in Nodes |-> [reg |-> rd[n].reg, ok |-> rd[n].err = "SUCCESS",
                           buf |-> rd[n].buf]]

Reg == INSTANCE AtomicRegister
         WITH Procs <- Nodes, MarkerElems <- XMEM_HF_ELEMS, reg <- RegOf, res <- ResOf

(* Atomic markers make each region a linearizable register (spec 4.5, 5,  *)
(* 8.2): every send_table_atomic replaces its region and spoils the       *)
(* regions it overlaps, a receive_table_atomic that succeeds returns the  *)
(* region's current payload (never an older one nor one a later send has  *)
(* spoilt), and one that fails leaves the caller's buffer untouched.      *)
ImplementsAtomicRegister == Reg!Spec
=============================================================================
