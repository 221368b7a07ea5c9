------------------------------ MODULE AtomicRegister ------------------------------
(***************************************************************************)
(* What atomic markers mode promises a table's users (spec sections 4.5,  *)
(* 5 and 8.2): each region is a register that one XmemSendTable replaces  *)
(* as a whole.  A send also spoils every other region whose physical      *)
(* footprint (payload plus markers) it overlaps: that region holds no     *)
(* value any more.  A XmemRecvTable that succeeds returns the current     *)
(* value of an unspoilt region.  A read may fail at any time, and then    *)
(* leaves the caller's buffer untouched.                                  *)
(***************************************************************************)
EXTENDS Naturals, Sequences

CONSTANTS
  Procs,        \* the callers
  Regions,      \* public regions [off, elems]
  Values,       \* payload element values
  MarkerElems   \* elements of header plus footer around each payload

ASSUME \A r \in Regions : r.elems \in Nat \ {0}

(* No region is empty, so the empty payload marks a spoilt region.      *)
Spoilt == << >>
NoReg  == [off |-> 0, elems |-> 0]
NoRes  == [reg |-> NoReg, ok |-> FALSE, buf |-> << >>]

VARIABLES
  reg,   \* each region's value, or Spoilt
  res    \* each caller's last read: region, success, what its buffer got

Footprint(r) == r.off .. r.off + r.elems + MarkerElems - 1
Overlaps(q, r) == Footprint(q) \cap Footprint(r) # {}

Init ==
  /\ reg = [r \in Regions |-> [i \in 1 .. r.elems |-> 0]]
  /\ res = [p \in Procs |-> NoRes]

Write(r, v) ==
  /\ UNCHANGED res
  /\ reg' = [q \in Regions |-> IF q = r THEN v
                               ELSE IF Overlaps(q, r) THEN Spoilt
                               ELSE reg[q]]

Read(p, r) ==
  /\ reg[r] # Spoilt
  /\ res' = [res EXCEPT ![p] = [reg |-> r, ok |-> TRUE, buf |-> reg[r]]]
  /\ UNCHANGED reg

ReadFails(p, r) ==
  /\ res' = [res EXCEPT ![p] = [reg |-> r, ok |-> FALSE, buf |-> << >>]]
  /\ UNCHANGED reg

Next ==
  \/ \E r \in Regions : \E v \in [1 .. r.elems -> Values] : Write(r, v)
  \/ \E p \in Procs, r \in Regions : Read(p, r) \/ ReadFails(p, r)

Spec == Init /\ [][Next]_<< reg, res >>

=============================================================================
