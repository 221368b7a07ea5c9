------------------------------ MODULE CdcmEndian ------------------------------
(***************************************************************************)
(* The byte-order helpers of cdcmUninstInst.h: __endian (reverse the bytes *)
(* of an object into another), __my_endian (tell the host's byte order     *)
(* from how it stores the short 1) and ASSERT_MSB (the value whose bytes   *)
(* in memory are x in big-endian order).  The functions are operators     *)
(* over a host's byte order, an object width in bytes and a value; the    *)
(* state is __my_endian's static cache and the last call, whose result is *)
(* checked against a reference big-endian encoding.                       *)
(***************************************************************************)
EXTENDS Naturals, Sequences

(* <elf.h>: the byte orders __my_endian returns.                           *)
ELFDATANONE == 0
ELFDATA2LSB == 1
ELFDATA2MSB == 2
Hosts == {ELFDATA2LSB, ELFDATA2MSB}

(* The machine: the bytes, in address order, of a w-byte unsigned integer *)
(* x stored by a host, and the integer a host reads from such bytes.       *)
Layout(h, x, w) ==
  [i \in 1 .. w |-> IF h = ELFDATA2LSB THEN (x \div 256^(i - 1)) % 256
                                          ELSE (x \div 256^(w - i)) % 256]
Value(h, b) ==
  LET RECURSIVE Acc(_)
      Acc(k) == IF k = 0 THEN 0
                ELSE Acc(k - 1) * 256
                     + (IF h = ELFDATA2LSB THEN b[Len(b) - k + 1] ELSE b[k])
  IN  Acc(Len(b))

(* __endian(src, dest, size): dest[i] = src[size - i - 1] for i < size.   *)
Endian(src) == [i \in 1 .. Len(src) |-> src[Len(src) - i + 1]]

(* Mutant: the endianness test reads the first byte of the short 1.        *)
MyEndian_first_byte(h) ==
  LET c == Layout(h, 1, 2) IN
  CASE c[1] = 1 -> ELFDATA2MSB
    [] c[2] = 1 -> ELFDATA2LSB
    [] OTHER    -> ELFDATANONE

(* The test of __my_endian: endian_test.s = 1; c[1] == 1 is big-endian,   *)
(* c[0] == 1 little-endian, anything else aborts (ELFDATANONE here).      *)
MyEndian(h) ==
  LET c == Layout(h, 1, 2) IN
  CASE c[2] = 1 -> ELFDATA2MSB
    [] c[1] = 1 -> ELFDATA2LSB
    [] OTHER    -> ELFDATANONE

VARIABLES
  host,       \* the machine's byte order
  my_endian,  \* __my_endian's static cache
  call        \* history: the last ASSERT_MSB: width, argument, result and
              \* how many times the argument was evaluated

evars == << host, my_endian, call >>

NoCall == [w |-> 0, x |-> 0, r |-> 0, evals |-> 0]

EInit ==
  /\ host \in Hosts
  /\ my_endian = ELFDATANONE
  /\ call = NoCall

(* ASSERT_MSB(x) for an x of w bytes: __my_endian (the cached answer, or  *)
(* the test, whose answer it caches), then on a little-endian host        *)
(* __endian of __val's bytes into __x, else __x = x, which evaluates x a  *)
(* second time.                                                           *)
ASSERT_MSB(w, x) ==
  LET e == IF my_endian # ELFDATANONE THEN my_endian ELSE MyEndian(host) IN
  /\ my_endian' = e
  /\ call' = IF e = ELFDATA2LSB
             THEN [w |-> w, x |-> x, r |-> Value(host, Endian(Layout(host, x, w))),
                   evals |-> 1]
             ELSE [w |-> w, x |-> x, r |-> x, evals |-> 2]
  /\ UNCHANGED host

(* The reference: the big-endian encoding of x in w bytes, most          *)
(* significant byte first.                                                *)
BigEndianBytes(x, w) == [i \in 1 .. w |-> (x \div 256^(w - i)) % 256]

(* Object widths of typeof(x) and values of each width (TLC's integers   *)
(* are 32-bit signed: the 4-byte samples keep their low byte below 128,   *)
(* so that the reversed word stays in range).                             *)
Widths == {1, 2, 4}
Samples(w) == {x \in {0, 1, 127, 258, 32639, 16909060} : w = 4 \/ x < 256^w}

ENext == \E w \in Widths : \E x \in Samples(w) : ASSERT_MSB(w, x)

EndianSpec == EInit /\ [][ENext]_evars

(* What ASSERT_MSB is for: for every width and value, the bytes of the   *)
(* value it returns are, in memory, x in big-endian order, the form the   *)
(* CDCM install code hands on as a VME/PCI big-endian quantity.           *)
AssertMsbIsBigEndian ==
  call.w > 0 => Layout(host, call.r, call.w) = BigEndianBytes(call.x, call.w)

(* A macro argument is evaluated once: ASSERT_MSB of p[i++] or of a       *)
(* volatile register read behaves the same on every host.                 *)
AssertMsbEvaluatesOnce == call.w > 0 => call.evals = 1
=============================================================================
