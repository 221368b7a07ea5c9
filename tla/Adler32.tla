------------------------------- MODULE Adler32 -------------------------------
(***************************************************************************)
(* Checksum utility of the XMEM library: calc_adler32() (libxmem.c) hands  *)
(* the bytes of a buffer of uint32 elements to zlib_adler32().  zlib's     *)
(* routine is not in this repository; it is written here from the spec's  *)
(* "Adler-32 semantics" (running sums a and b modulo 65521).               *)
(***************************************************************************)
EXTENDS Naturals, Sequences

BASE == 65521

(* Mutant: the element's bytes taken most significant first.              *)
WordBytes_big_endian(w) ==
  << (w \div 16777216) % 256, (w \div 65536) % 256, (w \div 256) % 256, w % 256 >>

(* The in-memory bytes of one uint32 element, little-endian host.          *)
WordBytes(w) ==
  << w % 256, (w \div 256) % 256, (w \div 65536) % 256, (w \div 16777216) % 256 >>

RECURSIVE BufBytes(_)
BufBytes(buf) ==
  IF buf = << >> THEN << >> ELSE WordBytes(Head(buf)) \o BufBytes(Tail(buf))

(* The loop of zlib_adler32(adler, buf, len): every byte is added to a,    *)
(* then a to b, both reduced mod BASE; the result is the pair << a, b >>.  *)
RECURSIVE AdlerSums(_, _, _)
AdlerSums(a, b, bytes) ==
  IF bytes = << >>
  THEN << a, b >>
  ELSE LET a1 == (a + Head(bytes)) % BASE
       IN  AdlerSums(a1, (b + a1) % BASE, Tail(bytes))

(* zlib_adler32: a is the low and b the high half of adler.  The packed    *)
(* value is only evaluated for checksums small enough for TLC's integers.  *)
zlib_adler32(adler, bytes) ==
  LET s == AdlerSums(adler % 65536, adler \div 65536, bytes)
  IN  s[2] * 65536 + s[1]

(* calc_adler32(pub_buf, pub_elems): seeded with zlib_adler32(0, NULL, 0), *)
(* which is 1, over pub_elems * 4 bytes.                                   *)
calc_adler32(pub_buf) == zlib_adler32(1, BufBytes(pub_buf))

=============================================================================
