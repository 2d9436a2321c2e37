--------------------------------- MODULE Adc ---------------------------------
(***************************************************************************)
(* DecompressADC, which decompresses the sections of a DMG in ADC: control  *)
(* bytes, each with the bytes of a run or the place of a copy behind it.    *)
(* The state of the loop is in_idx, counted from 1, and what is in dst.     *)
(***************************************************************************)
EXTENDS Integers, Sequences

\* The asserts at the end fail.
AdcCrash == <<"crash">>

\* What is behind the end of the input matters not: it is found too short.
Byte(src, i) == IF i <= Len(src) THEN src[i] ELSE 0

\* Mutant: the bytes are copied as a block, not one by one.
CopyAtOnce(dst, dist, len) ==
  dst \o [k \in 1..len |-> IF k <= dist THEN dst[Len(dst) + k - dist] ELSE 0]

\* A byte that was copied may be copied again.
Copy(dst, dist, len) ==
  LET out[k \in 1..(Len(dst) + len)] == IF k <= Len(dst) THEN dst[k] ELSE out[k - dist]
  IN out

\* The next n bytes of the input.
Run(src, i, n) == [k \in 1..n |-> Byte(src, i + k)]

AdcState(i, dst) == [i |-> i, dst |-> dst]

\* One round of the loop: a run, a copy with a place of two bytes, or with one
\* of ten bits.
AdcStep(src, s) ==
  LET ctl == src[s.i]
  IN IF ctl >= 128
       THEN AdcState(s.i + 1 + (ctl - 127), s.dst \o Run(src, s.i, ctl - 127))
     ELSE IF ctl >= 64
       THEN AdcState(s.i + 3, Copy(s.dst, 256 * Byte(src, s.i + 1) + Byte(src, s.i + 2) + 1, ctl - 60))
     ELSE AdcState(s.i + 2, Copy(s.dst, 256 * (ctl % 4) + Byte(src, s.i + 1) + 1, (ctl \div 4) + 3))

\* Every round takes a byte of the input at least.
DecompressADC(src, size) ==
  LET state[k \in 0..Len(src)] ==
        IF k = 0 THEN AdcState(1, <<>>)
        ELSE LET s == state[k - 1]
             IN IF s.i > Len(src) \/ Len(s.dst) >= size THEN s ELSE AdcStep(src, s)
      s == state[Len(src)]
  IN IF s.i = Len(src) + 1 /\ Len(s.dst) = size THEN s.dst ELSE AdcCrash
=============================================================================
