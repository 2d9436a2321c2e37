------------------------------- MODULE Codings -------------------------------
(***************************************************************************)
(* Base64, in which the data of a property list is written.  Characters are *)
(* their values; Equals and Other stand for those without one.              *)
(***************************************************************************)
EXTENDS Integers, SequencesExt

Equals == 64
Other == 65

\* A byte is there with the second, the third and the fourth character of four.
\* Of the 32 bits of buf the last 24 are looked at.
Decoded(state, ch) ==
  LET cnt == (state.cnt + 1) % 4
      buf == ((state.buf * 64) + ch) % (2 ^ 24)
      unused == CASE cnt = 2 -> 16 [] cnt = 3 -> 4 [] OTHER -> 1
  IN [cnt |-> cnt, buf |-> buf,
      bin |-> IF cnt = 1 THEN state.bin ELSE Append(state.bin, (buf \div unused) % 256)]

Base64Decode(str) ==
  LET chars == SelectSeq(str, LAMBDA ch : ch # Other)
      end == SelectInSeq(chars, LAMBDA ch : ch = Equals)
      read == IF end = 0 THEN chars ELSE SubSeq(chars, 1, end - 1)
  IN FoldLeft(Decoded, [cnt |-> 0, buf |-> 0, bin |-> <<>>], read).bin
=============================================================================
