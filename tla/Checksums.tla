------------------------------ MODULE Checksums ------------------------------
(***************************************************************************)
(* The checksum of a block: the sums of its words, added up to words that   *)
(* come first in the block, are zero.  A block has 2^14 words at most, so    *)
(* that 64 bits hold the sums.                                              *)
(***************************************************************************)
EXTENDS Integers, Sequences

CONSTANT Modulus  \* 0xFFFFFFFF

ASSUME ModulusAssumption == Modulus \in Nat \ {0}

\* Fletcher64: both sums over words, reduced at the end.
Fletcher64(data, init) ==
  LET sums[k \in 0..Len(data)] ==
        IF k = 0 THEN init
        ELSE <<sums[k - 1][1] + data[k], sums[k - 1][2] + sums[k - 1][1] + data[k]>>
  IN <<sums[Len(data)][1] % Modulus, sums[Len(data)][2] % Modulus>>

\* Mutant: the words of the checksum are added first.
ChecksumFirst(block) == Fletcher64(block, <<0, 0>>)

ChecksumLast(block) ==
  Fletcher64(SubSeq(block, 1, 2), Fletcher64(SubSeq(block, 3, Len(block)), <<0, 0>>))

\* A block of words, the first two of which are its checksum.
VerifyBlock(block) ==
  /\ SubSeq(block, 1, 2) \notin {<<0, 0>>, <<Modulus, Modulus>>}
  /\ ChecksumLast(block) = <<0, 0>>
=============================================================================
