------------------------------- MODULE Ciphers -------------------------------
(***************************************************************************)
(* What is built on the block cipher: the key wrap of RFC 3394, AES-XTS, and *)
(* the decryption of whole blocks by their numbers.  The cipher is any       *)
(* permutation for each key, of blocks that are two words each: u64[0] and   *)
(* u64[1], as they are in memory.                                           *)
(***************************************************************************)
EXTENDS Integers, Sequences

CONSTANTS
  Half,       \* 2^64
  WordXor(_, _),  \* exclusive or of words
  bswap_be(_),    \* a number as a big-endian word in memory
  Keys,       \* keys of the cipher
  Enc, Dec,   \* the cipher: functions from keys to permutations of the blocks
  DefaultIv,  \* rfc_3394_default_iv
  Poly,       \* 0x87
  PerBlock    \* cs_factor: units of 512 bytes of a block of the container

Uint64 == 0..(Half - 1)
CipherBlocks == Uint64 \X Uint64

ASSUME WordsAssumption ==
  /\ Half \in Nat /\ Half >= 2 /\ Half % 2 = 0
  /\ \A x \in Uint64 : WordXor(x, 0) = x
  /\ \A x, y \in Uint64 : WordXor(x, y) \in Uint64 /\ WordXor(WordXor(x, y), y) = x
  /\ \A x \in Uint64 : bswap_be(x) \in Uint64
  /\ DefaultIv \in Uint64 /\ Poly \in Uint64 /\ PerBlock \in Nat

ASSUME CipherAssumption ==
  \A key \in Keys :
    /\ Enc[key] \in [CipherBlocks -> CipherBlocks] /\ Dec[key] \in [CipherBlocks -> CipherBlocks]
    /\ \A x \in CipherBlocks : Dec[key][Enc[key][x]] = x /\ Enc[key][Dec[key][x]] = x

-----------------------------------------------------------------------------
Steps == 6

(* The state of both loops is a and r; t counts the steps. *)
WrapStep(key, n, t, s) ==
  LET i == ((t - 1) % n) + 1
      u == Enc[key][<<s.a, s.r[i]>>]
  IN [a |-> WordXor(u[1], bswap_be(t % Half)), r |-> [s.r EXCEPT ![i] = u[2]]]

Rfc3394_KeyWrap(plain, key) ==
  LET n == Len(plain)
      state[t \in 0..(Steps * n)] ==
        IF t = 0 THEN [a |-> DefaultIv, r |-> plain] ELSE WrapStep(key, n, t, state[t - 1])
      s == state[Steps * n]
  IN <<s.a>> \o s.r

\* Mutant: the steps are counted from 0.
FromZero(t) == t - 1

StepNo(t) == t

UnwrapStep(key, n, t, s) ==
  LET i == ((t - 1) % n) + 1
      u == Dec[key][<<WordXor(s.a, bswap_be(StepNo(t) % Half)), s.r[i]>>]
  IN [a |-> u[1], r |-> [s.r EXCEPT ![i] = u[2]]]

Rfc3394_KeyUnwrap(crypto, key) ==
  LET n == Len(crypto) - 1
      \* The state when k steps are undone.
      state[k \in 0..(Steps * n)] ==
        IF k = 0 THEN [a |-> crypto[1], r |-> Tail(crypto)]
        ELSE UnwrapStep(key, n, Steps * n - k + 1, state[k - 1])
      s == state[Steps * n]
  IN [ok |-> s.a = DefaultIv, plain |-> s.r]

-----------------------------------------------------------------------------
Xor128(x, y) == <<WordXor(x[1], y[1]), WordXor(x[2], y[2])>>

\* The tweak is two words, the low one first.
MultiplyTweak(w) ==
  LET c1 == IF w[1] >= Half \div 2 THEN 1 ELSE 0
      c2 == IF w[2] >= Half \div 2 THEN Poly ELSE 0
  IN <<WordXor((2 * w[1]) % Half, c2), ((2 * w[2]) % Half) + c1>>

\* The tweaks of the blocks of a unit, of which there are n.
Tweaks(key, unit, n) ==
  LET tweak[i \in 1..n] ==
        IF i = 1 THEN Enc[key][<<unit, 0>>] ELSE MultiplyTweak(tweak[i - 1])
  IN tweak

\* Keys are a pair, for the data and for the tweak: two halves of the key of a
\* volume (ApfsVolume.cpp:93), and the same key twice for a keybag.
XtsEncrypt(keys, plain, unit) ==
  LET tweak == Tweaks(keys[2], unit, Len(plain))
  IN [k \in DOMAIN plain |-> Xor128(Enc[keys[1]][Xor128(plain[k], tweak[k])], tweak[k])]
XtsDecrypt(keys, cipher, unit) ==
  LET tweak == Tweaks(keys[2], unit, Len(cipher))
  IN [k \in DOMAIN cipher |-> Xor128(Dec[keys[1]][Xor128(cipher[k], tweak[k])], tweak[k])]

\* KeyManager::DecryptBlocks, and the loop of ApfsVolume::ReadBlocks: data is a
\* sequence of units.
UnitNo(block, k) == (block * PerBlock + k - 1) % Half
DecryptBlocks(keys, data, block) ==
  [k \in DOMAIN data |-> XtsDecrypt(keys, data[k], UnitNo(block, k))]
=============================================================================
