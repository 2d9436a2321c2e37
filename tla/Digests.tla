------------------------------- MODULE Digests -------------------------------
(***************************************************************************)
(* Sha1, SHA256, HMAC and PBKDF2, over symbols: a message is a sequence of  *)
(* symbols, and a digest is a symbol that stands for the blocks hashed.     *)
(***************************************************************************)
EXTENDS Integers, Sequences

CONSTANTS
  BlockLen,   \* 64: symbols of a block
  LengthLen,  \* 8: symbols of the length at the end
  HashLen     \* symbols of a digest

\* A digest is not as long as a message that SHA256 pads with a block too many.
ASSUME LensAssumption ==
  /\ BlockLen \in Nat /\ LengthLen \in Nat /\ HashLen \in Nat \ {0}
  /\ LengthLen + 2 <= BlockLen /\ HashLen <= BlockLen
  /\ HashLen # BlockLen - LengthLen - 1

Mark == <<"80">>
Zero == <<"00">>
Pad(s, n) == [i \in 1..n |-> IF i \in DOMAIN s THEN s[i] ELSE Zero]

\* A hasher is the blocks given to Round, what is in m_buffer, and the count.
Hasher(blocks, buffer, count) == [blocks |-> blocks, buffer |-> buffer, count |-> count]
Fresh == Hasher(<<>>, <<>>, 0)

\* Round takes a whole block, of which the rest is zeros, and empties the buffer.
Round(h) == Hasher(Append(h.blocks, Pad(h.buffer, BlockLen)), <<>>, h.count)
Put(h, x) == Hasher(h.blocks, Append(h.buffer, x), h.count)

\* The loop of Update.
FeedStep(h, x) == IF Len(h.buffer) + 1 = BlockLen THEN Round(Put(h, x)) ELSE Put(h, x)
Feed(h, data) ==
  LET fed[k \in 0..Len(data)] == IF k = 0 THEN h ELSE FeedStep(fed[k - 1], data[k])
  IN fed[Len(data)]

\* The count is added up at the end of Update.
Update(h, data) ==
  LET g == Feed(h, data) IN Hasher(g.blocks, g.buffer, h.count + Len(data))

LengthOf(n) == [i \in 1..LengthLen |-> <<"length", n, i>>]
AddLength(h) ==
  Append(h.blocks, Pad(h.buffer, BlockLen - LengthLen) \o LengthOf(h.count))

\* Mutant: a block that is full but for the length is closed.
Sha1NoRoomForLength(idx) == idx >= BlockLen - LengthLen

\* Whether the buffer is closed before the length; idx counts the mark.
Sha1Full(idx) == idx > BlockLen - LengthLen

\* m_bufferPtr does not count the mark, and 55 is the last place where the
\* length still fits behind it (Sha256.cpp:154).
Sha256Full(ptr) == ptr >= BlockLen - LengthLen - 1

\* Final of both: Sha1 counts the mark, SHA256 does not.
Full(alg, h) ==
  IF alg = "SHA1" THEN Sha1Full(Len(h.buffer) + 1) ELSE Sha256Full(Len(h.buffer))
Final(alg, h) ==
  AddLength(IF Full(alg, h) THEN Round(Put(h, Mark)) ELSE Put(h, Mark))

HashOf(alg, blocks) == [i \in 1..HashLen |-> <<alg, blocks, i>>]

\* The digest of a message that is given whole, or in two parts.
Digest(alg, data) == HashOf(alg, Final(alg, Update(Fresh, data)))
DigestOfTwo(alg, first, second) ==
  HashOf(alg, Final(alg, Update(Update(Fresh, first), second)))

-----------------------------------------------------------------------------
XorPad(pad, s) == [i \in DOMAIN s |-> <<pad, s[i]>>]

HMAC(alg, key, data) ==
  LET k == IF Len(key) > BlockLen THEN Digest(alg, key) ELSE key
      kdata == Pad(k, BlockLen)
  IN DigestOfTwo(alg, XorPad("opad", kdata), DigestOfTwo(alg, XorPad("ipad", kdata), data))

\* A sum of digests is the set of those that are added an odd number of times.
Plus(s, u) == (s \ {u}) \cup ({u} \ s)

\* Mutant: the counter starts at 0.
CountedFromZero(k) == k

BlockNo(k) == k + 1

\* t and u of block k of the derived key, after each iteration.
Iterations(alg, pw, salt, k, n) ==
  LET s[j \in 1..n] ==
        IF j = 1 THEN LET u == HMAC(alg, pw, Append(salt, <<"int", BlockNo(k)>>))
                      IN [t |-> {u}, u |-> u]
        ELSE LET u == HMAC(alg, pw, s[j - 1].u)
             IN [t |-> Plus(s[j - 1].t, u), u |-> u]
  IN s

PBKDF2(alg, pw, salt, iterations, len) ==
  LET t(k) == Iterations(alg, pw, salt, k, iterations)[iterations].t
  IN [n \in 1..len |-> <<t((n - 1) \div HashLen), (n - 1) % HashLen>>]
=============================================================================
