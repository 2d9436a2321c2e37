------------------------------- MODULE Codecs --------------------------------
(***************************************************************************)
(* Digests, ciphers, checksums, the sections of a DMG and the keys of a      *)
(* keybag, called one at a time, each against a definition of what it should *)
(* return that is not derived from the code.  A state holds a call and what  *)
(* it returned.                                                              *)
(***************************************************************************)
EXTENDS Digests, Ciphers, Checksums, Adc, FiniteSets

CONSTANTS
  Symbol, Messages, Passwords, Salts, Counts, KeyLens,  \* of digests
  Plains, Flips, Units, BlockNos,                       \* of ciphers
  Blocks,                                               \* of words
  Sections,                                             \* in ADC
  HmacLen, HmacSaltLen, UuidLen, InfoMax, WrappedLen, KdfSaltLen, Keybag  \* of keys

VARIABLES call, result
vars == <<call, result>>

Nothing == [op |-> "nothing"]
Algs == {"SHA1", "SHA256"}

-----------------------------------------------------------------------------
(* Digests and keys derived from passwords. *)
ASSUME MessagesAssumption ==
  /\ Messages \subseteq Seq(Symbol) /\ Passwords \subseteq Seq(Symbol) /\ Salts \subseteq Seq(Symbol)
  /\ Counts \subseteq Nat \ {0} /\ KeyLens \subseteq Nat

\* A message is given in two parts.
CallUpdate ==
  /\ call = Nothing
  /\ \E alg \in Algs, m \in Messages : \E k \in 0..Len(m) :
       /\ call' = [op |-> "Update", alg |-> alg, m |-> m]
       /\ result' = DigestOfTwo(alg, SubSeq(m, 1, k), SubSeq(m, k + 1, Len(m)))

CallPBKDF2 ==
  /\ call = Nothing
  /\ \E alg \in Algs, pw \in Passwords, salt \in Salts, iterations \in Counts, len \in KeyLens :
       /\ call' = [op |-> "PBKDF2", alg |-> alg, pw |-> pw, salt |-> salt,
                   iterations |-> iterations, len |-> len]
       /\ result' = PBKDF2(alg, pw, salt, iterations, len)

\* FIPS 180-4: the message, a mark, as few zeros as there may be, and the length.
Padded(m) ==
  LET zeros == CHOOSE z \in 0..(BlockLen - 1) : (Len(m) + 1 + z + LengthLen) % BlockLen = 0
  IN m \o <<Mark>> \o [i \in 1..zeros |-> Zero] \o [i \in 1..LengthLen |-> <<"length", Len(m), i>>]
FipsDigest(alg, m) ==
  LET p == Padded(m)
      blocks == [k \in 1..(Len(p) \div BlockLen) |-> SubSeq(p, BlockLen * (k - 1) + 1, BlockLen * k)]
  IN [i \in 1..HashLen |-> <<alg, blocks, i>>]

\* The length that SHA256 pads with a block too many.
Unlucky(alg, n) == alg = "SHA256" /\ n % BlockLen = BlockLen - LengthLen - 1

\* RFC 2104 and RFC 8018.
RfcHmac(alg, key, data) ==
  LET k == IF Len(key) > BlockLen THEN FipsDigest(alg, key) ELSE key
      pad(s) == [i \in 1..BlockLen |-> <<s, IF i <= Len(k) THEN k[i] ELSE Zero>>]
  IN FipsDigest(alg, pad("opad") \o FipsDigest(alg, pad("ipad") \o data))
RfcIterations(alg, pw, salt, k, iterations) ==
  LET v[j \in 1..iterations] ==
        RfcHmac(alg, pw, IF j = 1 THEN Append(salt, <<"int", k>>) ELSE v[j - 1])
  IN v
\* What is added up an odd number of times.
OddOnes(all, n) == {x \in {all[j] : j \in 1..n} : Cardinality({j \in 1..n : all[j] = x}) % 2 = 1}
RfcKey(alg, pw, salt, iterations, len) ==
  LET sum(k) == OddOnes(RfcIterations(alg, pw, salt, k, iterations), iterations)
  IN [n \in 1..len |-> <<sum(((n - 1) \div HashLen) + 1), (n - 1) % HashLen>>]

\* The digests are those of FIPS 180-4 however a message is cut into parts, and
\* derived keys those of RFC 8018; only messages that SHA256 pads with a
\* block too many (55 bytes and multiples of 64 more) are excused.
DigestsRight ==
  /\ (call.op = "Update" /\ ~Unlucky(call.alg, Len(call.m))) => result = FipsDigest(call.alg, call.m)
  /\ ( /\ call.op = "PBKDF2"
       /\ ~Unlucky(call.alg, Len(call.salt) + 1)
       /\ ~(Len(call.pw) > BlockLen /\ Unlucky(call.alg, Len(call.pw))) ) =>
       result = RfcKey(call.alg, call.pw, call.salt, call.iterations, call.len)

-----------------------------------------------------------------------------
(* Ciphers. *)
ASSUME PlainsAssumption ==
  /\ Plains \subseteq Seq(Uint64) \ {<<>>} /\ Flips \subseteq Uint64
  /\ Units \subseteq Seq(Seq(CipherBlocks)) /\ BlockNos \subseteq Nat

\* A key is wrapped, and a word of the result may be damaged.
CallUnwrap ==
  /\ call = Nothing
  /\ \E key \in Keys, plain \in Plains, v \in Flips : \E i \in 1..(Len(plain) + 1) :
       LET wrapped == Rfc3394_KeyWrap(plain, key)
           damaged == [wrapped EXCEPT ![i] = WordXor(@, v)]
       IN /\ call' = [op |-> "Unwrap", key |-> key, plain |-> plain, wrapped |-> wrapped, damaged |-> damaged]
          /\ result' = Rfc3394_KeyUnwrap(damaged, key)

\* A unit is encrypted under its number on the disk.
CallDecryptBlocks ==
  /\ call = Nothing
  /\ \E keys \in Keys \X Keys, block \in BlockNos, data \in Units :
       LET cipher == [k \in DOMAIN data |-> XtsEncrypt(keys, data[k], UnitNo(block, k))]
       IN /\ call' = [op |-> "DecryptBlocks", keys |-> keys, block |-> block, data |-> data, cipher |-> cipher]
          /\ result' = DecryptBlocks(keys, cipher, block)

\* IEEE 1619: the tweak is a number, of which each is that before, times x.
TimesX(w) ==
  LET twice == 2 * (w[1] + Half * w[2])
      t == twice % (Half * Half)
      words == <<t % Half, t \div Half>>
  IN IF twice >= Half * Half THEN <<WordXor(words[1], Poly), words[2]>> ELSE words
XtsUnit(keys, plain, unit) ==
  LET tweak[k \in 1..Len(plain)] == IF k = 1 THEN Enc[keys[2]][<<unit, 0>>] ELSE TimesX(tweak[k - 1])
  IN [k \in DOMAIN plain |-> Xor128(Enc[keys[1]][Xor128(plain[k], tweak[k])], tweak[k])]

\* What was wrapped is unwrapped, and what is unwrapped as right is what was
\* wrapped: nothing else has that wrapping.  Blocks encrypted as IEEE 1619 has
\* it, by the number of each unit of 512 bytes, are decrypted to their data.
CiphersInvert ==
  /\ call.op = "Unwrap" =>
       /\ call.damaged = call.wrapped => result = [ok |-> TRUE, plain |-> call.plain]
       /\ result.ok => Rfc3394_KeyWrap(result.plain, call.key) = call.damaged
  /\ call.op = "DecryptBlocks" =>
       /\ call.cipher = [k \in DOMAIN call.data |->
                           XtsUnit(call.keys, call.data[k], (call.block * PerBlock + k - 1) % Half)]
       /\ result = call.data

-----------------------------------------------------------------------------
(* The checksum of a block: two words, and what is checked. *)
Words == 0..Modulus
ASSUME BlocksAssumption == Blocks \subseteq Seq(Words)

\* A word is another, or two neighbours have changed places.
Replaced(data, i, v) == [data EXCEPT ![i] = v]
Swapped(data, i) == [data EXCEPT ![i] = data[i + 1], ![i + 1] = data[i]]
Damaged(data) ==
  {Replaced(data, i, v) : i \in DOMAIN data, v \in Words}
    \cup {Swapped(data, i) : i \in 1..(Len(data) - 1)}

\* The words with which the sums are zero; a second word that is zero may be high.
CheckOf(data, high) ==
  LET sums == Fletcher64(data, <<0, 0>>)
      first == (Modulus - ((sums[1] + sums[2]) % Modulus)) % Modulus
      second == (Modulus - ((sums[1] + first) % Modulus)) % Modulus
  IN <<first, IF high /\ second = 0 THEN Modulus ELSE second>>

CallVerifyBlock ==
  /\ call = Nothing
  /\ \E data \in Blocks, high \in BOOLEAN : \E read \in Damaged(data) :
       /\ call' = [op |-> "VerifyBlock", check |-> CheckOf(data, high), data |-> data, read |-> read]
       /\ result' = VerifyBlock(CheckOf(data, high) \o read)

SameWords(data, read) == \A i \in DOMAIN data : data[i] % Modulus = read[i] % Modulus

\* A block with its checksum verifies, unless the checksum is 0; one in which a
\* word is another, or two neighbours have changed places, does not, unless the
\* words are the same modulo 2^32 - 1.
DamageShows ==
  call.op = "VerifyBlock" =>
    result = ( /\ call.check \notin {<<0, 0>>, <<Modulus, Modulus>>}
               /\ SameWords(call.data, call.read) )

-----------------------------------------------------------------------------
(* Sections of a DMG in ADC: data, and what stands for it. *)
Bytes == 0..255
HighByte(x) == x \div 256
LowByte(x) == x % 256

\* Data from place o to place p is what was dist bytes before.
Repeats(data, o, p, dist) == \A j \in (o + 1)..p : data[j] = data[j - dist]
SameBytes(src, a, data, o, n) == \A j \in 1..n : src[a + j] = data[o + j]

\* The bytes from a to b stand for data from place o to place p: they are a run,
\* or the length and the place of a copy.
StandsFor(src, a, b, data, o, p) ==
  \/ /\ p - o \in 1..128
     /\ b = a + 1 + (p - o)
     /\ src[a] = 127 + (p - o)
     /\ SameBytes(src, a, data, o, p - o)
  \/ /\ p - o \in 3..18
     /\ b = a + 2
     /\ \E dist \in 1..o :
          /\ dist <= 1024 /\ Repeats(data, o, p, dist)
          /\ src[a] = 4 * ((p - o) - 3) + HighByte(dist - 1)
          /\ src[a + 1] = LowByte(dist - 1)
  \/ /\ p - o \in 4..67
     /\ b = a + 3
     /\ \E dist \in 1..o :
          /\ dist <= 65536 /\ Repeats(data, o, p, dist)
          /\ src[a] = 64 + ((p - o) - 4)
          /\ src[a + 1] = HighByte(dist - 1)
          /\ src[a + 2] = LowByte(dist - 1)

\* A section is data, the bytes that stand for it, and the places in both at which
\* one control byte follows another.
IsSection(s) ==
  /\ s.data \in Seq(Bytes) /\ s.src \in Seq(Bytes)
  /\ s.at \in Seq(1..(Len(s.src) + 1)) /\ s.out \in Seq(0..Len(s.data))
  /\ Len(s.at) = Len(s.out) /\ Len(s.at) >= 2
  /\ s.at[1] = 1 /\ s.at[Len(s.at)] = Len(s.src) + 1
  /\ s.out[1] = 0 /\ s.out[Len(s.at)] = Len(s.data)
  /\ \A t \in 1..(Len(s.at) - 1) :
       StandsFor(s.src, s.at[t], s.at[t + 1], s.data, s.out[t], s.out[t + 1])

ASSUME SectionsAssumption == \A s \in Sections : IsSection(s)

\* What is left when the last bytes are cut off.
Left(src, cut) == SubSeq(src, 1, Len(src) - cut)

CallDecompressADC ==
  /\ call = Nothing
  /\ \E s \in Sections : \E cut \in 0..Len(s.src) :
       /\ call' = [op |-> "DecompressADC", data |-> s.data, cut |-> cut]
       /\ result' = DecompressADC(Left(s.src, cut), Len(s.data))

\* A section is decompressed to the data it stands for, however it was
\* compressed; one that is cut off is not taken for whole.
SectionsWhole ==
  call.op = "DecompressADC" => result = (IF call.cut = 0 THEN call.data ELSE AdcCrash)

-----------------------------------------------------------------------------
(* Keys in a keybag, encoded in DER. *)
De == INSTANCE Der WITH HashLen <- HmacLen, SaltLen <- HmacSaltLen

\* What two bytes hold, as an entry's length in a keybag (ke_keylen), and contents with such a length.
Short(n) == n \in Nat /\ HighByte(n) \in Bytes
Strings == {s \in Seq(Bytes) : Short(Len(s))}

\* A field is left out, or it is there with a content.
Field(content) == {f \in Seq(content) : Len(f) <= 1}
Present(f) == f # <<>>

\* The digits of a number in base 256, the last of them first taken.
Quotients(n, width) ==
  LET q[i \in 0..width] == IF i = 0 THEN n ELSE HighByte(q[i - 1])
  IN q
BigEndian(n, width) == [j \in 1..width |-> LowByte(Quotients(n, width)[width - j])]
Numbers == {x \in Nat \X (0..127) : Quotients(x[1], x[2])[x[2]] = 0}

\* What a blob is made of.  The number of iterations is a number and how many bytes it is put in.
Contents ==
  [version : Field(Strings), hmac : Field(Strings), hmacsalt : Field(Strings),
   number : Field(Strings), uuid : Field(Strings), info : Field(Strings),
   wrapped : Field(Strings), iterations : Field(Numbers), salt : Field(Strings)]

\* X.690: a tag, the length in as few bytes as there may be, and the content.
LengthBytes(n) ==
  IF n < 128 THEN <<n>>
  ELSE IF n < 256 THEN <<129, n>>
  ELSE <<130, HighByte(n), LowByte(n)>>
Tlv(tag, s) == <<tag>> \o LengthBytes(Len(s)) \o s
FieldBytes(tag, f) == IF Present(f) THEN Tlv(tag, f[1]) ELSE <<>>
Digits(f) == IF Present(f) THEN <<BigEndian(f[1][1], f[1][2])>> ELSE <<>>
\* A header, the key's own fields nested behind its first three.
NestedFields(c) ==
  FieldBytes(128, c.number) \o FieldBytes(129, c.uuid) \o FieldBytes(130, c.info)
    \o FieldBytes(131, c.wrapped) \o FieldBytes(132, Digits(c.iterations)) \o FieldBytes(133, c.salt)
OuterFields(c) ==
  FieldBytes(128, c.version) \o FieldBytes(129, c.hmac) \o FieldBytes(130, c.hmacsalt) \o Tlv(163, NestedFields(c))
Blob(c) == Tlv(48, OuterFields(c))

ASSUME KeybagAssumption ==
  /\ {HmacLen, HmacSaltLen, UuidLen, WrappedLen, KdfSaltLen} \subseteq Nat \ {0}
  /\ InfoMax \in Nat
  /\ Keybag \subseteq Contents
  /\ \A c \in Keybag : Short(Len(NestedFields(c))) /\ Short(Len(OuterFields(c)))

\* A blob is cut off after some of its bytes.
CallDecodeKey ==
  /\ call = Nothing
  /\ \E c \in Keybag, kek \in BOOLEAN : \E k \in 0..Len(Blob(c)) :
       /\ call' = [op |-> "DecodeKey", kek |-> kek, contents |-> c, cut |-> Len(Blob(c)) - k]
       /\ result' = LET b == SubSeq(Blob(c), 1, k) IN IF kek THEN De!DecodeKEK(b) ELSE De!DecodeVEK(b)

Has(f, len) == Present(f) /\ Len(f[1]) = len
HasUpTo(f, len) == Present(f) /\ Len(f[1]) <= len
HeaderWhole(c) == HasUpTo(c.version, 8) /\ Has(c.hmac, HmacLen) /\ Has(c.hmacsalt, HmacSaltLen)
NestedWhole(c) == HasUpTo(c.number, 8) /\ Has(c.uuid, UuidLen) /\ HasUpTo(c.info, InfoMax)
KeyWhole(c, kek) ==
  /\ Has(c.wrapped, WrappedLen)
  /\ kek => Present(c.iterations) /\ c.iterations[1][2] <= 8 /\ Has(c.salt, KdfSaltLen)
KeyIn(c, kek) ==
  IF kek THEN [uuid |-> c.uuid[1], info |-> c.info[1], wrapped |-> c.wrapped[1],
               iterations |-> c.iterations[1][1], salt |-> c.salt[1]]
  ELSE [uuid |-> c.uuid[1], info |-> c.info[1], wrapped |-> c.wrapped[1]]

\* A whole key is decoded to what was encoded.  A key that is cut off, that lacks
\* fields or whose fields have another length is refused, not taken for another;
\* only where the fields up to the key's type are wrong may it crash instead.
HeadersWhole ==
  call.op = "DecodeKey" =>
    LET c == call.contents
    IN CASE call.cut > 0 \/ ~HeaderWhole(c) -> result = {De!Rejected}
         [] call.cut = 0 /\ HeaderWhole(c) /\ ~NestedWhole(c) ->
              result # {} /\ result \subseteq {De!Rejected, De!Crashed}
         [] call.cut = 0 /\ HeaderWhole(c) /\ NestedWhole(c) /\ ~KeyWhole(c, call.kek) ->
              result = {De!Rejected}
         [] OTHER -> result = {KeyIn(c, call.kek)}

-----------------------------------------------------------------------------
Return == call # Nothing /\ call' = Nothing /\ result' = Nothing

CodecsInit == call = Nothing /\ result = Nothing
CodecsNext ==
  \/ CallUpdate \/ CallPBKDF2 \/ CallUnwrap \/ CallDecryptBlocks \/ CallVerifyBlock
  \/ CallDecompressADC \/ CallDecodeKey \/ Return
CodecsSpec == CodecsInit /\ [][CodecsNext]_vars
=============================================================================
