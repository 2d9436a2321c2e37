---- MODULE MCAlgorithms ----
EXTENDS Algorithms, FindBin, Bitwise

\* Calls of the other algorithms until a node is searched first: they share nothing.
\* The steps are those of SearchNext.
MCInit == Init /\ SearchInit
Searches(A) == call = Nothing /\ A /\ UNCHANGED vars
MCNext ==
  \/ SearchInit /\ Next /\ UNCHANGED searchVars
  \/ \E n \in 0..MaxCnt, m \in FindMode :
       \E c \in NodeViews(n) : Searches(CallFindBin(n, c, m))
  \/ Searches(SearchStep)
MCSpec == MCInit /\ [][MCNext]_<<vars, searchVars>>

\* Words are of five bits: their bytes, of two bits and of three, are swapped.
MCWordXor(x, y) == x ^^ y
MCSwap(x) == (x % 4) * 8 + x \div 4

Numbered(name, n) == [i \in 1..n |-> <<name, i>>]
MCSymbol == {"m", "pw", "salt"} \X (1..(2 * BlockLen + 1))
MCMessages == {Numbered("m", n) : n \in 0..(2 * BlockLen + 1)}
MCPasswords == {Numbered("pw", n) : n \in {0, 1, BlockLen, BlockLen + 1, 2 * BlockLen - 3}}
MCSalts == {Numbered("salt", n) : n \in 0..4}

\* The cipher adds to the number of a block what depends on the key.
NumberOf(x) == Half * x[1] + x[2]
BlockOf(n) == <<n \div Half, n % Half>>
Size == Half * Half
MCEnc == [key \in Keys |-> [x \in CipherBlocks |-> BlockOf((5 * NumberOf(x) + 77 * key + 3) % Size)]]
MCDec == [key \in Keys |->
           [y \in CipherBlocks |-> BlockOf((205 * (NumberOf(y) + Size - ((77 * key + 3) % Size))) % Size)]]

MCPlains == UNION {[1..n -> {0, 21, 31}] : n \in {2, 4}}
MCUnits ==
  {[k \in 1..units |-> [j \in 1..4 |-> BlockOf((first + by * (k + 2 * j)) % Size)]] :
     units \in 1..3, first \in {0, 21, 1023}, by \in {0, 331}}
MCBlocks == [1..3 -> 0..Modulus]

\* Everything that may stand for data in ADC, from its k-th byte on.
RECURSIVE AdcOf(_, _)
AdcOf(data, k) ==
  LET left == Len(data) - k + 1
      repeats(dist, len) == \A j \in k..(k + len - 1) : data[j] = data[j - dist]
      copies(least) == {c \in (1..(k - 1)) \X (least..left) : repeats(c[1], c[2])}
      \* A control byte and what is with it, for n bytes of data.
      before(bytes, n) ==
        {[src |-> bytes \o s.src, at |-> <<1>> \o [t \in DOMAIN s.at |-> Len(bytes) + s.at[t]],
          out |-> <<k - 1>> \o s.out] : s \in AdcOf(data, k + n)}
  IN IF left = 0 THEN {[src |-> <<>>, at |-> <<1>>, out |-> <<k - 1>>]}
     ELSE UNION ( {before(<<127 + n>> \o SubSeq(data, k, k + n - 1), n) : n \in 1..left}
           \cup {before(<<4 * (c[2] - 3) + HighByte(c[1] - 1), LowByte(c[1] - 1)>>, c[2]) : c \in copies(3)}
           \cup {before(<<60 + c[2], HighByte(c[1] - 1), LowByte(c[1] - 1)>>, c[2]) : c \in copies(4)} )

\* A copy from far behind: 260 bytes, and the first five of them again.
FarSection(copy) ==
  LET far == [i \in 1..265 |-> ((i - 1) % 260) % 256]
  IN [data |-> far,
      src |-> <<255>> \o SubSeq(far, 1, 128) \o <<255>> \o SubSeq(far, 129, 256)
                \o <<131>> \o SubSeq(far, 257, 260) \o copy,
      at |-> <<1, 130, 259, 264, 264 + Len(copy)>>, out |-> <<0, 128, 256, 260, 265>>]
MCSections ==
  UNION {{[data |-> d, src |-> s.src, at |-> s.at, out |-> s.out] : s \in AdcOf(d, 1)} :
           d \in UNION {[1..n -> {1, 2}] : n \in 1..6}}
    \cup {FarSection(<<9, 3>>), FarSection(<<65, 1, 3>>)}

\* A key, and what may have happened to it: fields are left out, are a byte
\* shorter or longer, or are so long that their length takes up to three bytes.
MCKey ==
  LET of(name, len) == <<[i \in 1..len |-> (17 * name + i) % 256]>>
  IN [version |-> <<<<0>>>>, hmac |-> of(1, HmacLen), hmacsalt |-> of(2, HmacSaltLen),
      number |-> <<<<0>>>>, uuid |-> of(3, UuidLen), info |-> of(4, InfoMax),
      wrapped |-> of(5, WrappedLen), iterations |-> <<<<100000, 3>>>>, salt |-> of(6, KdfSaltLen)]
MCWithout(key, names) == [f \in DOMAIN key |-> IF f \in names THEN <<>> ELSE key[f]]
MCOther(f) ==
  CASE f \in {"version", "number"} -> {<<>>, [i \in 1..8 |-> 0], [i \in 1..9 |-> 0]}
    [] f = "iterations" -> {<<0, 0>>, <<258, 2>>, <<1, 8>>, <<1, 9>>}
    [] OTHER -> LET s == MCKey[f][1] IN {<<>>, Tail(s), Append(s, 128)}
                  \cup (IF f \in {"hmac", "info"} THEN {[i \in 1..n |-> i % 256] : n \in {127, 128, 300}} ELSE {})
MCKeybag ==
  {MCWithout(MCKey, names) : names \in {n \in SUBSET DOMAIN MCKey : Cardinality(n) <= 2}}
    \cup {MCWithout(MCKey, {"iterations", "salt"})}
    \cup UNION {{[MCKey EXCEPT ![f] = <<s>>] : s \in MCOther(f)} : f \in DOMAIN MCKey}
====
