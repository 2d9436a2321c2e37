----------------------------- MODULE Codecs_proofs -----------------------------
(***************************************************************************)
(* Proof that the digests, ciphers, checksums, decompressed sections and   *)
(* decoded keys of Codecs are what they should be, for messages, keys,     *)
(* blocks, sections and fields of every length.                            *)
(*                                                                         *)
(* The code computes them in loops.  For each loop there is a formula that *)
(* says what its state is after n rounds, and induction on n shows that it *)
(* is that.  The recursive functions of the model are taken from what they *)
(* are shown to satisfy, after one such function was shown to exist.       *)
(***************************************************************************)
EXTENDS Codecs, SequenceTheorems, FiniteSetTheorems, WellFoundedInduction, TLAPS

-----------------------------------------------------------------------------
(* Induction, without an operator as a parameter.                            *)

(* A set of naturals with 0, and with the next of each of its numbers, has   *)
(* them all.                                                                 *)
LEMMA NatSetInduction ==
  ASSUME NEW S \in SUBSET Nat, 0 \in S, \A n \in S : n + 1 \in S
  PROVE  S = Nat
<1> DEFINE T == Nat \ S
<1>1. SUFFICES ASSUME T # {} PROVE FALSE
  OBVIOUS
<1>2. \E x \in T : \A y \in T : ~ (<<y, x>> \in OpToRel(<, Nat))
  <2> HIDE DEF T
  <2>1. T \subseteq Nat
    BY DEF T
  <2> QED BY <1>1, <2>1, NatLessThanWellFounded, WFMin
<1>3. PICK x \in T : \A y \in T : ~ (y < x)
  BY <1>2 DEF OpToRel
<1>4. x - 1 \in Nat /\ x - 1 \notin T
  BY <1>3
<1> QED BY <1>3, <1>4

(* The same up to N, which is how the loops below are gone through.          *)
LEMMA UpToInduction ==
  ASSUME NEW N \in Nat, NEW S, 0 \in S,
         \A n \in 1..N : n - 1 \in S => n \in S
  PROVE  \A n \in 0..N : n \in S
<1> DEFINE T == {n \in Nat : n <= N => n \in S}
<1>1. T \in SUBSET Nat /\ 0 \in T
  OBVIOUS
<1>2. ASSUME NEW n \in T PROVE n + 1 \in T
  <2>1. n \in Nat /\ (n <= N => n \in S)
    BY <1>2
  <2>2. CASE n + 1 <= N
    <3>1. n + 1 \in 1..N /\ (n + 1) - 1 = n /\ n <= N
      BY <2>1, <2>2
    <3>2. n + 1 \in S
      BY <2>1, <3>1
    <3> QED BY <2>1, <3>2
  <2> QED BY <2>1, <2>2
<1>3. T = Nat
  <2> HIDE DEF T
  <2> QED BY <1>1, <1>2, NatSetInduction
<1> QED BY <1>3

\* f is defined from 0 to N by recursion.
IsRecursion(f, X, e, N, D) ==
  f \in [0..N -> X] /\ f[0] = e /\ \A n \in 1..N : f[n] = D[<<f[n - 1], n>>]

(* A function defined from 0 to N by recursion exists.                       *)
LEMMA Recursion ==
  ASSUME NEW X, NEW e \in X, NEW N \in Nat, NEW D \in [X \X (1..N) -> X]
  PROVE  \E f : IsRecursion(f, X, e, N, D)
<1> DEFINE Upto(n, g) == g \in [0..n -> X] /\ g[0] = e /\ \A i \in 1..n : g[i] = D[<<g[i - 1], i>>]
           S == {n \in 0..N : \E g : Upto(n, g)}
<1>1. 0 \in S
  <2> DEFINE h == [i \in 0..0 |-> e]
  <2>1. Upto(0, h)
    OBVIOUS
  <2> HIDE DEF h, Upto
  <2> QED BY <2>1
<1>2. ASSUME NEW n \in 1..N, n - 1 \in S PROVE n \in S
  <2>1. PICK g : Upto(n - 1, g)
    BY <1>2
  <2>2. n - 1 \in 0..(n - 1) /\ n - 1 \in Nat /\ n \in Nat
    OBVIOUS
  <2>3. g[n - 1] \in X
    BY <2>1, <2>2
  <2>4. D[<<g[n - 1], n>>] \in X
    BY <2>3
  <2> DEFINE h == [i \in 0..n |-> IF i = n THEN D[<<g[n - 1], n>>] ELSE g[i]]
  <2>5. h \in [0..n -> X]
    BY <2>1, <2>2, <2>4
  <2>6. h[0] = e
    BY <2>1, <2>2
  <2>7. ASSUME NEW i \in 1..n PROVE h[i] = D[<<h[i - 1], i>>]
    <3>1. h[i - 1] = g[i - 1]
      BY <2>2
    <3>2. CASE i = n
      <4>1. h[n] = D[<<g[n - 1], n>>]
        BY <2>2
      <4> HIDE DEF h
      <4> QED BY <3>1, <3>2, <4>1
    <3>3. CASE i # n
      <4>1. i \in 1..(n - 1)
        BY <3>3
      <4> QED BY <2>1, <3>1, <3>3, <4>1
    <3> QED BY <3>2, <3>3
  <2>8. Upto(n, h)
    BY <2>5, <2>6, <2>7
  <2> HIDE DEF h, Upto
  <2> QED BY <2>8
<1>3. N \in S
  <2> HIDE DEF S
  <2> QED BY <1>1, <1>2, UpToInduction
<1> QED BY <1>3 DEF IsRecursion

(* Arithmetic modulo a number.                                              *)
LEMMA ModWitness ==
  ASSUME NEW m \in Nat \ {0}, NEW x \in Int
  PROVE  \E q \in Int : x = m * q + (x % m)
<1>1. x = m * (x \div m) + (x % m) /\ x \div m \in Int
  OBVIOUS
<1> QED BY <1>1

(* A remainder is less than what is divided by.                              *)
LEMMA ModRange ==
  ASSUME NEW m \in Nat \ {0}, NEW x \in Int
  PROVE  x % m \in Nat /\ x % m < m
OBVIOUS

(* There is but one remainder.                                               *)
LEMMA ModUnique ==
  ASSUME NEW m \in Nat \ {0}, NEW x \in Int, NEW q \in Int, NEW r \in Nat, r < m, x = m * q + r
  PROVE  x % m = r
OBVIOUS

\* What a multiple of m is added to is what it was.
LEMMA ModShift ==
  ASSUME NEW m \in Nat \ {0}, NEW x \in Int, NEW k \in Int
  PROVE  (x + m * k) % m = x % m
<1>1. PICK q \in Int : x = m * q + (x % m)
  BY ModWitness
<1> DEFINE r == x % m
<1>2. r \in Nat /\ r < m
  BY ModRange
<1> HIDE DEF r
<1>3. m * (q + k) = m * q + m * k /\ q + k \in Int
  OBVIOUS
<1>4. x + m * k = m * (q + k) + r /\ x + m * k \in Int
  BY <1>1, <1>3 DEF r
<1>5. (x + m * k) % m = r
  BY <1>2, <1>3, <1>4, ModUnique
<1> QED BY <1>5 DEF r

(* A remainder may be taken before something is added.                       *)
LEMMA ModAdd ==
  ASSUME NEW m \in Nat \ {0}, NEW x \in Int, NEW y \in Int
  PROVE  (x + y) % m = ((x % m) + y) % m
<1>1. PICK q \in Int : x = m * q + (x % m)
  BY ModWitness
<1> DEFINE r == x % m
<1>2. r \in Nat
  BY ModRange
<1> HIDE DEF r
<1>3. x + y = (r + y) + m * q /\ r + y \in Int
  BY <1>1, <1>2 DEF r
<1>4. ((r + y) + m * q) % m = (r + y) % m
  BY <1>3, ModShift
<1> QED BY <1>3, <1>4 DEF r

\* Two numbers are the same modulo m just if their difference is 0.
LEMMA ModSame ==
  ASSUME NEW m \in Nat \ {0}, NEW x \in Int, NEW y \in Int
  PROVE  x % m = y % m <=> (x - y) % m = 0
<1>1. ASSUME x % m = y % m PROVE (x - y) % m = 0
  <2>1. PICK p \in Int : x = m * p + (x % m)
    BY ModWitness
  <2>2. PICK q \in Int : y = m * q + (y % m)
    BY ModWitness
  <2> DEFINE r == y % m
  <2>3. r \in Nat
    BY ModRange
  <2> HIDE DEF r
  <2>4. x = m * p + r /\ y = m * q + r
    BY <1>1, <2>1, <2>2 DEF r
  <2>5. m * (p - q) = m * p - m * q /\ p - q \in Int
    OBVIOUS
  <2>6. x - y = m * (p - q) + 0 /\ x - y \in Int
    BY <2>3, <2>4, <2>5
  <2> QED BY <2>5, <2>6, ModUnique
<1>2. ASSUME (x - y) % m = 0 PROVE x % m = y % m
  <2> DEFINE d == x - y
  <2>1. d \in Int
    OBVIOUS
  <2> HIDE DEF d
  <2>2. PICK q \in Int : d = m * q + (d % m)
    BY <2>1, ModWitness
  <2>3. m * q \in Int
    OBVIOUS
  <2>4. d = m * q
    BY <1>2, <2>2, <2>3 DEF d
  <2>5. x = y + m * q
    BY <2>1, <2>3, <2>4 DEF d
  <2> QED BY <2>5, ModShift
<1> QED BY <1>1, <1>2

(* What is added to both of two numbers matters not.                         *)
LEMMA ModPlus ==
  ASSUME NEW m \in Nat \ {0}, NEW x \in Int, NEW y \in Int, NEW z \in Int
  PROVE  x % m = y % m <=> (x + z) % m = (y + z) % m
<1>1. (x + z) - (y + z) = x - y
  OBVIOUS
<1>2. x + z \in Int /\ y + z \in Int
  OBVIOUS
<1>3. x % m = y % m <=> (x - y) % m = 0
  BY ModSame
<1>4. (x + z) % m = (y + z) % m <=> ((x + z) - (y + z)) % m = 0
  BY <1>2, ModSame
<1> QED BY <1>1, <1>3, <1>4

\* x and y are the same modulo m.
Congruent(x, y, m) == x % m = y % m

(* ModPlus, of Congruent.                                                    *)
LEMMA CongruentPlus ==
  ASSUME NEW m \in Nat \ {0}, NEW x \in Int, NEW y \in Int, NEW z \in Int, Congruent(x, y, m)
  PROVE  Congruent(x + z, y + z, m)
<1>1. x % m = y % m => (x + z) % m = (y + z) % m
  BY ModPlus, ZenonT(60)
<1>2. x % m = y % m
  BY DEF Congruent
<1> QED BY ONLY <1>1, <1>2 DEF Congruent

(* ModPlus in both directions, of Congruent.                                 *)
LEMMA CongruentBoth ==
  ASSUME NEW m \in Nat \ {0}, NEW x \in Int, NEW y \in Int, NEW z \in Int
  PROVE  Congruent(x, y, m) <=> Congruent(x + z, y + z, m)
<1>1. Congruent(x, y, m) => Congruent(x + z, y + z, m)
  BY CongruentPlus
<1>2. ASSUME Congruent(x + z, y + z, m) PROVE Congruent(x, y, m)
  <2>1. /\ x + z \in Int /\ y + z \in Int /\ 0 - z \in Int
        /\ (x + z) + (0 - z) = x /\ (y + z) + (0 - z) = y
    OBVIOUS
  <2>2. Congruent((x + z) + (0 - z), (y + z) + (0 - z), m)
    BY ONLY <1>2, <2>1, m \in Nat \ {0}, CongruentPlus
  <2> QED BY ONLY <2>1, <2>2
<1> QED BY <1>1, <1>2

(* Sums of numbers that are the same modulo m are the same.                  *)
LEMMA CongruentSum ==
  ASSUME NEW m, m \in Nat \ {0}, NEW x, x \in Int, NEW y, y \in Int, NEW z, z \in Int,
         NEW w, w \in Int, Congruent(x, y, m), Congruent(z, w, m)
  PROVE  Congruent(x + z, y + w, m)
<1>1. Congruent(x + z, y + z, m)
  BY CongruentPlus
<1>2. Congruent(z + y, w + y, m)
  BY CongruentPlus
<1>3. y + z = z + y /\ y + w = w + y
  OBVIOUS
<1>4. Congruent(y + z, y + w, m)
  BY <1>2, <1>3
<1> QED BY <1>1, <1>4 DEF Congruent

(* A remainder is its own remainder.                                         *)
LEMMA ModMod ==
  ASSUME NEW m \in Nat \ {0}, NEW x \in Int
  PROVE  (x % m) % m = x % m
<1>1. x % m \in Nat /\ x % m < m
  BY ModRange
<1> DEFINE r == x % m
<1> HIDE DEF r
<1>2. r = m * 0 + r
  BY <1>1 DEF r
<1> QED BY <1>1, <1>2, ModUnique DEF r

(* What a number lacks to a multiple of m, as CheckOf computes it, fills it  *)
(* up.                                                                       *)
LEMMA ModNegate ==
  ASSUME NEW m \in Nat \ {0}, NEW x \in Int
  PROVE  (x + ((m - (x % m)) % m)) % m = 0
<1> DEFINE r == x % m
           y == m - r
<1>1. r \in Nat /\ r < m /\ y \in Int
  BY ModRange
<1>2. (x + (y % m)) % m = ((y % m) + x) % m
  <2>1. y % m \in Int
    BY <1>1, ModRange
  <2> QED BY <2>1
<1>3. ((y % m) + x) % m = (y + x) % m
  BY <1>1, ModAdd
<1>4. (y + x) % m = (r + y) % m
  <2>1. (x + y) % m = (r + y) % m
    BY <1>1, ModAdd
  <2>2. y + x = x + y
    BY <1>1
  <2> QED BY <2>1, <2>2
<1> HIDE DEF r
<1>5. r + y = m * 1 + 0 /\ r + y \in Int
  BY <1>1
<1>6. (r + y) % m = 0
  BY <1>5, ModUnique
<1> QED BY <1>2, <1>3, <1>4, <1>6 DEF r

-----------------------------------------------------------------------------
(* The checksum of a block.                                                  *)

\* a and b are the sums of the words of data, from x and y on.
Sums(data, x, y, a, b) ==
  /\ a \in [0..Len(data) -> Nat] /\ b \in [0..Len(data) -> Nat]
  /\ a[0] = x /\ b[0] = y
  /\ \A k \in 1..Len(data) : a[k] = a[k - 1] + data[k] /\ b[k] = b[k - 1] + a[k - 1] + data[k]

(* What Fletcher64 returns.                                                 *)
LEMMA FletcherSums ==
  ASSUME NEW data, data \in Seq(Nat), NEW x, x \in Nat, NEW y, y \in Nat
  PROVE  \E a, b : /\ Sums(data, x, y, a, b)
                   /\ Fletcher64(data, <<x, y>>) =
                        <<a[Len(data)] % Modulus, b[Len(data)] % Modulus>>
<1> DEFINE N == Len(data)
           Is(f) == f = [k \in 0..N |->
                           IF k = 0 THEN <<x, y>>
                           ELSE <<f[k - 1][1] + data[k], f[k - 1][2] + f[k - 1][1] + data[k]>>]
<1>1. N \in Nat /\ \A k \in 1..N : data[k] \in Nat
  OBVIOUS
<1>2. \E f : Is(f)
  <2> DEFINE X == Nat \X Nat
             D == [p \in X \X (1..N) |-> <<p[1][1] + data[p[2]], p[1][2] + p[1][1] + data[p[2]]>>]
  <2>1. D \in [X \X (1..N) -> X]
    <3>1. \A p \in X \X (1..N) : p[1][1] \in Nat /\ p[1][2] \in Nat /\ data[p[2]] \in Nat
      BY <1>1
    <3>2. \A p \in X \X (1..N) : <<p[1][1] + data[p[2]], p[1][2] + p[1][1] + data[p[2]]>> \in X
      BY <3>1
    <3> QED BY <3>2
  <2>2. PICK f \in [0..N -> X] : f[0] = <<x, y>> /\ \A n \in 1..N : f[n] = D[<<f[n - 1], n>>]
    <3> DEFINE e == <<x, y>>
    <3>1. e \in X
      OBVIOUS
    <3>2. N \in Nat
      BY <1>1
    <3> HIDE DEF D, X, N, e
    <3>3. \E f : IsRecursion(f, X, e, N, D)
      BY ONLY <2>1, <3>1, <3>2, Recursion
    <3> QED BY <3>3 DEF e, IsRecursion
  <2>3. ASSUME NEW k \in 0..N
        PROVE  f[k] = IF k = 0 THEN <<x, y>>
                      ELSE <<f[k - 1][1] + data[k], f[k - 1][2] + f[k - 1][1] + data[k]>>
    <3>1. CASE k = 0
      BY <2>2, <3>1
    <3>2. CASE k # 0
      <4>1. k \in 1..N /\ k - 1 \in 0..N
        BY <1>1, <3>2
      <4>2. f[k] = D[<<f[k - 1], k>>] /\ f[k - 1] \in X
        BY <2>2, <4>1
      <4>3. <<f[k - 1], k>> \in X \X (1..N)
        BY <4>1, <4>2
      <4>4. <<f[k - 1], k>>[1] = f[k - 1] /\ <<f[k - 1], k>>[2] = k
        OBVIOUS
      <4>5. D[<<f[k - 1], k>>] = <<f[k - 1][1] + data[k], f[k - 1][2] + f[k - 1][1] + data[k]>>
        BY <4>3, <4>4
      <4> QED BY <3>2, <4>2, <4>5
    <3> QED BY <3>1, <3>2
  <2>4. f = [k \in 0..N |-> f[k]]
    BY <2>2
  <2>5. Is(f)
    BY ONLY <2>3, <2>4
  <2> QED BY <2>5
<1> DEFINE f == CHOOSE g : Is(g)
<1>3. Fletcher64(data, <<x, y>>) = <<f[N][1] % Modulus, f[N][2] % Modulus>>
  BY DEF Fletcher64
<1>4. Is(f)
  BY <1>2
<1> HIDE DEF f
<1>5. f[0] = <<x, y>> /\ \A k \in 1..N : f[k] = <<f[k - 1][1] + data[k], f[k - 1][2] + f[k - 1][1] + data[k]>>
  <2>1. \A k \in 0..N : f[k] = IF k = 0 THEN <<x, y>>
                      ELSE <<f[k - 1][1] + data[k], f[k - 1][2] + f[k - 1][1] + data[k]>>
    BY ONLY <1>4
  <2>2. 0 \in 0..N /\ \A k \in 1..N : k \in 0..N /\ k # 0
    BY <1>1
  <2> QED BY ONLY <2>1, <2>2
<1> HIDE DEF Is, N
<1>6. \A k \in 0..N : f[k][1] \in Nat /\ f[k][2] \in Nat
  <2> DEFINE S == {k \in 0..N : f[k][1] \in Nat /\ f[k][2] \in Nat}
  <2>1. 0 \in S
    BY <1>1, <1>5
  <2>2. ASSUME NEW k \in 1..N, k - 1 \in S PROVE k \in S
    <3>1. f[k - 1][1] \in Nat /\ f[k - 1][2] \in Nat /\ data[k] \in Nat
      BY <1>1, <2>2
    <3>2. f[k][1] = f[k - 1][1] + data[k] /\ f[k][2] = f[k - 1][2] + f[k - 1][1] + data[k]
      BY <1>5
    <3>3. f[k][1] \in Nat /\ f[k][2] \in Nat /\ k \in 0..N
      BY <1>1, <3>1, <3>2
    <3> QED BY <3>3
  <2> HIDE DEF S
  <2>3. \A k \in 0..N : k \in S
    BY ONLY <1>1, <2>1, <2>2, UpToInduction
  <2> QED BY <2>3 DEF S
<1> DEFINE a == [k \in 0..N |-> f[k][1]]
           b == [k \in 0..N |-> f[k][2]]
<1>7. a \in [0..N -> Nat] /\ b \in [0..N -> Nat] /\ a[0] = x /\ b[0] = y
  BY <1>1, <1>5, <1>6
<1>8. ASSUME NEW k \in 1..N
      PROVE  a[k] = a[k - 1] + data[k] /\ b[k] = b[k - 1] + a[k - 1] + data[k]
  <2>1. k \in 0..N /\ k - 1 \in 0..N
    BY <1>1
  <2>2. f[k][1] = f[k - 1][1] + data[k] /\ f[k][2] = f[k - 1][2] + f[k - 1][1] + data[k]
    BY <1>5
  <2> QED BY <2>1, <2>2
<1>9. a[N] = f[N][1] /\ b[N] = f[N][2]
  BY <1>1
<1> HIDE DEF a, b
<1>10. Sums(data, x, y, a, b)
  BY <1>7, <1>8 DEF Sums, N
<1>11. Fletcher64(data, <<x, y>>) = <<a[Len(data)] % Modulus, b[Len(data)] % Modulus>>
  BY <1>3, <1>9 DEF N
<1> QED BY ONLY <1>10, <1>11

\* The word at k has been added to the sums.
Added(data, a, b, k) ==
  /\ a[k - 1] \in Nat /\ b[k - 1] \in Nat /\ data[k] \in Nat /\ a[k] \in Nat /\ b[k] \in Nat
  /\ a[k] = a[k - 1] + data[k] /\ b[k] = b[k - 1] + a[k - 1] + data[k]
  /\ b[k] = b[k - 1] + a[k]

(* One word more is added to the sums.                                       *)
LEMMA SumsStep ==
  ASSUME NEW data, data \in Seq(Nat), NEW x, NEW y, NEW a, NEW b, Sums(data, x, y, a, b)
  PROVE  \A k \in 1..Len(data) : Added(data, a, b, k)
<1> SUFFICES ASSUME NEW k \in 1..Len(data) PROVE Added(data, a, b, k)
  OBVIOUS
<1>1. Len(data) \in Nat /\ data[k] \in Nat
  OBVIOUS
<1> DEFINE N == Len(data)
<1> HIDE DEF N
<1>2. k \in 0..N /\ k - 1 \in 0..N
  BY <1>1 DEF N
<1>3. /\ a \in [0..N -> Nat] /\ b \in [0..N -> Nat]
      /\ a[k] = a[k - 1] + data[k] /\ b[k] = b[k - 1] + a[k - 1] + data[k]
  BY DEF Sums, N
<1>4. a[k - 1] \in Nat /\ b[k - 1] \in Nat /\ a[k] \in Nat /\ b[k] \in Nat
  BY ONLY <1>2, <1>3
<1>5. b[k] = b[k - 1] + a[k]
  BY ONLY <1>1, <1>3, <1>4
<1> QED BY <1>1, <1>3, <1>4, <1>5 DEF Added

(* The sums of words that are the same modulo Modulus are the same.         *)
LEMMA SameWordsSameSums ==
  ASSUME NEW data, data \in Seq(Nat), NEW read, read \in Seq(Nat), Len(read) = Len(data),
         \A i \in DOMAIN data : Congruent(data[i], read[i], Modulus),
         NEW a, NEW b, Sums(data, 0, 0, a, b), NEW c, NEW d, Sums(read, 0, 0, c, d)
  PROVE  /\ Congruent(a[Len(data)], c[Len(data)], Modulus)
         /\ Congruent(b[Len(data)], d[Len(data)], Modulus)
<1> DEFINE N == Len(data)
           Same(k) == Congruent(a[k], c[k], Modulus) /\ Congruent(b[k], d[k], Modulus)
           S == {k \in 0..N : Same(k)}
<1>1. N \in Nat /\ DOMAIN data = 1..N /\ Len(read) = N
  OBVIOUS
<1>2. 0 \in S
  BY <1>1 DEF Sums, Congruent
<1>3. \A k \in 1..N : Added(data, a, b, k) /\ Added(read, c, d, k)
  BY <1>1, SumsStep
<1>4. ASSUME NEW k \in 1..N, k - 1 \in S PROVE k \in S
  <2>1. Added(data, a, b, k) /\ Added(read, c, d, k) /\ Congruent(data[k], read[k], Modulus)
    BY <1>1, <1>3
  <2>2. Same(k - 1) /\ k \in 0..N
    BY <1>1, <1>4
  <2>3. Modulus \in Nat \ {0}
    BY ModulusAssumption
  <2>4. Congruent(a[k], c[k], Modulus)
    <3>1. a[k - 1] \in Int /\ c[k - 1] \in Int /\ data[k] \in Int /\ read[k] \in Int
      <4>1. a[k - 1] \in Int /\ data[k] \in Int
        BY ONLY SMTT(30), <2>1 DEF Added
      <4>2. c[k - 1] \in Int /\ read[k] \in Int
        BY ONLY <2>1 DEF Added
      <4> QED BY ONLY <4>1, <4>2
    <3>2. a[k] = a[k - 1] + data[k] /\ c[k] = c[k - 1] + read[k]
      BY ONLY <2>1 DEF Added
    <3>3. Congruent(a[k - 1] + data[k], c[k - 1] + read[k], Modulus)
      BY ONLY <2>1, <2>2, <2>3, <3>1, CongruentSum
    <3> QED BY ONLY <3>2, <3>3
  <2>5. Congruent(b[k], d[k], Modulus)
    <3>1. /\ b[k - 1] \in Int /\ d[k - 1] \in Int /\ a[k] \in Int /\ c[k] \in Int
          /\ b[k] = b[k - 1] + a[k] /\ d[k] = d[k - 1] + c[k]
      BY ONLY <2>1 DEF Added
    <3>2. Congruent(b[k - 1] + a[k], d[k - 1] + c[k], Modulus)
      BY ONLY <2>2, <2>3, <2>4, <3>1, CongruentSum
    <3> QED BY ONLY <3>1, <3>2
  <2> QED BY <2>2, <2>4, <2>5
<1>5. \A k \in 0..N : k \in S
  <2> HIDE DEF S, N
  <2> QED BY ONLY <1>1, <1>2, <1>4, UpToInduction
<1> QED BY <1>1, <1>5

(* A word that is another is seen in the sum of the words.                  *)
LEMMA ReplacedSum ==
  ASSUME NEW data, data \in Seq(Nat), NEW i, i \in DOMAIN data, NEW v, v \in Nat, NEW read,
         read = Replaced(data, i, v),
         NEW a, NEW b, Sums(data, 0, 0, a, b), NEW c, NEW d, Sums(read, 0, 0, c, d)
  PROVE  c[Len(data)] = a[Len(data)] + (v - data[i])
<1> DEFINE N == Len(data)
           e == v - data[i]
           Moved(k) == c[k] = a[k] + (IF k >= i THEN e ELSE 0)
           S == {k \in 0..N : Moved(k)}
<1>1. /\ N \in Nat /\ DOMAIN data = 1..N /\ i \in 1..N /\ Len(read) = N /\ read \in Seq(Nat)
      /\ data[i] \in Nat /\ read[i] = v /\ \A k \in 1..N : k # i => read[k] = data[k]
  BY DEF Replaced
<1>2. 0 \in S
  BY <1>1 DEF Sums
<1>3. \A k \in 1..N : Added(data, a, b, k) /\ Added(read, c, d, k)
  BY <1>1, SumsStep
<1>4. ASSUME NEW k \in 1..N, k - 1 \in S PROVE k \in S
  <2>1. Added(data, a, b, k) /\ Added(read, c, d, k) /\ Moved(k - 1) /\ v \in Nat
    BY <1>3, <1>4
  <2>2. Moved(k)
    <3>1. /\ a[k - 1] \in Nat /\ data[k] \in Nat /\ data[i] \in Nat /\ k \in Nat /\ i \in Nat
          /\ v \in Nat /\ read[k] \in Nat
      BY ONLY <1>1, <2>1, k \in 1..N DEF Added
    <3>2. a[k] = a[k - 1] + data[k] /\ c[k] = c[k - 1] + read[k]
      BY ONLY <2>1 DEF Added
    <3>3. c[k - 1] = a[k - 1] + (IF k - 1 >= i THEN e ELSE 0)
      BY <2>1
    <3>4. CASE k = i
      <4>1. read[k] = v /\ data[k] = data[i]
        BY <1>1, <3>4
      <4>2. c[k] = a[k] + e
        BY ONLY <3>1, <3>2, <3>3, <3>4, <4>1
      <4> QED BY ONLY <3>1, <3>4, <4>2
    <3>5. CASE k > i
      <4>1. read[k] = data[k]
        BY <1>1, <3>1, <3>5
      <4>2. c[k] = a[k] + e
        BY ONLY <3>1, <3>2, <3>3, <3>5, <4>1
      <4> QED BY ONLY <3>1, <3>5, <4>2
    <3>6. CASE k < i
      <4>1. read[k] = data[k]
        BY <1>1, <3>1, <3>6
      <4>2. c[k] = a[k] + 0
        BY ONLY <3>1, <3>2, <3>3, <3>6, <4>1
      <4> QED BY ONLY <3>1, <3>6, <4>2
    <3> QED BY ONLY <3>1, <3>4, <3>5, <3>6
  <2>3. k \in 0..N
    BY <1>1
  <2> QED BY <2>2, <2>3
<1>5. \A k \in 0..N : k \in S
  <2> HIDE DEF S, N
  <2> QED BY ONLY <1>1, <1>2, <1>4, UpToInduction
<1> QED BY <1>1, <1>5

(* Two neighbours that have changed places are seen in the sum of the sums. *)
LEMMA SwappedSum ==
  ASSUME NEW data, data \in Seq(Nat), NEW i, i \in 1..(Len(data) - 1), NEW read,
         read = Swapped(data, i),
         NEW a, NEW b, Sums(data, 0, 0, a, b), NEW c, NEW d, Sums(read, 0, 0, c, d)
  PROVE  d[Len(data)] = b[Len(data)] + (data[i + 1] - data[i])
<1> DEFINE N == Len(data)
           e == data[i + 1] - data[i]
           Moved(k) == /\ c[k] = a[k] + (IF k = i THEN e ELSE 0)
                       /\ d[k] = b[k] + (IF k >= i THEN e ELSE 0)
           S == {k \in 0..N : Moved(k)}
<1>1. /\ N \in Nat /\ DOMAIN data = 1..N /\ i \in 1..N /\ i + 1 \in 1..N /\ i + 1 <= N
      /\ data[i] \in Nat /\ data[i + 1] \in Nat
  OBVIOUS
<1>2. /\ Len(read) = N /\ read \in Seq(Nat) /\ read[i] = data[i + 1] /\ read[i + 1] = data[i]
      /\ \A k \in 1..N : k # i /\ k # i + 1 => read[k] = data[k]
  BY <1>1 DEF Swapped
<1>3. 0 \in S
  BY <1>1 DEF Sums
<1>4. \A k \in 1..N : Added(data, a, b, k) /\ Added(read, c, d, k)
  BY <1>1, <1>2, SumsStep
<1>5. ASSUME NEW k \in 1..N, k - 1 \in S PROVE k \in S
  <2>1. Added(data, a, b, k) /\ Added(read, c, d, k) /\ Moved(k - 1)
    BY <1>4, <1>5
  <2>2. Moved(k)
    <3>1. /\ a[k - 1] \in Nat /\ b[k - 1] \in Nat /\ data[k] \in Nat /\ read[k] \in Nat
          /\ data[i] \in Nat /\ data[i + 1] \in Nat /\ k \in Nat /\ i \in Nat
      BY ONLY <1>1, <2>1, k \in 1..N DEF Added
    <3>2. /\ a[k] = a[k - 1] + data[k] /\ c[k] = c[k - 1] + read[k]
      BY ONLY <2>1 DEF Added
    <3>3. /\ b[k] = b[k - 1] + a[k - 1] + data[k] /\ d[k] = d[k - 1] + c[k - 1] + read[k]
      BY ONLY <2>1 DEF Added
    <3>4. c[k - 1] = a[k - 1] + (IF k - 1 = i THEN e ELSE 0)
      BY <2>1
    <3>5. d[k - 1] = b[k - 1] + (IF k - 1 >= i THEN e ELSE 0)
      BY <2>1
    <3>6. CASE k = i
      <4>1. read[k] = data[i + 1] /\ data[k] = data[i]
        BY <1>2, <3>6
      <4>2. c[k] = a[k] + e
        BY ONLY <3>1, <3>2, <3>4, <3>6, <4>1
      <4>3. d[k] = b[k] + e
        BY ONLY <3>1, <3>3, <3>4, <3>5, <3>6, <4>1
      <4> QED BY ONLY <3>1, <3>6, <4>2, <4>3
    <3>7. CASE k = i + 1
      <4>1. read[k] = data[i] /\ data[k] = data[i + 1]
        BY <1>2, <3>7
      <4>2. c[k] = a[k] + 0
        BY ONLY <3>1, <3>2, <3>4, <3>7, <4>1
      <4>3. d[k] = b[k] + e
        BY ONLY <3>1, <3>3, <3>4, <3>5, <3>7, <4>1
      <4> QED BY ONLY <3>1, <3>7, <4>2, <4>3
    <3>8. CASE k > i + 1
      <4>1. read[k] = data[k]
        BY <1>2, <3>1, <3>8
      <4>2. c[k] = a[k] + 0
        BY ONLY <3>1, <3>2, <3>4, <3>8, <4>1
      <4>3. d[k] = b[k] + e
        BY ONLY <3>1, <3>3, <3>4, <3>5, <3>8, <4>1
      <4> QED BY ONLY <3>1, <3>8, <4>2, <4>3
    <3>9. CASE k < i
      <4>1. read[k] = data[k]
        BY <1>2, <3>1, <3>9
      <4>2. c[k] = a[k] + 0
        BY ONLY <3>1, <3>2, <3>4, <3>9, <4>1
      <4>3. d[k] = b[k] + 0
        BY ONLY <3>1, <3>3, <3>4, <3>5, <3>9, <4>1
      <4> QED BY ONLY <3>1, <3>9, <4>2, <4>3
    <3> QED BY ONLY <3>1, <3>6, <3>7, <3>8, <3>9
  <2>3. k \in 0..N
    BY <1>1
  <2> QED BY <2>2, <2>3
<1>6. \A k \in 0..N : k \in S
  <2> HIDE DEF S, N
  <2> QED BY ONLY <1>1, <1>3, <1>5, UpToInduction
<1>7. N >= i
  BY <1>1
<1> QED BY <1>1, <1>6, <1>7

(* Fletcher64 of the two words of a checksum.                                *)
LEMMA FletcherOfTwo ==
  ASSUME NEW c, c \in Nat, NEW d, d \in Nat, NEW x, x \in Nat, NEW y, y \in Nat
  PROVE  Fletcher64(<<c, d>>, <<x, y>>) =
           <<(x + c + d) % Modulus, (y + (x + c) + (x + c + d)) % Modulus>>
<1> DEFINE w == <<c, d>>
<1>1. w \in Seq(Nat) /\ Len(w) = 2 /\ w[1] = c /\ w[2] = d
  OBVIOUS
<1> HIDE DEF w
<1>2. PICK a, b : Sums(w, x, y, a, b) /\ Fletcher64(w, <<x, y>>) = <<a[2] % Modulus, b[2] % Modulus>>
  <2>1. \E a, b : /\ Sums(w, x, y, a, b)
                  /\ Fletcher64(w, <<x, y>>) = <<a[Len(w)] % Modulus, b[Len(w)] % Modulus>>
    BY <1>1, FletcherSums
  <2> QED BY <1>1, <2>1
<1>3. a[0] = x /\ b[0] = y /\ a[1] = a[0] + c /\ b[1] = b[0] + a[0] + c /\ a[2] = a[1] + d /\ b[2] = b[1] + a[1] + d
  BY <1>1, <1>2 DEF Sums
<1>4. a[2] = x + c + d /\ b[2] = y + (x + c) + (x + c + d)
  BY ONLY <1>3, c \in Nat, d \in Nat, x \in Nat, y \in Nat
<1> QED BY ONLY <1>2, <1>4 DEF w

\* The two words of the checksum of data whose sums are p and q.
IsCheck(m, p, q, first, second) ==
  /\ first = (m - ((p + q) % m)) % m
  /\ \/ second = (m - ((p + first) % m)) % m
     \/ (m - ((p + first) % m)) % m = 0 /\ second = m

\* What the two words of a checksum add.
LEMMA CheckAdds ==
  ASSUME NEW m, m \in Nat \ {0}, NEW p, p \in Nat, NEW q, q \in Nat, NEW first, NEW second, NEW high,
         IsCheck(m, p, q, first, second)
  PROVE  /\ first \in Nat /\ second \in Nat
         /\ Congruent(p + q + first, 0, m) /\ Congruent(p + first + second, 0, m)
<1>0. /\ first = (m - ((p + q) % m)) % m
      /\ \/ second = (m - ((p + first) % m)) % m
         \/ (m - ((p + first) % m)) % m = 0 /\ second = m
  BY DEF IsCheck
<1>1. first \in Nat
  <2>1. p + q \in Int
    OBVIOUS
  <2>2. (p + q) % m \in Nat
    BY ONLY <2>1, m \in Nat \ {0}, ModRange
  <2> QED BY <1>0, <2>2, ModRange
<1>2. p + q \in Int /\ p + first \in Int
  BY <1>1
<1>3. ((p + q) + first) % m = 0
  BY ONLY <1>0, <1>2, m \in Nat \ {0}, ModNegate
<1> DEFINE least == (m - ((p + first) % m)) % m
<1>4. least \in Nat
  <2>1. (p + first) % m \in Nat
    BY ONLY <1>2, m \in Nat \ {0}, ModRange
  <2> QED BY <2>1, ModRange
<1>5. ((p + first) + least) % m = 0
  BY ONLY <1>2, m \in Nat \ {0}, ModNegate
<1>6. second = least \/ (least = 0 /\ second = m)
  BY <1>0
<1> HIDE DEF least
<1>7. second \in Nat
  BY <1>4, <1>6
<1>8. ((p + first) + second) % m = 0
  <2>1. CASE second = least
    BY <1>5, <2>1
  <2>2. CASE least = 0 /\ second = m
    <3>1. PICK k \in Int : k = 1
      OBVIOUS
    <3>2. ((p + first) + m * k) % m = (p + first) % m
      BY ONLY <1>2, <3>1, m \in Nat \ {0}, ModShift
    <3>3. (p + first) + second = (p + first) + m * k
      BY ONLY <1>2, <2>2, <3>1, m \in Nat \ {0}
    <3>4. (p + first) + least = p + first
      BY ONLY <1>2, <2>2
    <3> QED BY ONLY <1>5, <3>2, <3>3, <3>4
  <2> QED BY <1>6, <2>1, <2>2
<1>9. 0 % m = 0
  BY ModUnique
<1> QED BY <1>1, <1>3, <1>7, <1>8, <1>9 DEF Congruent

Compared(m, p, q, u, v, first, second) ==
  /\ Congruent(u + first + second, 0, m) <=> Congruent(u, p, m)
  /\ Congruent(u, p, m) =>
       ( Congruent(v + (u + first) + (u + first + second), 0, m) <=> Congruent(v, q, m) )

\* What is read under the checksum adds up to zero just if its sums are those of
\* what the checksum is of.
LEMMA SumsCompared ==
  ASSUME NEW m, m \in Nat \ {0}, NEW p, p \in Nat, NEW q, q \in Nat, NEW u, u \in Nat, NEW v, v \in Nat,
         NEW first, first \in Nat, NEW second, second \in Nat,
         Congruent(p + q + first, 0, m), Congruent(p + first + second, 0, m)
  PROVE  Compared(m, p, q, u, v, first, second)
<1>1. ASSUME NEW x \in Int, NEW y \in Int, NEW z \in Int, Congruent(y + z, 0, m)
      PROVE  Congruent(x + z, 0, m) <=> Congruent(x, y, m)
  <2>1. Congruent(x, y, m) <=> Congruent(x + z, y + z, m)
    BY ONLY m \in Nat \ {0}, x \in Int, y \in Int, z \in Int, CongruentBoth
  <2>2. (y + z) % m = 0 % m
    BY <1>1 DEF Congruent
  <2> QED BY ONLY <2>1, <2>2 DEF Congruent
<1>2. Congruent(u + first + second, 0, m) <=> Congruent(u, p, m)
  <2>1. /\ p \in Int /\ u \in Int /\ first + second \in Int
        /\ p + (first + second) = p + first + second /\ u + (first + second) = u + first + second
    OBVIOUS
  <2>2. Congruent(p + (first + second), 0, m)
    BY <2>1
  <2>3. Congruent(u + (first + second), 0, m) <=> Congruent(u, p, m)
    BY ONLY <1>1, <2>1, <2>2
  <2> QED BY ONLY <2>1, <2>3
<1>3. ASSUME Congruent(u, p, m)
      PROVE  Congruent(v + (u + first) + (u + first + second), 0, m) <=> Congruent(v, q, m)
  <2> DEFINE z == (u + first) + (u + first + second)
  <2>1. /\ q \in Int /\ v \in Int /\ z \in Int /\ p \in Int /\ u \in Int /\ q + first \in Int
        /\ u + first + second \in Int /\ u + q + first \in Int
        /\ v + z = v + (u + first) + (u + first + second)
        /\ q + z = (u + q + first) + (u + first + second)
        /\ u + (q + first) = u + q + first /\ p + (q + first) = p + q + first
    OBVIOUS
  <2>2. Congruent(u + first + second, 0, m)
    BY <1>2, <1>3
  <2>3. Congruent(u + (q + first), 0, m)
    <3>1. Congruent(p + (q + first), 0, m)
      BY <2>1
    <3>2. Congruent(u + (q + first), 0, m) <=> Congruent(u, p, m)
      BY ONLY <1>1, <2>1, <3>1
    <3> QED BY <1>3, <3>2
  <2>4. Congruent((u + q + first) + (u + first + second), 0 + 0, m)
    <3>1. Congruent(u + q + first, 0, m) /\ 0 \in Int
      BY <2>1, <2>3
    <3> QED BY ONLY <2>1, <2>2, <3>1, m \in Nat \ {0}, CongruentSum
  <2>5. Congruent(q + z, 0, m)
    BY <2>1, <2>4
  <2> HIDE DEF z
  <2>6. Congruent(v + z, 0, m) <=> Congruent(v, q, m)
    BY ONLY <1>1, <2>1, <2>5
  <2> QED BY ONLY <2>1, <2>6
<1> QED BY <1>2, <1>3 DEF Compared

(* What was read, and the checksum before it, as VerifyBlock takes them      *)
(* apart.                                                                    *)
LEMMA TwoBefore ==
  ASSUME NEW first, first \in Nat, NEW second, second \in Nat, NEW read, read \in Seq(Nat)
  PROVE  /\ SubSeq(<<first, second>> \o read, 1, 2) = <<first, second>>
         /\ SubSeq(<<first, second>> \o read, 3, Len(<<first, second>> \o read)) = read
<1>1. SubSeq(<<first, second>> \o read, 3, Len(<<first, second>> \o read)) = read
  OBVIOUS
<1> DEFINE s == <<first, second>> \o read
           t == SubSeq(s, 1, 2)
<1>2. s \in Seq(Nat) /\ Len(s) >= 2 /\ s[1] = first /\ s[2] = second
  OBVIOUS
<1> HIDE DEF s
<1>3. t \in Seq(Nat) /\ Len(t) = 2 /\ t[1] = first /\ t[2] = second
  BY <1>2
<1> HIDE DEF t
<1>4. t = <<first, second>>
  BY <1>3
<1> QED BY <1>1, <1>4 DEF t, s

(* Fletcher64 of a whole block from 0 on.                                    *)
LEMMA FletcherRange ==
  ASSUME NEW data, data \in Seq(Nat)
  PROVE  \E a, b : /\ Sums(data, 0, 0, a, b)
                   /\ a[Len(data)] \in Nat /\ b[Len(data)] \in Nat
                   /\ Fletcher64(data, <<0, 0>>) =
                        <<a[Len(data)] % Modulus, b[Len(data)] % Modulus>>
<1>1. PICK a, b : /\ Sums(data, 0, 0, a, b)
                  /\ Fletcher64(data, <<0, 0>>) = <<a[Len(data)] % Modulus, b[Len(data)] % Modulus>>
  BY FletcherSums
<1>2. Len(data) \in 0..Len(data)
  OBVIOUS
<1>3. a[Len(data)] \in Nat /\ b[Len(data)] \in Nat
  BY ONLY <1>1, <1>2 DEF Sums
<1> QED BY <1>1, <1>3

(* A sum that moves by the difference of two words stays the same modulo m   *)
(* just if the words are the same.                                           *)
LEMMA SameMoved ==
  ASSUME NEW m, m \in Nat \ {0}, NEW x, x \in Nat, NEW y, y \in Nat, NEW z, z \in Nat, NEW w,
         w = z + (y - x), Congruent(w, z, m)
  PROVE  Congruent(x, y, m)
<1>1. y - x \in Int /\ w - z = y - x /\ w \in Int /\ z \in Int /\ x \in Int /\ y \in Int
  OBVIOUS
<1>2. (w - z) % m = 0
  BY ONLY <1>1, m \in Nat \ {0}, Congruent(w, z, m), ModSame DEF Congruent
<1>3. y % m = x % m
  BY ONLY <1>1, <1>2, m \in Nat \ {0}, ModSame
<1> QED BY <1>3 DEF Congruent

(* What VerifyBlock says of a block whose data was read under its checksum. *)
LEMMA BlockVerified ==
  ASSUME NEW data, data \in Seq(Words), NEW high, NEW read, read \in Damaged(data)
  PROVE  VerifyBlock(CheckOf(data, high) \o read) <=>
           ( /\ CheckOf(data, high) \notin {<<0, 0>>, <<Modulus, Modulus>>}
             /\ SameWords(data, read) )
<1>0. Modulus \in Nat \ {0} /\ Modulus \in Int
  BY ModulusAssumption
<1>1. data \in Seq(Nat) /\ read \in Seq(Nat) /\ Len(read) = Len(data) /\ DOMAIN data = 1..Len(data)
  <2>1. Words \subseteq Nat /\ data \in Seq(Nat)
    BY <1>0 DEF Words
  <2>2. CASE \E i \in DOMAIN data, x \in Words : read = Replaced(data, i, x)
    BY <2>1, <2>2 DEF Replaced
  <2>3. CASE \E i \in 1..(Len(data) - 1) : read = Swapped(data, i)
    BY <2>1, <2>3 DEF Swapped
  <2> QED BY <2>1, <2>2, <2>3 DEF Damaged
<1>2. PICK a, b : /\ Sums(data, 0, 0, a, b)
                  /\ a[Len(data)] \in Nat /\ b[Len(data)] \in Nat
                  /\ Fletcher64(data, <<0, 0>>) = <<a[Len(data)] % Modulus, b[Len(data)] % Modulus>>
  BY <1>1, FletcherRange
<1>3. PICK c, d : /\ Sums(read, 0, 0, c, d)
                  /\ c[Len(data)] \in Nat /\ d[Len(data)] \in Nat
                  /\ Fletcher64(read, <<0, 0>>) = <<c[Len(data)] % Modulus, d[Len(data)] % Modulus>>
  <2>1. \E c, d : /\ Sums(read, 0, 0, c, d)
                  /\ c[Len(read)] \in Nat /\ d[Len(read)] \in Nat
                  /\ Fletcher64(read, <<0, 0>>) = <<c[Len(read)] % Modulus, d[Len(read)] % Modulus>>
    BY ONLY <1>1, FletcherRange
  <2> QED BY ONLY <1>1, <2>1
<1> DEFINE n == Len(data)
           p == a[n] % Modulus
           q == b[n] % Modulus
           u == c[n] % Modulus
           v == d[n] % Modulus
           w == CheckOf(data, high)
<1>4. p \in Nat /\ q \in Nat /\ u \in Nat /\ v \in Nat
  <2>1. \A x \in Nat : x % Modulus \in Nat
    BY <1>0, ModRange
  <2> QED BY ONLY <1>2, <1>3, <2>1
<1>5. /\ Congruent(u, p, Modulus) <=> Congruent(c[n], a[n], Modulus)
      /\ Congruent(v, q, Modulus) <=> Congruent(d[n], b[n], Modulus)
  <2>1. a[n] \in Int /\ b[n] \in Int /\ c[n] \in Int /\ d[n] \in Int
    BY <1>2, <1>3
  <2>2. \A x \in Int : (x % Modulus) % Modulus = x % Modulus
    BY <1>0, ModMod
  <2> QED BY ONLY <2>1, <2>2 DEF Congruent
<1>6. Fletcher64(data, <<0, 0>>) = <<p, q>> /\ Fletcher64(read, <<0, 0>>) = <<u, v>>
  BY ONLY <1>2, <1>3
<1> HIDE DEF p, q, u, v
<1>7. PICK first, second :
        w = <<first, second>> /\ IsCheck(Modulus, p, q, first, second)
  <2> DEFINE f == (Modulus - ((p + q) % Modulus)) % Modulus
             s == (Modulus - ((p + f) % Modulus)) % Modulus
  <2>1. w = <<f, IF high /\ s = 0 THEN Modulus ELSE s>>
    BY ONLY <1>6 DEF CheckOf
  <2>2. IsCheck(Modulus, p, q, f, s) /\ (s = 0 => IsCheck(Modulus, p, q, f, Modulus))
    BY ONLY DEF IsCheck
  <2> HIDE DEF f, s, w
  <2>3. w = <<f, s>> \/ (s = 0 /\ w = <<f, Modulus>>)
    BY ONLY <2>1
  <2> QED BY ONLY <2>2, <2>3
<1>8. /\ first \in Nat /\ second \in Nat
      /\ Congruent(p + q + first, 0, Modulus) /\ Congruent(p + first + second, 0, Modulus)
  BY ONLY <1>0, <1>4, <1>7, CheckAdds
<1> HIDE DEF w
<1>9. ChecksumLast(w \o read) =
        <<(u + first + second) % Modulus, (v + (u + first) + (u + first + second)) % Modulus>>
  <2>1. SubSeq(w \o read, 1, 2) = <<first, second>> /\ SubSeq(w \o read, 3, Len(w \o read)) = read
    BY ONLY <1>1, <1>7, <1>8, TwoBefore
  <2>2. ChecksumLast(w \o read) = Fletcher64(<<first, second>>, <<u, v>>)
    BY ONLY <1>6, <2>1 DEF ChecksumLast
  <2>3. Fletcher64(<<first, second>>, <<u, v>>) =
          <<(u + first + second) % Modulus, (v + (u + first) + (u + first + second)) % Modulus>>
    BY ONLY <1>4, <1>8, FletcherOfTwo
  <2> QED BY ONLY <2>2, <2>3
<1>10. SubSeq(w \o read, 1, 2) = w
  BY ONLY <1>1, <1>7, <1>8, TwoBefore
<1>11. ChecksumLast(w \o read) = <<0, 0>> <=> Congruent(u, p, Modulus) /\ Congruent(v, q, Modulus)
  <2>1. Compared(Modulus, p, q, u, v, first, second)
    BY ONLY <1>0, <1>4, <1>8, SumsCompared
  <2>2. 0 % Modulus = 0
    BY <1>0, ModUnique
  <2>3. ChecksumLast(w \o read) = <<0, 0>> <=>
          /\ Congruent(u + first + second, 0, Modulus)
          /\ Congruent(v + (u + first) + (u + first + second), 0, Modulus)
    BY ONLY <1>9, <2>2 DEF Congruent
  <2> QED BY ONLY <2>1, <2>3 DEF Compared
<1>12. Congruent(u, p, Modulus) /\ Congruent(v, q, Modulus) <=> SameWords(data, read)
  <2>1. ASSUME SameWords(data, read) PROVE Congruent(u, p, Modulus) /\ Congruent(v, q, Modulus)
    <3>1. \A i \in DOMAIN data : Congruent(data[i], read[i], Modulus)
      BY <2>1 DEF SameWords, Congruent
    <3>2. Congruent(a[n], c[n], Modulus) /\ Congruent(b[n], d[n], Modulus)
      BY ONLY <1>1, <1>2, <1>3, <3>1, SameWordsSameSums
    <3>3. Congruent(c[n], a[n], Modulus) /\ Congruent(d[n], b[n], Modulus)
      BY ONLY <3>2 DEF Congruent
    <3> QED BY ONLY <1>5, <3>3
  <2>2. ASSUME Congruent(u, p, Modulus), Congruent(v, q, Modulus) PROVE SameWords(data, read)
    <3>1. Congruent(c[n], a[n], Modulus) /\ Congruent(d[n], b[n], Modulus)
      BY <1>5, <2>2
    <3>2. CASE \E i \in DOMAIN data, x \in Words : read = Replaced(data, i, x)
      <4>1. PICK i \in DOMAIN data, x \in Words : read = Replaced(data, i, x)
        BY <3>2
      <4>2. x \in Nat /\ data[i] \in Nat /\ read[i] = x /\ \A k \in DOMAIN data : k # i => read[k] = data[k]
        BY <1>1, <1>0, <4>1 DEF Words, Replaced
      <4> HIDE DEF n
      <4>0. data \in Seq(Nat) /\ Sums(data, 0, 0, a, b) /\ Sums(read, 0, 0, c, d)
        BY <1>1, <1>2, <1>3
      <4>3. c[Len(data)] = a[Len(data)] + (x - data[i])
        BY ONLY SMTT(30), <4>0, <4>1, <4>2, i \in DOMAIN data, ReplacedSum
      <4> USE DEF n
      <4>4. Congruent(data[i], x, Modulus)
        BY ONLY <1>0, <1>2, <3>1, <4>2, <4>3, SameMoved
      <4> QED BY <4>2, <4>4 DEF SameWords, Congruent
    <3>3. CASE \E i \in 1..(Len(data) - 1) : read = Swapped(data, i)
      <4>1. PICK i \in 1..(Len(data) - 1) : read = Swapped(data, i)
        BY <3>3
      <4>2. /\ i \in DOMAIN data /\ i + 1 \in DOMAIN data /\ data[i] \in Nat /\ data[i + 1] \in Nat
            /\ read[i] = data[i + 1] /\ read[i + 1] = data[i]
            /\ \A k \in DOMAIN data : k # i /\ k # i + 1 => read[k] = data[k]
        BY <1>1, <4>1 DEF Swapped
      <4> HIDE DEF n
      <4>0. data \in Seq(Nat) /\ Sums(data, 0, 0, a, b) /\ Sums(read, 0, 0, c, d)
        BY <1>1, <1>2, <1>3
      <4>3. d[Len(data)] = b[Len(data)] + (data[i + 1] - data[i])
        BY ONLY <4>0, <4>1, i \in 1..(Len(data) - 1), SwappedSum
      <4> USE DEF n
      <4>4. Congruent(data[i], data[i + 1], Modulus)
        BY ONLY <1>0, <1>2, <3>1, <4>2, <4>3, SameMoved
      <4> QED BY <4>2, <4>4 DEF SameWords, Congruent
    <3> QED BY <3>2, <3>3 DEF Damaged
  <2> QED BY <2>1, <2>2
<1> QED BY ONLY <1>10, <1>11, <1>12 DEF VerifyBlock, w

-----------------------------------------------------------------------------
(* Sections of a DMG in ADC.                                                 *)

(* A copy within the data that repeats is the data that follows.            *)
LEMMA CopyRepeats ==
  ASSUME NEW data \in Seq(Bytes), NEW o \in 0..Len(data), NEW p \in o..Len(data),
         NEW dist \in 1..o, Repeats(data, o, p, dist)
  PROVE  Copy(SubSeq(data, 1, o), dist, p - o) = SubSeq(data, 1, p)
<1> DEFINE dst == SubSeq(data, 1, o)
           Is(f) == f = [k \in 1..(Len(dst) + (p - o)) |-> IF k <= Len(dst) THEN dst[k] ELSE f[k - dist]]
           g == SubSeq(data, 1, p)
<1>1. /\ Len(data) \in Nat /\ o \in Nat /\ p \in Nat
      /\ Len(dst) = o /\ \A k \in 1..o : dst[k] = data[k]
      /\ Len(dst) + (p - o) = p
      /\ g = [k \in 1..p |-> data[k]]
  OBVIOUS
<1>2. Is(g)
  <2>1. \A k \in 1..p : IF k <= o THEN g[k] = dst[k] ELSE g[k] = g[k - dist]
    <3>1. \A k \in (o + 1)..p : data[k] = data[k - dist]
      BY DEF Repeats
    <3> TAKE k \in 1..p
    <3> HIDE DEF dst, g
    <3>2. CASE k <= o
      <4>1. k \in 1..o
        BY ONLY <1>1, <3>2, k \in 1..p
      <4> QED BY ONLY <1>1, <3>2, <4>1, k \in 1..p
    <3>3. CASE ~(k <= o)
      <4>1. k \in (o + 1)..p /\ k - dist \in 1..p
        BY ONLY <1>1, <3>3, k \in 1..p, dist \in 1..o
      <4> QED BY ONLY <1>1, <3>1, <3>3, <4>1, k \in 1..p
    <3> QED BY ONLY <3>2, <3>3
  <2> HIDE DEF dst
  <2>2. g = [k \in 1..p |-> g[k]]
    BY <1>1
  <2> HIDE DEF g
  <2> QED BY <1>1, <2>1, <2>2
<1> HIDE DEF dst
<1>3. Is(Copy(dst, dist, p - o))
  BY <1>2 DEF Copy
<1> DEFINE f == Copy(dst, dist, p - o)
<1>4. f = [k \in 1..p |-> IF k <= o THEN dst[k] ELSE f[k - dist]]
  BY <1>1, <1>3
<1> HIDE DEF f, g
<1>5. \A n \in 0..p : \A k \in 1..n : f[k] = data[k]
  <2> DEFINE S == {n \in 0..p : \A k \in 1..n : f[k] = data[k]}
  <2>1. 0 \in S
    BY <1>1
  <2>2. ASSUME NEW n \in 1..p, n - 1 \in S PROVE n \in S
    <3>1. \A k \in 1..(n - 1) : f[k] = data[k]
      BY <2>2
    <3>2. f[n] = data[n]
      <4>1. CASE n <= o
        BY <1>1, <1>4, <4>1
      <4>2. CASE n > o
        <5>1. n - dist \in 1..(n - 1) /\ f[n] = f[n - dist] /\ data[n] = data[n - dist]
          BY <1>1, <1>4, <4>2 DEF Repeats
        <5> QED BY <3>1, <5>1
      <4> QED BY <4>1, <4>2
    <3> QED BY <3>1, <3>2
  <2> HIDE DEF S
  <2>3. \A n \in 0..p : n \in S
    BY <1>1, <2>1, <2>2, UpToInduction
  <2> QED BY <2>3 DEF S
<1>6. \A k \in 1..p : f[k] = data[k]
  BY <1>1, <1>5
<1>7. f = [k \in 1..p |-> data[k]]
  <2>1. f = [k \in 1..p |-> f[k]]
    BY <1>4
  <2> QED BY <1>6, <2>1
<1> QED BY <1>1, <1>7 DEF f, dst, g

\* The state of the loop at the t-th control byte.
At(s, t) == AdcState(s.at[t], SubSeq(s.data, 1, s.out[t]))

(* Places ascend.                                                           *)
LEMMA Places ==
  ASSUME NEW s, IsSection(s), NEW t \in 1..(Len(s.at) - 1)
  PROVE  /\ Len(s.at) \in Nat /\ Len(s.src) \in Nat /\ Len(s.data) \in Nat
         /\ s.at[t] \in Nat /\ s.at[t + 1] \in Nat /\ s.out[t] \in Nat /\ s.out[t + 1] \in Nat
         /\ 1 <= s.at[t] /\ s.at[t] < s.at[t + 1] /\ s.at[t + 1] <= Len(s.src) + 1
         /\ s.out[t] < s.out[t + 1] /\ s.out[t + 1] <= Len(s.data)
<1>1. /\ Len(s.at) \in Nat /\ Len(s.src) \in Nat /\ Len(s.data) \in Nat
      /\ Len(s.at) = Len(s.out)
      /\ s.at \in Seq(1..(Len(s.src) + 1)) /\ s.out \in Seq(0..Len(s.data))
  BY DEF IsSection
<1>2. /\ s.at[t] \in 1..(Len(s.src) + 1) /\ s.at[t + 1] \in 1..(Len(s.src) + 1)
      /\ s.out[t] \in 0..Len(s.data) /\ s.out[t + 1] \in 0..Len(s.data)
  <2>1. t \in 1..Len(s.at) /\ t + 1 \in 1..Len(s.at)
    BY <1>1
  <2> QED BY <1>1, <2>1, ElementOfSeq
<1>3. StandsFor(s.src, s.at[t], s.at[t + 1], s.data, s.out[t], s.out[t + 1])
  BY DEF IsSection
<1> DEFINE a == s.at[t]
           b == s.at[t + 1]
           o == s.out[t]
           p == s.out[t + 1]
<1>4. a \in Nat /\ b \in Nat /\ o \in Nat /\ p \in Nat
      /\ 1 <= a /\ b <= Len(s.src) + 1 /\ p <= Len(s.data)
  BY <1>1, <1>2
<1>5. \/ p - o \in 1..128 /\ b = a + 1 + (p - o)
      \/ p - o \in 3..18 /\ b = a + 2
      \/ p - o \in 4..67 /\ b = a + 3
  BY SMTT(120), <1>3 DEF StandsFor
<1> HIDE DEF a, b, o, p
<1>6. a < b /\ o < p
  BY <1>4, <1>5
<1> QED BY <1>1, <1>4, <1>6 DEF a, b, o, p

(* The first o bytes of data and the next n are its first o + n.             *)
LEMMA PrefixAndMore ==
  ASSUME NEW S, NEW data \in Seq(S), NEW o \in 0..Len(data), NEW n \in 0..(Len(data) - o)
  PROVE  SubSeq(data, 1, o) \o [k \in 1..n |-> data[o + k]] = SubSeq(data, 1, o + n)
<1> DEFINE dst == SubSeq(data, 1, o)
           new == [k \in 1..n |-> data[o + k]]
           all == SubSeq(data, 1, o + n)
<1>1. Len(data) \in Nat /\ o \in Nat /\ n \in Nat /\ o + n <= Len(data)
  OBVIOUS
<1>2. dst \in Seq(S) /\ Len(dst) = o /\ \A i \in 1..o : dst[i] = data[i]
  BY <1>1
<1>3. \A k \in 1..n : data[o + k] \in S
  <2> SUFFICES ASSUME NEW k \in 1..n PROVE data[o + k] \in S
    OBVIOUS
  <2>1. o + k \in 1..Len(data)
    BY <1>1
  <2> QED BY <2>1
<1>4. new \in Seq(S) /\ Len(new) = n /\ \A i \in 1..n : new[i] = data[o + i]
  <2>1. new \in Seq(S) /\ Len(new) = n
    BY <1>1, <1>3, IsASeq
  <2> QED BY <2>1
<1>5. all \in Seq(S) /\ Len(all) = o + n /\ \A i \in 1..(o + n) : all[i] = data[i]
  BY <1>1
<1> HIDE DEF dst, new, all
<1>6. dst \o new \in Seq(S) /\ Len(dst \o new) = o + n
  BY <1>1, <1>2, <1>4, ConcatProperties
<1>7. ASSUME NEW i \in 1..(o + n) PROVE (dst \o new)[i] = data[i]
  <2>1. (dst \o new)[i] = IF i <= Len(dst) THEN dst[i] ELSE new[i - Len(dst)]
    <3>1. i \in 1..(Len(dst) + Len(new))
      BY <1>2, <1>4
    <3> QED BY <1>2, <1>4, <3>1, ConcatProperties
  <2>2. CASE i <= o
    <3>1. i \in 1..o /\ i <= Len(dst)
      BY <1>1, <1>2, <2>2
    <3>2. dst[i] = data[i]
      BY <1>2, <3>1
    <3>3. (dst \o new)[i] = dst[i]
      BY <2>1, <3>1
    <3> QED BY <3>2, <3>3
  <2>3. CASE i > o
    <3>1. i - o \in 1..n /\ o + (i - o) = i
      BY <1>1, <2>3
    <3> QED BY <1>1, <1>2, <1>4, <2>1, <2>3, <3>1
  <2>4. i <= o \/ i > o
    BY <1>1
  <2> QED BY <2>2, <2>3, <2>4
<1>8. dst \o new = all
  BY <1>5, <1>6, <1>7, SeqEqual
<1> QED BY <1>8 DEF dst, new, all

(* A byte is a number up to 255.                                             *)
LEMMA ByteRange ==
  ASSUME NEW x \in Bytes PROVE x \in Nat /\ x <= 255
BY DEF Bytes

(* The place of a copy is put together from its bytes.                       *)
LEMMA HighAndLow ==
  ASSUME NEW x \in Nat \ {0}, NEW h, NEW l, h = HighByte(x - 1), l = LowByte(x - 1)
  PROVE  256 * h + l + 1 = x
BY DEF HighByte, LowByte

(* The high bits of the place of a short copy are two.                       *)
LEMMA ShortHigh ==
  ASSUME NEW x \in Nat \ {0}, x <= 1024 PROVE HighByte(x - 1) \in 0..3
BY DEF HighByte

(* What is left of a section begins as the section does.                    *)
LEMMA LeftBytes ==
  ASSUME NEW full \in Seq(Bytes), NEW cut \in 0..Len(full)
  PROVE  /\ Len(Left(full, cut)) = Len(full) - cut /\ Len(Left(full, cut)) \in Nat
         /\ \A j \in 1..Len(Left(full, cut)) :
              /\ Left(full, cut)[j] = full[j] /\ Byte(Left(full, cut), j) = full[j]
              /\ Left(full, cut)[j] \in Nat /\ Left(full, cut)[j] <= 255
<1> DEFINE src == Left(full, cut)
<1>1. Len(src) = Len(full) - cut /\ Len(src) \in Nat /\ Len(full) \in Nat
  BY DEF Left
<1>2. ASSUME NEW j \in 1..Len(src)
      PROVE  src[j] = full[j] /\ full[j] \in Nat /\ full[j] <= 255
  <2>1. j \in 1..Len(full) /\ j \in 1..(Len(full) - cut)
    BY <1>1
  <2>2. full[j] \in Bytes
    BY <2>1
  <2>3. full[j] \in Nat /\ full[j] <= 255
    BY <2>2, ByteRange
  <2>4. src[j] = full[j]
    BY <1>1, <2>1 DEF Left
  <2> QED BY <2>3, <2>4
<1> HIDE DEF src
<1>3. \A j \in 1..Len(src) : Byte(src, j) = full[j]
  BY <1>1, <1>2 DEF Byte
<1> QED BY <1>1, <1>2, <1>3 DEF src

(* Length and high bits of a short copy are taken out of its control byte.   *)
LEMMA ShortControl ==
  ASSUME NEW n \in 3..18, NEW h \in 0..3, NEW c, c = 4 * (n - 3) + h
  PROVE  c \in Int /\ c < 64 /\ (c \div 4) + 3 = n /\ c % 4 = h
OBVIOUS

(* The three branches of AdcStep: a run,                                     *)
LEMMA StepOfRun ==
  ASSUME NEW src, NEW s, src[s.i] \in Int, src[s.i] >= 128
  PROVE  AdcStep(src, s) = AdcState(s.i + 1 + (src[s.i] - 127), s.dst \o Run(src, s.i, src[s.i] - 127))
BY DEF AdcStep

(* a copy with a place of two bytes,                                         *)
LEMMA StepOfLong ==
  ASSUME NEW src, NEW s, src[s.i] \in Int, src[s.i] >= 64, ~(src[s.i] >= 128)
  PROVE  AdcStep(src, s) =
           AdcState(s.i + 3, Copy(s.dst, 256 * Byte(src, s.i + 1) + Byte(src, s.i + 2) + 1, src[s.i] - 60))
BY DEF AdcStep

(* and one with a place of ten bits.                                         *)
LEMMA StepOfShort ==
  ASSUME NEW src, NEW s, src[s.i] \in Int, src[s.i] < 64
  PROVE  AdcStep(src, s) =
           AdcState(s.i + 2, Copy(s.dst, 256 * (src[s.i] % 4) + Byte(src, s.i + 1) + 1, (src[s.i] \div 4) + 3))
BY DEF AdcStep

(* One round for each of the three kinds of control bytes.                  *)
LEMMA RunRound ==
  ASSUME NEW data \in Seq(Bytes), NEW full \in Seq(Bytes), NEW cut \in 0..Len(full),
         NEW a \in 1..Len(Left(full, cut)), NEW o \in Nat, NEW p \in Nat, p <= Len(data),
         p - o \in 1..128, full[a] = 127 + (p - o),
         SameBytes(full, a, data, o, p - o)
  PROVE  /\ AdcStep(Left(full, cut), AdcState(a, SubSeq(data, 1, o))).i = a + 1 + (p - o)
         /\ a + (p - o) <= Len(Left(full, cut)) =>
              AdcStep(Left(full, cut), AdcState(a, SubSeq(data, 1, o))) = AdcState(a + 1 + (p - o), SubSeq(data, 1, p))
<1> DEFINE src == Left(full, cut)
           s == AdcState(a, SubSeq(data, 1, o))
<1>1. /\ Len(src) \in Nat
      /\ \A j \in 1..Len(src) : /\ src[j] = full[j] /\ Byte(src, j) = full[j]
                               /\ src[j] \in Nat /\ src[j] <= 255
  BY LeftBytes
<1> HIDE DEF src
<1>0. a \in Nat /\ a \in 1..Len(src)
  BY <1>1 DEF src
<1> DEFINE n == p - o
           new == Run(src, a, n)
           dst == SubSeq(data, 1, o)
<1>2. src[a] = 127 + n /\ n \in 1..128 /\ src[a] \in Nat /\ src[a] <= 255
  BY <1>1, <1>0
<1>3. AdcStep(src, s) = AdcState(a + 1 + n, dst \o new)
  <2>1. s.i = a /\ s.dst = dst
    BY DEF AdcState
  <2>2. src[s.i] \in Int /\ src[s.i] >= 128 /\ src[s.i] - 127 = n
    BY <1>2, <2>1
  <2> HIDE DEF s, n, dst
  <2>3. AdcStep(src, s) = AdcState(s.i + 1 + (src[s.i] - 127), s.dst \o Run(src, s.i, src[s.i] - 127))
    <3>1. src[s.i] \in Int /\ src[s.i] >= 128
      BY <2>1, <2>2
    <3> QED BY ONLY <3>1, StepOfRun
  <2> QED BY <2>1, <2>2, <2>3
<1>4. ASSUME a + n <= Len(src)
      PROVE  dst \o new = SubSeq(data, 1, p)
  <2>1. o \in 0..Len(data) /\ n \in 0..(Len(data) - o) /\ o + n = p
    BY <1>2
  <2>2. ASSUME NEW k \in 1..n PROVE Byte(src, a + k) = data[o + k]
    <3>1. a + k \in 1..Len(src)
      BY <1>1, <1>2, <1>4, <1>0
    <3>2. full[a + k] = data[o + k]
      BY DEF SameBytes
    <3> QED BY <1>1, <3>1, <3>2
  <2>3. new = [k \in 1..n |-> data[o + k]]
    BY <2>2 DEF Run
  <2> HIDE DEF n, new
  <2> QED BY <2>1, <2>3, PrefixAndMore
<1>5. AdcState(a + 1 + n, dst \o new).i = a + 1 + n
  BY DEF AdcState
<1> HIDE DEF n, new, dst
<1> QED BY <1>3, <1>4, <1>5 DEF n, src, s

(* The round of a copy with a place of ten bits.                             *)
LEMMA ShortRound ==
  ASSUME NEW data \in Seq(Bytes), NEW full \in Seq(Bytes), NEW cut \in 0..Len(full),
         NEW a \in 1..Len(Left(full, cut)), NEW o \in Nat, NEW p \in Nat, p <= Len(data),
         p - o \in 3..18, NEW dist \in 1..o, dist <= 1024, Repeats(data, o, p, dist),
         full[a] = 4 * ((p - o) - 3) + HighByte(dist - 1), full[a + 1] = LowByte(dist - 1)
  PROVE  /\ AdcStep(Left(full, cut), AdcState(a, SubSeq(data, 1, o))).i = a + 2
         /\ a + 1 <= Len(Left(full, cut)) => AdcStep(Left(full, cut), AdcState(a, SubSeq(data, 1, o))) = AdcState(a + 2, SubSeq(data, 1, p))
<1> DEFINE src == Left(full, cut)
           s == AdcState(a, SubSeq(data, 1, o))
<1>1. /\ Len(src) \in Nat
      /\ \A j \in 1..Len(src) : /\ src[j] = full[j] /\ Byte(src, j) = full[j]
                               /\ src[j] \in Nat /\ src[j] <= 255
  BY LeftBytes
<1> HIDE DEF src
<1>0. a \in Nat /\ a \in 1..Len(src)
  BY <1>1 DEF src
<1> DEFINE n == p - o
           dst == SubSeq(data, 1, o)
           copy == Copy(dst, 256 * HighByte(dist - 1) + Byte(src, a + 1) + 1, n)
<1>2. src[a] = 4 * (n - 3) + HighByte(dist - 1) /\ n \in 3..18
      /\ HighByte(dist - 1) \in 0..3
  <2>1. dist \in Nat \ {0}
    OBVIOUS
  <2> QED BY <1>1, <1>0, <2>1, ShortHigh
<1>3. AdcStep(src, s) = AdcState(a + 2, copy)
  <2>1. s.i = a /\ s.dst = dst
    BY DEF AdcState
  <2>2. src[a] \in Int /\ src[a] < 64 /\ (src[a] \div 4) + 3 = n /\ src[a] % 4 = HighByte(dist - 1)
    <3> HIDE DEF n
    <3> QED BY <1>2, ShortControl
  <2> HIDE DEF s, n, dst
  <2>3. AdcStep(src, s) = 
          AdcState(s.i + 2, Copy(s.dst, 256 * (src[s.i] % 4) + Byte(src, s.i + 1) + 1, (src[s.i] \div 4) + 3))
    BY ZenonT(30), <2>1, <2>2, StepOfShort
  <2> QED BY <2>1, <2>2, <2>3
<1>4. ASSUME a + 1 <= Len(src)
      PROVE  copy = SubSeq(data, 1, p)
  <2>1. Byte(src, a + 1) = LowByte(dist - 1)
    BY <1>1, <1>4, <1>0
  <2>2. 256 * HighByte(dist - 1) + Byte(src, a + 1) + 1 = dist
    <3>1. dist \in Nat \ {0}
      OBVIOUS
    <3> QED BY <2>1, <3>1, HighAndLow
  <2>3. o \in 0..Len(data) /\ p \in o..Len(data)
    OBVIOUS
  <2>4. Copy(dst, dist, n) = SubSeq(data, 1, p)
    BY <2>3, CopyRepeats
  <2> HIDE DEF n, dst
  <2> QED BY <2>2, <2>4
<1>5. AdcState(a + 2, copy).i = a + 2
  BY DEF AdcState
<1> HIDE DEF copy, s
<1>6. /\ AdcStep(src, s).i = a + 2
      /\ a + 1 <= Len(src) => AdcStep(src, s) = AdcState(a + 2, SubSeq(data, 1, p))
  <2>1. AdcStep(src, s).i = AdcState(a + 2, copy).i
    BY <1>3
  <2>2. ASSUME a + 1 <= Len(src) PROVE AdcStep(src, s) = AdcState(a + 2, SubSeq(data, 1, p))
    BY <1>0, <1>3, <1>4, <2>2
  <2> QED BY <1>5, <2>1, <2>2
<1> QED BY <1>6 DEF src, s

(* The round of a copy with a place of two bytes.                            *)
LEMMA LongRound ==
  ASSUME NEW data \in Seq(Bytes), NEW full \in Seq(Bytes), NEW cut \in 0..Len(full),
         NEW a \in 1..Len(Left(full, cut)), NEW o \in Nat, NEW p \in Nat, p <= Len(data),
         p - o \in 4..67, NEW dist \in 1..o, dist <= 65536, Repeats(data, o, p, dist),
         full[a] = 64 + ((p - o) - 4), full[a + 1] = HighByte(dist - 1),
         full[a + 2] = LowByte(dist - 1)
  PROVE  /\ AdcStep(Left(full, cut), AdcState(a, SubSeq(data, 1, o))).i = a + 3
         /\ a + 2 <= Len(Left(full, cut)) => AdcStep(Left(full, cut), AdcState(a, SubSeq(data, 1, o))) = AdcState(a + 3, SubSeq(data, 1, p))
<1> DEFINE src == Left(full, cut)
           s == AdcState(a, SubSeq(data, 1, o))
<1>1. /\ Len(src) \in Nat
      /\ \A j \in 1..Len(src) : /\ src[j] = full[j] /\ Byte(src, j) = full[j]
                               /\ src[j] \in Nat /\ src[j] <= 255
  BY LeftBytes
<1> HIDE DEF src
<1>0. a \in Nat /\ a \in 1..Len(src)
  BY <1>1 DEF src
<1> DEFINE n == p - o
           dst == SubSeq(data, 1, o)
           copy == Copy(dst, 256 * Byte(src, a + 1) + Byte(src, a + 2) + 1, n)
<1>2. src[a] = 64 + (n - 4) /\ n \in 4..67
  BY <1>1, <1>0
<1>3. AdcStep(src, s) = AdcState(a + 3, copy)
  <2>1. s.i = a /\ s.dst = dst
    BY DEF AdcState
  <2>2. src[a] \in Int /\ src[a] >= 64 /\ ~(src[a] >= 128) /\ src[a] - 60 = n
    BY <1>2
  <2> HIDE DEF s, n, dst
  <2>3. AdcStep(src, s) = 
          AdcState(s.i + 3, Copy(s.dst, 256 * Byte(src, s.i + 1) + Byte(src, s.i + 2) + 1, src[s.i] - 60))
    <3>1. src[s.i] \in Int /\ src[s.i] >= 64 /\ ~(src[s.i] >= 128)
      BY <2>1, <2>2
    <3> QED BY ONLY <3>1, StepOfLong
  <2> QED BY <2>1, <2>2, <2>3
<1>4. ASSUME a + 2 <= Len(src)
      PROVE  copy = SubSeq(data, 1, p)
  <2>1. Byte(src, a + 1) = HighByte(dist - 1) /\ Byte(src, a + 2) = LowByte(dist - 1)
    BY <1>1, <1>4, <1>0
  <2>2. 256 * Byte(src, a + 1) + Byte(src, a + 2) + 1 = dist
    <3>1. dist \in Nat \ {0}
      OBVIOUS
    <3> QED BY <2>1, <3>1, HighAndLow
  <2>3. o \in 0..Len(data) /\ p \in o..Len(data)
    OBVIOUS
  <2>4. Copy(dst, dist, n) = SubSeq(data, 1, p)
    BY <2>3, CopyRepeats
  <2> HIDE DEF n, dst
  <2> QED BY <2>2, <2>4
<1>5. AdcState(a + 3, copy).i = a + 3
  BY DEF AdcState
<1> HIDE DEF copy, s
<1>6. /\ AdcStep(src, s).i = a + 3
      /\ a + 2 <= Len(src) => AdcStep(src, s) = AdcState(a + 3, SubSeq(data, 1, p))
  <2>1. AdcStep(src, s).i = AdcState(a + 3, copy).i
    BY <1>3
  <2>2. ASSUME a + 2 <= Len(src) PROVE AdcStep(src, s) = AdcState(a + 3, SubSeq(data, 1, p))
    <3>1. copy = SubSeq(data, 1, p)
      BY <1>4, <2>2
    <3> QED BY ONLY <1>3, <3>1
  <2> QED BY <1>5, <2>1, <2>2
<1> QED BY <1>6 DEF src, s

(* A round of the loop goes from one control byte to the next, and what is  *)
(* not cut off has become the data it stands for.                           *)
LEMMA AnyRound ==
  ASSUME NEW data \in Seq(Bytes), NEW full \in Seq(Bytes), NEW cut \in 0..Len(full),
         NEW a \in 1..Len(Left(full, cut)), NEW b \in Nat, NEW o \in Nat, NEW p \in Nat,
         p <= Len(data), StandsFor(full, a, b, data, o, p)
  PROVE  /\ AdcStep(Left(full, cut), AdcState(a, SubSeq(data, 1, o))).i = b
         /\ b <= Len(Left(full, cut)) + 1 =>
              AdcStep(Left(full, cut), AdcState(a, SubSeq(data, 1, o))) = AdcState(b, SubSeq(data, 1, p))
<1>1. a \in Nat /\ Len(Left(full, cut)) \in Nat
  BY LeftBytes
<1>2. CASE /\ p - o \in 1..128
           /\ b = a + 1 + (p - o)
           /\ full[a] = 127 + (p - o)
           /\ SameBytes(full, a, data, o, p - o)
  <2>1. /\ AdcStep(Left(full, cut), AdcState(a, SubSeq(data, 1, o))).i = a + 1 + (p - o)
        /\ a + (p - o) <= Len(Left(full, cut)) =>
             AdcStep(Left(full, cut), AdcState(a, SubSeq(data, 1, o))) =
               AdcState(a + 1 + (p - o), SubSeq(data, 1, p))
    BY <1>2, RunRound
  <2> QED BY <1>1, <1>2, <2>1
<1>3. CASE /\ p - o \in 3..18
           /\ b = a + 2
           /\ \E dist \in 1..o :
                /\ dist <= 1024 /\ Repeats(data, o, p, dist)
                /\ full[a] = 4 * ((p - o) - 3) + HighByte(dist - 1)
                /\ full[a + 1] = LowByte(dist - 1)
  <2>1. PICK dist \in 1..o : /\ dist <= 1024 /\ Repeats(data, o, p, dist)
                             /\ full[a] = 4 * ((p - o) - 3) + HighByte(dist - 1)
                             /\ full[a + 1] = LowByte(dist - 1)
    BY <1>3
  <2>2. /\ AdcStep(Left(full, cut), AdcState(a, SubSeq(data, 1, o))).i = a + 2
        /\ a + 1 <= Len(Left(full, cut)) =>
             AdcStep(Left(full, cut), AdcState(a, SubSeq(data, 1, o))) =
               AdcState(a + 2, SubSeq(data, 1, p))
    BY <1>3, <2>1, ShortRound
  <2> QED BY <1>1, <1>3, <2>2
<1>4. CASE /\ p - o \in 4..67
           /\ b = a + 3
           /\ \E dist \in 1..o :
                /\ dist <= 65536 /\ Repeats(data, o, p, dist)
                /\ full[a] = 64 + ((p - o) - 4)
                /\ full[a + 1] = HighByte(dist - 1)
                /\ full[a + 2] = LowByte(dist - 1)
  <2>1. PICK dist \in 1..o : /\ dist <= 65536 /\ Repeats(data, o, p, dist)
                             /\ full[a] = 64 + ((p - o) - 4)
                             /\ full[a + 1] = HighByte(dist - 1)
                             /\ full[a + 2] = LowByte(dist - 1)
    BY <1>4
  <2>2. /\ AdcStep(Left(full, cut), AdcState(a, SubSeq(data, 1, o))).i = a + 3
        /\ a + 2 <= Len(Left(full, cut)) =>
             AdcStep(Left(full, cut), AdcState(a, SubSeq(data, 1, o))) =
               AdcState(a + 3, SubSeq(data, 1, p))
    BY <1>4, <2>1, LongRound
  <2> QED BY <1>1, <1>4, <2>2
<1> QED BY <1>2, <1>3, <1>4 DEF StandsFor

(* The round at the t-th control byte of a section.                          *)
LEMMA RoundRight ==
  ASSUME NEW s, IsSection(s), NEW t \in 1..(Len(s.at) - 1), NEW cut \in 0..Len(s.src),
         s.at[t] <= Len(Left(s.src, cut))
  PROVE  /\ AdcStep(Left(s.src, cut), At(s, t)).i = s.at[t + 1]
         /\ s.at[t + 1] <= Len(Left(s.src, cut)) + 1 =>
              AdcStep(Left(s.src, cut), At(s, t)) = At(s, t + 1)
<1> DEFINE a == s.at[t]
           b == s.at[t + 1]
           o == s.out[t]
           p == s.out[t + 1]
<1>1. s.src \in Seq(Bytes) /\ s.data \in Seq(Bytes)
  BY DEF IsSection
<1>2. StandsFor(s.src, a, b, s.data, o, p)
  BY DEF IsSection
<1>3. a \in Nat /\ b \in Nat /\ o \in Nat /\ p \in Nat /\ 1 <= a /\ p <= Len(s.data)
  BY Places
<1>4. Len(Left(s.src, cut)) \in Nat
  BY <1>1, LeftBytes
<1>5. a \in 1..Len(Left(s.src, cut))
  BY <1>3, <1>4
<1> HIDE DEF a, b, o, p
<1>6. /\ AdcStep(Left(s.src, cut), AdcState(a, SubSeq(s.data, 1, o))).i = b
      /\ b <= Len(Left(s.src, cut)) + 1 =>
           AdcStep(Left(s.src, cut), AdcState(a, SubSeq(s.data, 1, o))) = AdcState(b, SubSeq(s.data, 1, p))
  BY <1>1, <1>2, <1>3, <1>5, AnyRound
<1> QED BY <1>6 DEF At, a, b, o, p

(* The rounds of the loop are a function of their number.                   *)
RoundsOf(src, size, f) ==
  f = [k \in 0..Len(src) |->
         IF k = 0 THEN AdcState(1, <<>>)
         ELSE LET s == f[k - 1]
              IN IF s.i > Len(src) \/ Len(s.dst) >= size THEN s ELSE AdcStep(src, s)]

(* There are such rounds.                                                    *)
LEMMA RoundsExist ==
  ASSUME NEW src, Len(src) \in Nat, NEW size
  PROVE  \E f : RoundsOf(src, size, f)
<1> DEFINE next(s) == IF s.i > Len(src) \/ Len(s.dst) >= size THEN s ELSE AdcStep(src, s)
           Upto(n, g) == g = [k \in 0..n |-> IF k = 0 THEN AdcState(1, <<>>) ELSE next(g[k - 1])]
           S == {n \in 0..Len(src) : \E g : Upto(n, g)}
<1>1. 0 \in S
  <2> DEFINE h == [k \in 0..0 |-> AdcState(1, <<>>)]
  <2> HIDE DEF next
  <2>1. Upto(0, h)
    <3>1. h = [k \in 0..0 |-> IF k = 0 THEN AdcState(1, <<>>) ELSE next(h[k - 1])]
      OBVIOUS
    <3> QED BY <3>1
  <2> HIDE DEF h, Upto
  <2> QED BY <2>1
<1>2. ASSUME NEW n \in 1..Len(src), n - 1 \in S PROVE n \in S
  <2> HIDE DEF next
  <2>1. PICK g : Upto(n - 1, g)
    BY <1>2
  <2> DEFINE h == [k \in 0..n |-> IF k = n THEN next(g[n - 1]) ELSE g[k]]
  <2>2. ASSUME NEW k \in 0..n
        PROVE  h[k] = IF k = 0 THEN AdcState(1, <<>>) ELSE next(h[k - 1])
    <3>1. CASE k = n
      <4>1. n # 0 /\ n - 1 \in 0..n /\ n - 1 # n
        OBVIOUS
      <4> QED BY <3>1, <4>1
    <3>2. CASE k # n
      <4>1. k \in 0..(n - 1) /\ (k # 0 => k - 1 \in 0..n /\ k - 1 # n)
        BY <3>2
      <4>2. g[k] = IF k = 0 THEN AdcState(1, <<>>) ELSE next(g[k - 1])
        BY <2>1, <4>1
      <4> QED BY <3>2, <4>1, <4>2
    <3> QED BY <3>1, <3>2
  <2>3. Upto(n, h)
    <3>1. h = [k \in 0..n |-> h[k]]
      OBVIOUS
    <3> HIDE DEF h
    <3> QED BY <2>2, <3>1
  <2> HIDE DEF h, Upto
  <2> QED BY <2>3
<1>3. Len(src) \in S
  <2> HIDE DEF S
  <2>1. \A n \in 0..Len(src) : n \in S
    BY ONLY Len(src) \in Nat, <1>1, <1>2, UpToInduction
  <2> QED BY <2>1
<1> QED BY <1>3 DEF RoundsOf

(* A section becomes the data it stands for; a section that is cut off is   *)
(* found too short, wherever it is cut.                                     *)
LEMMA SectionRight ==
  ASSUME NEW s, IsSection(s), NEW cut \in 0..Len(s.src)
  PROVE  DecompressADC(Left(s.src, cut), Len(s.data)) =
           IF cut = 0 THEN s.data ELSE AdcCrash
<1> DEFINE src == Left(s.src, cut)
           size == Len(s.data)
           m == Len(s.at)
<1>1. s.src \in Seq(Bytes) /\ s.data \in Seq(Bytes)
  BY DEF IsSection
<1>2. /\ Len(s.src) \in Nat /\ size \in Nat
      /\ Len(src) = Len(s.src) - cut /\ Len(src) \in Nat
  <2>1. Len(s.src) \in Nat /\ size \in Nat
    BY <1>1
  <2>2. Len(src) = Len(s.src) - cut /\ Len(src) \in Nat
    BY <1>1, LeftBytes
  <2> QED BY <2>1, <2>2
<1>3. m \in Nat /\ m >= 2 /\ s.at[1] = 1 /\ s.at[m] = Len(s.src) + 1
      /\ s.out[1] = 0 /\ s.out[m] = size
  BY DEF IsSection
<1>4. \A t \in 1..(m - 1) :
         /\ s.at[t] \in Nat /\ s.at[t + 1] \in Nat /\ s.out[t] \in Nat /\ s.out[t + 1] \in Nat
         /\ 1 <= s.at[t] /\ s.at[t] < s.at[t + 1] /\ s.at[t + 1] <= Len(s.src) + 1
         /\ s.out[t] < s.out[t + 1] /\ s.out[t + 1] <= size
  BY Places
<1>5. \A t \in 1..m : s.at[t] \in Nat /\ s.out[t] \in Nat /\ s.out[t] <= size
                      /\ s.at[t] <= Len(s.src) + 1
  <2> SUFFICES ASSUME NEW t \in 1..m
               PROVE  s.at[t] \in Nat /\ s.out[t] \in Nat /\ s.out[t] <= size
                      /\ s.at[t] <= Len(s.src) + 1
    OBVIOUS
  <2>1. CASE t = m
    BY <1>2, <1>3, <2>1
  <2>2. CASE t # m
    <3>1. t \in 1..(m - 1)
      BY <1>3, <2>2
    <3> HIDE DEF m, size
    <3>2. /\ s.at[t] \in Nat /\ s.at[t + 1] \in Nat /\ s.out[t] \in Nat /\ s.out[t + 1] \in Nat
          /\ s.at[t] < s.at[t + 1] /\ s.at[t + 1] <= Len(s.src) + 1
          /\ s.out[t] < s.out[t + 1] /\ s.out[t + 1] <= size
      BY <1>4, <3>1
    <3> QED BY <1>2, <3>2
  <2> QED BY <2>1, <2>2
<1> HIDE DEF src, size, m
\* Only at the last place all the data is there; every place is behind its number.
<1>6. \A t \in 1..(m - 1) : s.out[t] < size /\ s.at[t] < Len(s.src) + 1
  <2> SUFFICES ASSUME NEW t \in 1..(m - 1) PROVE s.out[t] < size /\ s.at[t] < Len(s.src) + 1
    OBVIOUS
  <2>1. /\ s.at[t] \in Nat /\ s.at[t + 1] \in Nat /\ s.out[t] \in Nat /\ s.out[t + 1] \in Nat
        /\ s.at[t] < s.at[t + 1] /\ s.at[t + 1] <= Len(s.src) + 1
        /\ s.out[t] < s.out[t + 1] /\ s.out[t + 1] <= size
    BY <1>4
  <2> QED BY ONLY SMTT(30), <1>2, <2>1
<1>7. \A t \in 1..m : t <= s.at[t]
  <2> DEFINE S == {n \in 0..(m - 1) : n + 1 <= s.at[n + 1]}
  <2>1. 0 \in S
    BY <1>3
  <2>2. ASSUME NEW n \in 1..(m - 1), n - 1 \in S PROVE n \in S
    <3>1. (n - 1) + 1 = n /\ n <= s.at[n]
      BY <2>2
    <3>2. s.at[n] \in Nat /\ s.at[n + 1] \in Nat /\ s.at[n] < s.at[n + 1]
      BY <1>4
    <3> QED BY <3>1, <3>2
  <2> HIDE DEF S
  <2>3. m - 1 \in Nat
    BY <1>3
  <2>4. \A n \in 0..(m - 1) : n \in S
    BY ONLY <2>1, <2>2, <2>3, UpToInduction
  <2>5. ASSUME NEW t \in 1..m PROVE t <= s.at[t]
    <3>1. t - 1 \in 0..(m - 1) /\ (t - 1) + 1 = t
      BY <1>3
    <3>2. t - 1 \in S
      BY <2>4, <3>1
    <3> QED BY <3>1, <3>2 DEF S
  <2> QED BY <2>5
<1> DEFINE f == CHOOSE g : RoundsOf(src, size, g)
<1>8. DecompressADC(src, size) =
        IF f[Len(src)].i = Len(src) + 1 /\ Len(f[Len(src)].dst) = size THEN f[Len(src)].dst ELSE AdcCrash
  BY DEF DecompressADC, RoundsOf
<1>9. RoundsOf(src, size, f)
  BY <1>2, RoundsExist
<1> HIDE DEF f
<1>10. /\ f[0] = AdcState(1, <<>>)
       /\ \A k \in 1..Len(src) :
            f[k] = IF f[k - 1].i > Len(src) \/ Len(f[k - 1].dst) >= size THEN f[k - 1]
                   ELSE AdcStep(src, f[k - 1])
  <2>1. f = [k \in 0..Len(src) |->
               IF k = 0 THEN AdcState(1, <<>>)
               ELSE IF f[k - 1].i > Len(src) \/ Len(f[k - 1].dst) >= size THEN f[k - 1]
                    ELSE AdcStep(src, f[k - 1])]
    BY <1>9 DEF RoundsOf
  <2>2. \A k \in 0..Len(src) :
           f[k] = IF k = 0 THEN AdcState(1, <<>>)
                  ELSE IF f[k - 1].i > Len(src) \/ Len(f[k - 1].dst) >= size THEN f[k - 1]
                       ELSE AdcStep(src, f[k - 1])
    BY ONLY <2>1
  <2>3. 0 \in 0..Len(src) /\ \A k \in 1..Len(src) : k \in 0..Len(src) /\ k # 0
    BY <1>2
  <2> QED BY ONLY <2>2, <2>3
<1>11. \A t \in 1..m : At(s, t).i = s.at[t] /\ At(s, t).dst = SubSeq(s.data, 1, s.out[t])
                       /\ Len(At(s, t).dst) = s.out[t]
  <2> SUFFICES ASSUME NEW t \in 1..m PROVE Len(SubSeq(s.data, 1, s.out[t])) = s.out[t]
    BY DEF At, AdcState
  <2> DEFINE o == s.out[t]
  <2>1. o \in Nat /\ o <= Len(s.data)
    BY <1>5 DEF size
  <2> HIDE DEF o
  <2>2. Len(SubSeq(s.data, 1, o)) = o
    BY <1>1, <2>1
  <2> QED BY <2>2 DEF o
<1> DEFINE Past(k) == cut > 0 /\ f[k].i \in Nat /\ f[k].i > Len(src) + 1
           Is(k) == \E t \in 1..m : f[k] = At(s, t) /\ (t = m \/ t > k \/ cut > 0)
                                    /\ s.at[t] <= Len(src) + 1
<1>12. \A k \in 0..Len(src) : Is(k) \/ Past(k)
  <2> DEFINE S == {k \in 0..Len(src) : Is(k) \/ Past(k)}
  <2>1. 0 \in S
    <3>1. 1 \in 1..m /\ 1 > 0
      BY <1>3
    <3>2. f[0] = At(s, 1)
      <4>1. SubSeq(s.data, 1, 0) = <<>>
        BY <1>1
      <4> QED BY <1>3, <1>10, <4>1 DEF At
    <3>3. s.at[1] <= Len(src) + 1
      BY <1>2, <1>3
    <3> HIDE DEF Past
    <3>4. Is(0)
      BY <3>1, <3>2, <3>3
    <3> QED BY <1>2, <3>4
  <2>2. ASSUME NEW k \in 1..Len(src), k - 1 \in S PROVE k \in S
    <3>1. Is(k - 1) \/ Past(k - 1)
      BY <2>2
    <3>2. f[k] = IF f[k - 1].i > Len(src) \/ Len(f[k - 1].dst) >= size THEN f[k - 1]
                 ELSE AdcStep(src, f[k - 1])
      BY <1>10
    <3>3. CASE Past(k - 1)
      <4>1. f[k] = f[k - 1]
        BY <1>2, <3>2, <3>3
      <4>2. Past(k)
        BY <3>3, <4>1
      <4> HIDE DEF Is, Past
      <4> QED BY <4>2
    <3>4. CASE Is(k - 1)
      <4>1. PICK t \in 1..m : /\ f[k - 1] = At(s, t) /\ (t = m \/ t > k - 1 \/ cut > 0)
                              /\ s.at[t] <= Len(src) + 1
        BY <3>4
      <4>2. f[k - 1].i = s.at[t] /\ Len(f[k - 1].dst) = s.out[t]
        BY <1>11, <4>1
      <4>3. s.at[t] \in Nat /\ s.out[t] \in Nat
        BY <1>5
      <4>4. CASE s.at[t] > Len(src) \/ s.out[t] >= size
        <5>1. f[k] = At(s, t)
          BY <3>2, <4>1, <4>2, <4>4
        <5>2. t = m \/ t > k \/ cut > 0
          <6>1. CASE t # m
            <7>1. t \in 1..(m - 1)
              BY <1>3, <6>1
            <7>2. s.out[t] < size /\ s.at[t] < Len(s.src) + 1
              BY <1>6, <7>1
            <7>3. s.at[t] > Len(src)
              BY <1>2, <4>3, <4>4, <7>2
            <7> QED BY <1>2, <4>3, <7>2, <7>3
          <6> QED BY <6>1
        <5>3. Is(k)
          BY <4>1, <5>1, <5>2
        <5> HIDE DEF Is, Past
        <5> QED BY <5>3
      <4>5. CASE ~(s.at[t] > Len(src) \/ s.out[t] >= size)
        <5>1. t # m
          BY <1>2, <1>3, <4>5
        <5>2. t \in 1..(m - 1) /\ t + 1 \in 1..m
          BY <1>3, <5>1
        <5>3. f[k] = AdcStep(src, At(s, t))
          BY <3>2, <4>1, <4>2, <4>5
        <5>4. /\ AdcStep(src, At(s, t)).i = s.at[t + 1]
              /\ s.at[t + 1] <= Len(src) + 1 => AdcStep(src, At(s, t)) = At(s, t + 1)
          <6>1. s.at[t] <= Len(src)
            BY <1>2, <4>3, <4>5
          <6> QED BY <5>2, <6>1, RoundRight DEF src, m
        <5>5. s.at[t + 1] \in Nat /\ s.at[t + 1] <= Len(s.src) + 1
          BY <1>4, <5>2
        <5>6. CASE s.at[t + 1] <= Len(src) + 1
          <6>1. f[k] = At(s, t + 1)
            BY <5>3, <5>4, <5>6
          <6>2. t + 1 = m \/ t + 1 > k \/ cut > 0
            BY <4>1, <5>1
          <6>3. Is(k)
            BY <5>2, <5>6, <6>1, <6>2
          <6> HIDE DEF Is, Past
          <6> QED BY <6>3
        <5>7. CASE s.at[t + 1] > Len(src) + 1
          <6>1. Past(k)
            BY <1>2, <5>3, <5>4, <5>5, <5>7
          <6> HIDE DEF Is, Past
          <6> QED BY <6>1
        <5> QED BY <1>2, <5>5, <5>6, <5>7
      <4> QED BY <4>4, <4>5
    <3> QED BY <3>1, <3>3, <3>4
  <2> HIDE DEF S
  <2>3. \A k \in 0..Len(src) : k \in S
    BY <1>2, <2>1, <2>2, UpToInduction
  <2> HIDE DEF Is, Past
  <2> QED BY <2>3 DEF S
<1>13. Len(src) \in 0..Len(src)
  BY <1>2
<1>14. CASE Past(Len(src))
  <2>1. f[Len(src)].i # Len(src) + 1 /\ cut # 0
    BY <1>2, <1>14
  <2> QED BY <1>8, <2>1 DEF src, size
<1>15. CASE Is(Len(src))
  <2>1. PICK t \in 1..m : /\ f[Len(src)] = At(s, t) /\ (t = m \/ t > Len(src) \/ cut > 0)
                          /\ s.at[t] <= Len(src) + 1
    BY <1>15
  <2>2. /\ f[Len(src)].i = s.at[t] /\ Len(f[Len(src)].dst) = s.out[t]
        /\ f[Len(src)].dst = SubSeq(s.data, 1, s.out[t])
        /\ s.at[t] \in Nat /\ s.out[t] \in Nat /\ t <= s.at[t]
    BY <1>5, <1>7, <1>11, <2>1
  <2>3. CASE t = m
    <3>1. SubSeq(s.data, 1, size) = s.data
      BY <1>1, <1>2 DEF size
    <3>2. cut = 0
      BY <1>2, <1>3, <2>1, <2>3
    <3>3. f[Len(src)].i = Len(src) + 1 /\ Len(f[Len(src)].dst) = size /\ f[Len(src)].dst = s.data
      BY <1>2, <1>3, <2>2, <2>3, <3>1, <3>2
    <3> QED BY <1>8, <3>2, <3>3 DEF src, size
  <2>4. CASE t # m
    <3>1. t \in 1..(m - 1)
      BY <1>3, <2>4
    <3>2. s.out[t] < size /\ s.at[t] < Len(s.src) + 1
      BY <1>6, <3>1
    <3>3. cut > 0
      BY <1>2, <2>1, <2>2, <2>4, <3>2
    <3>4. Len(f[Len(src)].dst) # size
      BY <1>2, <2>2, <3>2
    <3> QED BY <1>8, <3>3, <3>4 DEF src, size
  <2> QED BY <2>3, <2>4
<1> HIDE DEF Is, Past
<1> QED BY <1>12, <1>13, <1>14, <1>15

-----------------------------------------------------------------------------
(* The key wrap of RFC 3394.                                                 *)

(* A sequence is a function from its places.                                 *)
LEMMA SeqIsFcn ==
  ASSUME NEW X, NEW s \in Seq(X)
  PROVE  s \in [1..Len(s) -> X]
OBVIOUS

\* The state of the loops for n words.
States(n) == [a : Uint64, r : [1..n -> Uint64]]

(* What the cipher encrypts is two words again, and is decrypted to what it  *)
(* was.                                                                      *)
LEMMA EncRight ==
  ASSUME NEW key \in Keys, NEW x \in Uint64, NEW y \in Uint64
  PROVE  \E u \in Uint64, v \in Uint64 :
           /\ Enc[key][<<x, y>>] = <<u, v>> /\ Dec[key][<<u, v>>] = <<x, y>>
<1>1. <<x, y>> \in CipherBlocks
  BY DEF CipherBlocks
<1>2. Enc[key][<<x, y>>] \in CipherBlocks /\ Dec[key][Enc[key][<<x, y>>]] = <<x, y>>
  BY <1>1, CipherAssumption
<1>3. PICK u \in Uint64, v \in Uint64 : Enc[key][<<x, y>>] = <<u, v>>
  BY <1>2 DEF CipherBlocks
<1> QED BY ONLY <1>2, <1>3

(* The converse.                                                             *)
LEMMA DecRight ==
  ASSUME NEW key \in Keys, NEW x \in Uint64, NEW y \in Uint64
  PROVE  \E u \in Uint64, v \in Uint64 :
           /\ Dec[key][<<x, y>>] = <<u, v>> /\ Enc[key][<<u, v>>] = <<x, y>>
<1>1. <<x, y>> \in CipherBlocks
  BY DEF CipherBlocks
<1>2. Dec[key][<<x, y>>] \in CipherBlocks /\ Enc[key][Dec[key][<<x, y>>]] = <<x, y>>
  BY <1>1, CipherAssumption
<1>3. PICK u \in Uint64, v \in Uint64 : Dec[key][<<x, y>>] = <<u, v>>
  BY <1>2 DEF CipherBlocks
<1> QED BY ONLY <1>2, <1>3

\* The step counter is a word.
LEMMA CounterWord ==
  ASSUME NEW t \in Nat
  PROVE  t % Half \in Uint64 /\ bswap_be(t % Half) \in Uint64
<1>1. Half \in Nat \ {0}
  BY WordsAssumption
<1>2. t % Half \in Nat /\ t % Half < Half
  BY ONLY <1>1, t \in Nat, ModRange
<1>3. t % Half \in Uint64
  BY ONLY <1>1, <1>2 DEF Uint64
<1> QED BY <1>3, WordsAssumption

\* The word that step t works on.
LEMMA WordOfStep ==
  ASSUME NEW n \in Nat \ {0}, NEW t \in Nat \ {0}
  PROVE  ((t - 1) % n) + 1 \in 1..n
<1>1. (t - 1) % n \in Nat /\ (t - 1) % n < n
  BY ModRange
<1> DEFINE x == (t - 1) % n
<1> HIDE DEF x
<1>2. x \in Nat /\ x < n
  BY <1>1 DEF x
<1>3. x + 1 \in 1..n
  BY <1>2
<1> QED BY <1>3 DEF x

(* A step of the wrap is undone by the step of the unwrap, and the converse. *)
LEMMA WrapUndone ==
  ASSUME NEW key \in Keys, NEW n \in Nat \ {0}, NEW t \in Nat \ {0}, NEW s \in States(n)
  PROVE  /\ WrapStep(key, n, t, s) \in States(n)
         /\ UnwrapStep(key, n, t, WrapStep(key, n, t, s)) = s
<1> DEFINE i == ((t - 1) % n) + 1
           c == bswap_be(t % Half)
<1>1. i \in 1..n /\ c \in Uint64
  BY WordOfStep, CounterWord
<1>2. s.a \in Uint64 /\ s.r \in [1..n -> Uint64] /\ s = [a |-> s.a, r |-> s.r]
  BY DEF States
<1> HIDE DEF i, c
<1>3. s.r[i] \in Uint64
  BY <1>1, <1>2
<1>4. PICK u \in Uint64, v \in Uint64 :
        Enc[key][<<s.a, s.r[i]>>] = <<u, v>> /\ Dec[key][<<u, v>>] = <<s.a, s.r[i]>>
  BY ZenonT(30), <1>2, <1>3, EncRight
<1> DEFINE r == [s.r EXCEPT ![i] = v]
           w == [a |-> WordXor(u, c), r |-> r]
<1>5. WrapStep(key, n, t, s) = w
  BY <1>4 DEF WrapStep, i, c
<1>6. WordXor(u, c) \in Uint64 /\ WordXor(WordXor(u, c), c) = u
  BY <1>1, WordsAssumption
<1>7. r \in [1..n -> Uint64] /\ r[i] = v
  BY <1>1, <1>2
<1>8. w \in States(n)
  BY <1>6, <1>7 DEF States
<1>9. UnwrapStep(key, n, t, w) = [a |-> s.a, r |-> [r EXCEPT ![i] = s.r[i]]]
  <2>1. Dec[key][<<WordXor(w.a, c), w.r[i]>>] = <<s.a, s.r[i]>>
    BY <1>4, <1>6, <1>7
  <2> QED BY <2>1 DEF UnwrapStep, StepNo, i, c
<1>10. [r EXCEPT ![i] = s.r[i]] = s.r
  BY <1>1, <1>2
<1> QED BY <1>2, <1>5, <1>8, <1>9, <1>10

(* A step of the unwrap is undone by the step of the wrap.                   *)
LEMMA UnwrapUndone ==
  ASSUME NEW key \in Keys, NEW n \in Nat \ {0}, NEW t \in Nat \ {0}, NEW s \in States(n)
  PROVE  /\ UnwrapStep(key, n, t, s) \in States(n)
         /\ WrapStep(key, n, t, UnwrapStep(key, n, t, s)) = s
<1> DEFINE i == ((t - 1) % n) + 1
           c == bswap_be(t % Half)
<1>1. i \in 1..n /\ c \in Uint64
  BY WordOfStep, CounterWord
<1>2. s.a \in Uint64 /\ s.r \in [1..n -> Uint64] /\ s = [a |-> s.a, r |-> s.r]
  BY DEF States
<1> HIDE DEF i, c
<1>3. s.r[i] \in Uint64
  BY <1>1, <1>2
<1>4. WordXor(s.a, c) \in Uint64 /\ WordXor(WordXor(s.a, c), c) = s.a
  BY <1>1, <1>2, WordsAssumption
<1>5. PICK u \in Uint64, v \in Uint64 :
        /\ Dec[key][<<WordXor(s.a, c), s.r[i]>>] = <<u, v>>
        /\ Enc[key][<<u, v>>] = <<WordXor(s.a, c), s.r[i]>>
  BY <1>3, <1>4, DecRight
<1> DEFINE r == [s.r EXCEPT ![i] = v]
           w == [a |-> u, r |-> r]
<1>6. UnwrapStep(key, n, t, s) = w
  BY <1>5 DEF UnwrapStep, StepNo, i, c
<1>7. r \in [1..n -> Uint64] /\ r[i] = v
  BY <1>1, <1>2
<1>8. w \in States(n)
  BY <1>7 DEF States
<1>9. WrapStep(key, n, t, w) = [a |-> s.a, r |-> [r EXCEPT ![i] = s.r[i]]]
  <2>1. Enc[key][<<w.a, w.r[i]>>] = <<WordXor(s.a, c), s.r[i]>>
    BY <1>5, <1>7
  <2> QED BY <1>4, <2>1 DEF WrapStep, i, c
<1>10. [r EXCEPT ![i] = s.r[i]] = s.r
  BY <1>1, <1>2
<1> QED BY <1>2, <1>6, <1>8, <1>9, <1>10

\* The states of a wrap, and those of an unwrap.
IsWrap(w, key, n, s) ==
  /\ w \in [0..(Steps * n) -> States(n)]
  /\ w[0] = s /\ \A t \in 1..(Steps * n) : w[t] = WrapStep(key, n, t, w[t - 1])
IsUnwrap(u, key, n, s) ==
  /\ u \in [0..(Steps * n) -> States(n)]
  /\ u[0] = s /\ \A k \in 1..(Steps * n) : u[k] = UnwrapStep(key, n, Steps * n - k + 1, u[k - 1])

(* The loop of Rfc3394_KeyWrap.                                              *)
LEMMA WrapStates ==
  ASSUME NEW key, key \in Keys, NEW plain, plain \in Seq(Uint64), plain # <<>>
  PROVE  \E w : /\ IsWrap(w, key, Len(plain), [a |-> DefaultIv, r |-> plain])
                /\ Rfc3394_KeyWrap(plain, key) =
                     <<w[Steps * Len(plain)].a>> \o w[Steps * Len(plain)].r
<1> DEFINE n == Len(plain)
           N == Steps * n
           e == [a |-> DefaultIv, r |-> plain]
           X == States(n)
           D == [p \in X \X (1..N) |-> WrapStep(key, n, p[2], p[1])]
           Is(f) == f = [t \in 0..N |-> IF t = 0 THEN e ELSE WrapStep(key, n, t, f[t - 1])]
<1>1. n \in Nat \ {0} /\ N \in Nat /\ plain \in [1..n -> Uint64]
  BY DEF Steps
<1>2. e \in X
  BY <1>1, WordsAssumption DEF States
<1>3. D \in [X \X (1..N) -> X]
  <2>1. ASSUME NEW p \in X \X (1..N) PROVE WrapStep(key, n, p[2], p[1]) \in X
    <3>1. p[1] \in X /\ p[2] \in Nat \ {0}
      BY <1>1
    <3> QED BY <1>1, <3>1, WrapUndone
  <2> HIDE DEF X
  <2> QED BY <2>1
<1>4. PICK f : IsRecursion(f, X, e, N, D)
  <2> HIDE DEF n, N, e, X, D
  <2> QED BY ONLY <1>1, <1>2, <1>3, Recursion
<1>5. ASSUME NEW t \in 1..N, NEW x \in X PROVE D[<<x, t>>] = WrapStep(key, n, t, x)
  <2>1. <<x, t>> \in X \X (1..N) /\ <<x, t>>[1] = x /\ <<x, t>>[2] = t
    OBVIOUS
  <2> HIDE DEF X, N
  <2> QED BY <2>1
<1> HIDE DEF n, N, e, X, D
<1>6. Is(f)
  <2>1. f \in [0..N -> X] /\ f[0] = e
    BY <1>4 DEF IsRecursion
  <2>2. ASSUME NEW t \in 1..N PROVE f[t] = WrapStep(key, n, t, f[t - 1])
    <3>1. t - 1 \in 0..N
      BY <1>1
    <3>2. f[t - 1] \in X
      BY <2>1, <3>1
    <3>3. f[t] = D[<<f[t - 1], t>>]
      BY <1>4 DEF IsRecursion
    <3> QED BY <1>5, <3>2, <3>3
  <2>3. ASSUME NEW t \in 0..N PROVE f[t] = IF t = 0 THEN e ELSE WrapStep(key, n, t, f[t - 1])
    BY <1>1, <2>1, <2>2
  <2>4. f = [t \in 0..N |-> f[t]]
    BY <2>1
  <2> QED BY ONLY <2>3, <2>4
<1> DEFINE w == CHOOSE g : Is(g)
<1>7. Is(w)
  BY <1>6
<1>8. Rfc3394_KeyWrap(plain, key) = <<w[N].a>> \o w[N].r
  BY DEF Rfc3394_KeyWrap, n, N, e
<1> HIDE DEF w
<1>9. w[0] = e /\ \A t \in 1..N : w[t] = WrapStep(key, n, t, w[t - 1])
  BY <1>1, <1>7
<1>10. \A t \in 0..N : w[t] \in X
  <2> DEFINE S == {t \in 0..N : w[t] \in X}
  <2>1. 0 \in S
    BY <1>1, <1>2, <1>9
  <2>2. ASSUME NEW t \in 1..N, t - 1 \in S PROVE t \in S
    <3>1. w[t - 1] \in X /\ t \in Nat \ {0} /\ t \in 0..N
      BY <1>1, <2>2
    <3>2. WrapStep(key, n, t, w[t - 1]) \in X
      BY <1>1, <3>1, WrapUndone DEF X
    <3> QED BY <1>9, <3>1, <3>2
  <2> HIDE DEF S
  <2>3. \A t \in 0..N : t \in S
    BY ONLY <1>1, <2>1, <2>2, UpToInduction
  <2> QED BY <2>3 DEF S
<1>11. w \in [0..N -> X]
  BY <1>7, <1>10
<1>12. IsWrap(w, key, n, e)
  BY ONLY <1>9, <1>11 DEF IsWrap, N, X
<1> QED BY ONLY <1>8, <1>12 DEF n, N, e

(* The loop of Rfc3394_KeyUnwrap.                                            *)
LEMMA UnwrapStates ==
  ASSUME NEW key, key \in Keys, NEW crypto, crypto \in Seq(Uint64), NEW n, n \in Nat \ {0},
         Len(crypto) = n + 1
  PROVE  \E w : /\ IsUnwrap(w, key, n, [a |-> crypto[1], r |-> Tail(crypto)])
                /\ Rfc3394_KeyUnwrap(crypto, key) =
                     [ok |-> w[Steps * n].a = DefaultIv, plain |-> w[Steps * n].r]
<1> DEFINE N == Steps * n
           e == [a |-> crypto[1], r |-> Tail(crypto)]
           X == States(n)
           D == [p \in X \X (1..N) |-> UnwrapStep(key, n, N - p[2] + 1, p[1])]
           Is(f) == f = [t \in 0..N |-> IF t = 0 THEN e ELSE UnwrapStep(key, n, N - t + 1, f[t - 1])]
<1>1. n \in Nat \ {0} /\ N \in Nat /\ \A t \in 1..N : N - t + 1 \in Nat \ {0}
  BY DEF Steps
<1>2. e \in X
  <2>1. crypto[1] \in Uint64
    BY <1>1
  <2>2. Tail(crypto) \in Seq(Uint64) /\ Len(Tail(crypto)) = n
    BY <1>1
  <2>3. Tail(crypto) \in [1..n -> Uint64]
    BY ONLY <2>2, SeqIsFcn
  <2> QED BY <2>1, <2>3 DEF States
<1>3. D \in [X \X (1..N) -> X]
  <2>1. ASSUME NEW p \in X \X (1..N) PROVE UnwrapStep(key, n, N - p[2] + 1, p[1]) \in X
    <3>1. p[1] \in X /\ N - p[2] + 1 \in Nat \ {0}
      BY <1>1
    <3> QED BY <1>1, <3>1, UnwrapUndone
  <2> HIDE DEF X
  <2> QED BY <2>1
<1>4. PICK f : IsRecursion(f, X, e, N, D)
  <2> HIDE DEF N, e, X, D
  <2> QED BY ONLY <1>1, <1>2, <1>3, Recursion
<1>5. ASSUME NEW t \in 1..N, NEW x \in X PROVE D[<<x, t>>] = UnwrapStep(key, n, N - t + 1, x)
  <2>1. <<x, t>> \in X \X (1..N) /\ <<x, t>>[1] = x /\ <<x, t>>[2] = t
    OBVIOUS
  <2> HIDE DEF X, N
  <2> QED BY <2>1
<1> HIDE DEF N, e, X, D
<1>6. Is(f)
  <2>1. f \in [0..N -> X] /\ f[0] = e
    BY <1>4 DEF IsRecursion
  <2>2. ASSUME NEW t \in 1..N PROVE f[t] = UnwrapStep(key, n, N - t + 1, f[t - 1])
    <3>1. t - 1 \in 0..N
      BY <1>1
    <3>2. f[t - 1] \in X
      BY <2>1, <3>1
    <3>3. f[t] = D[<<f[t - 1], t>>]
      BY <1>4 DEF IsRecursion
    <3> QED BY <1>5, <3>2, <3>3
  <2>3. ASSUME NEW t \in 0..N PROVE f[t] = IF t = 0 THEN e ELSE UnwrapStep(key, n, N - t + 1, f[t - 1])
    BY <1>1, <2>1, <2>2
  <2>4. f = [t \in 0..N |-> f[t]]
    BY <2>1
  <2> QED BY ONLY <2>3, <2>4
<1> DEFINE w == CHOOSE g : Is(g)
<1>7. Is(w)
  BY <1>6
<1>8. Rfc3394_KeyUnwrap(crypto, key) = [ok |-> w[N].a = DefaultIv, plain |-> w[N].r]
  <2>1. Len(crypto) - 1 = n
    BY <1>1
  <2> QED BY <2>1 DEF Rfc3394_KeyUnwrap, N, e
<1> HIDE DEF w
<1>9. w[0] = e /\ \A t \in 1..N : w[t] = UnwrapStep(key, n, N - t + 1, w[t - 1])
  BY <1>1, <1>7
<1>10. \A t \in 0..N : w[t] \in X
  <2> DEFINE S == {t \in 0..N : w[t] \in X}
  <2>1. 0 \in S
    BY <1>1, <1>2, <1>9
  <2>2. ASSUME NEW t \in 1..N, t - 1 \in S PROVE t \in S
    <3>1. w[t - 1] \in X /\ N - t + 1 \in Nat \ {0} /\ t \in 0..N
      BY <1>1, <2>2
    <3>2. UnwrapStep(key, n, N - t + 1, w[t - 1]) \in X
      BY <1>1, <3>1, UnwrapUndone DEF X
    <3> QED BY <1>9, <3>1, <3>2
  <2> HIDE DEF S
  <2>3. \A t \in 0..N : t \in S
    BY ONLY <1>1, <2>1, <2>2, UpToInduction
  <2> QED BY <2>3 DEF S
<1>11. w \in [0..N -> X]
  BY <1>7, <1>10
<1>12. IsUnwrap(w, key, n, e)
  BY ONLY <1>9, <1>11 DEF IsUnwrap, N, X
<1> QED BY ONLY <1>8, <1>12 DEF N, e

\* An unwrap goes back through the states of the wrap, and the converse.
LEMMA UnwrapGoesBack ==
  ASSUME NEW key, key \in Keys, NEW n, n \in Nat \ {0}, NEW w, NEW s, IsWrap(w, key, n, s),
         NEW u, IsUnwrap(u, key, n, w[Steps * n])
  PROVE  u[Steps * n] = s
<1> DEFINE N == Steps * n
           S == {k \in 0..N : u[k] = w[N - k]}
<1>1. N \in Nat /\ N - 0 = N /\ N - N = 0
  BY DEF Steps
<1>2. 0 \in S
  BY <1>1 DEF IsUnwrap
<1>3. ASSUME NEW k \in 1..N, k - 1 \in S PROVE k \in S
  <2> DEFINE t == N - k + 1
  <2>1. k \in 0..N /\ t \in 1..N /\ t \in Nat \ {0} /\ N - (k - 1) = t /\ t - 1 = N - k /\ t - 1 \in 0..N
    BY <1>1
  <2>2. u[k - 1] = w[t]
    BY <1>3, <2>1
  <2> HIDE DEF t
  <2>3. w[t] = WrapStep(key, n, t, w[t - 1]) /\ w[t - 1] \in States(n)
    BY <2>1 DEF IsWrap
  <2>4. u[k] = UnwrapStep(key, n, t, u[k - 1])
    BY DEF IsUnwrap, t
  <2>5. UnwrapStep(key, n, t, WrapStep(key, n, t, w[t - 1])) = w[t - 1]
    BY ONLY <2>1, <2>3, key \in Keys, n \in Nat \ {0}, WrapUndone
  <2> QED BY <2>1, <2>2, <2>3, <2>4, <2>5
<1>4. \A k \in 0..N : k \in S
  <2> HIDE DEF S, N
  <2> QED BY ONLY <1>1, <1>2, <1>3, UpToInduction
<1>5. N \in 0..N
  BY <1>1
<1>6. u[N] = w[0]
  BY <1>1, <1>4, <1>5
<1> QED BY <1>6 DEF IsWrap

(* A wrap goes back through the states of the unwrap.                        *)
LEMMA WrapGoesBack ==
  ASSUME NEW key, key \in Keys, NEW n, n \in Nat \ {0}, NEW u, NEW s, IsUnwrap(u, key, n, s),
         NEW w, IsWrap(w, key, n, u[Steps * n])
  PROVE  w[Steps * n] = s
<1> DEFINE N == Steps * n
           S == {t \in 0..N : w[t] = u[N - t]}
<1>1. N \in Nat /\ N - 0 = N /\ N - N = 0
  BY DEF Steps
<1>2. 0 \in S
  BY <1>1 DEF IsWrap
<1>3. ASSUME NEW t \in 1..N, t - 1 \in S PROVE t \in S
  <2> DEFINE k == N - t + 1
  <2>1. t \in 0..N /\ t \in Nat \ {0} /\ k \in 1..N /\ N - (t - 1) = k /\ k - 1 = N - t /\ k - 1 \in 0..N
        /\ N - k + 1 = t
    BY <1>1
  <2>2. w[t - 1] = u[k]
    BY <1>3, <2>1
  <2> HIDE DEF k
  <2>3. u[k] = UnwrapStep(key, n, t, u[k - 1]) /\ u[k - 1] \in States(n)
    BY <2>1 DEF IsUnwrap
  <2>4. w[t] = WrapStep(key, n, t, w[t - 1])
    BY DEF IsWrap
  <2>5. WrapStep(key, n, t, UnwrapStep(key, n, t, u[k - 1])) = u[k - 1]
    BY ONLY <2>1, <2>3, key \in Keys, n \in Nat \ {0}, UnwrapUndone
  <2> QED BY <2>1, <2>2, <2>3, <2>4, <2>5
<1>4. \A t \in 0..N : t \in S
  <2> HIDE DEF S, N
  <2> QED BY ONLY <1>1, <1>2, <1>3, UpToInduction
<1>5. N \in 0..N
  BY <1>1
<1>6. w[N] = u[0]
  BY <1>1, <1>4, <1>5
<1> QED BY <1>6 DEF IsUnwrap

(* What is wrapped is unwrapped, and nothing else has that wrapping.        *)
LEMMA WrapIsWords ==
  ASSUME NEW key, key \in Keys, NEW plain, plain \in Seq(Uint64), plain # <<>>
  PROVE  /\ Rfc3394_KeyWrap(plain, key) \in Seq(Uint64)
         /\ Len(Rfc3394_KeyWrap(plain, key)) = Len(plain) + 1
<1> DEFINE n == Len(plain)
           N == Steps * n
           c == Rfc3394_KeyWrap(plain, key)
<1>1. PICK w : IsWrap(w, key, n, [a |-> DefaultIv, r |-> plain]) /\ c = <<w[N].a>> \o w[N].r
  BY WrapStates
<1>2. n \in Nat \ {0} /\ N \in 0..N
  BY DEF Steps
<1> HIDE DEF n, N, c
<1>3. w[N] \in States(n)
  BY <1>1, <1>2 DEF IsWrap, N
<1>4. w[N].a \in Uint64 /\ w[N].r \in [1..n -> Uint64]
  BY <1>3 DEF States
<1>5. w[N].r \in Seq(Uint64) /\ Len(w[N].r) = n
  BY <1>2, <1>4
<1> DEFINE a == w[N].a
           r == w[N].r
<1> HIDE DEF a, r
<1>6. a \in Uint64 /\ r \in Seq(Uint64) /\ Len(r) = n
  BY <1>4, <1>5 DEF a, r
<1>7. <<a>> \o r \in Seq(Uint64) /\ Len(<<a>> \o r) = n + 1
  BY <1>2, <1>6
<1> QED BY <1>1, <1>7 DEF a, r, c, n

(* What is wrapped is unwrapped.                                             *)
LEMMA Unwrapped ==
  ASSUME NEW key, key \in Keys, NEW plain, plain \in Seq(Uint64), plain # <<>>
  PROVE  Rfc3394_KeyUnwrap(Rfc3394_KeyWrap(plain, key), key) = [ok |-> TRUE, plain |-> plain]
<1> DEFINE n == Len(plain)
           N == Steps * n
           c == Rfc3394_KeyWrap(plain, key)
           e == [a |-> DefaultIv, r |-> plain]
<1>1. PICK w : IsWrap(w, key, n, e) /\ c = <<w[N].a>> \o w[N].r
  BY WrapStates
<1>2. c \in Seq(Uint64) /\ Len(c) = n + 1
  BY WrapIsWords
<1>3. n \in Nat \ {0} /\ N \in 0..N
  BY DEF Steps
<1> HIDE DEF n, c, e
<1>4. PICK u : /\ IsUnwrap(u, key, n, [a |-> c[1], r |-> Tail(c)])
               /\ Rfc3394_KeyUnwrap(c, key) = [ok |-> u[N].a = DefaultIv, plain |-> u[N].r]
  BY ONLY <1>2, <1>3, key \in Keys, UnwrapStates
<1>5. [a |-> c[1], r |-> Tail(c)] = w[N]
  <2>1. w[N] \in States(n)
    BY <1>1, <1>3 DEF IsWrap
  <2>2. w[N].a \in Uint64 /\ w[N].r \in [1..n -> Uint64] /\ w[N] = [a |-> w[N].a, r |-> w[N].r]
    BY <2>1 DEF States
  <2> DEFINE a == w[N].a
             r == w[N].r
  <2> HIDE DEF a, r
  <2>3. a \in Uint64 /\ r \in [1..n -> Uint64] /\ c = <<a>> \o r
    BY <1>1, <2>2 DEF a, r
  <2>4. r \in Seq(Uint64)
    BY <1>3, <2>3
  <2>5. (<<a>> \o r)[1] = a /\ Tail(<<a>> \o r) = r
    BY ONLY <2>3, <2>4
  <2>6. c[1] = a /\ Tail(c) = r
    BY ONLY <2>3, <2>5
  <2> QED BY <2>2, <2>6 DEF a, r
<1>6. u[N] = e
  BY ONLY <1>1, <1>3, <1>4, <1>5, key \in Keys, UnwrapGoesBack
<1>7. u[N].a = DefaultIv /\ u[N].r = plain
  BY ONLY <1>6 DEF e
<1>8. [ok |-> u[N].a = DefaultIv, plain |-> u[N].r] = [ok |-> TRUE, plain |-> plain]
  <2>1. (u[N].a = DefaultIv) = TRUE
    BY <1>7
  <2> QED BY ONLY <1>7, <2>1
<1> QED BY ONLY <1>4, <1>8 DEF c

(* What is unwrapped as right has that wrapping, and so nothing else has.    *)
LEMMA WrappedAgain ==
  ASSUME NEW key, key \in Keys, NEW crypto, crypto \in Seq(Uint64), Len(crypto) >= 2,
         Rfc3394_KeyUnwrap(crypto, key).ok
  PROVE  Rfc3394_KeyWrap(Rfc3394_KeyUnwrap(crypto, key).plain, key) = crypto
<1> DEFINE n == Len(crypto) - 1
           N == Steps * n
           e == [a |-> crypto[1], r |-> Tail(crypto)]
<1>1. n \in Nat \ {0} /\ N \in 0..N /\ Len(crypto) = n + 1
  <2>1. Len(crypto) \in Nat
    OBVIOUS
  <2>2. n \in Nat \ {0} /\ Len(crypto) = n + 1
    BY <2>1
  <2> QED BY <2>2 DEF Steps
<1> HIDE DEF n
<1>2. PICK u : /\ IsUnwrap(u, key, n, e)
               /\ Rfc3394_KeyUnwrap(crypto, key) = [ok |-> u[N].a = DefaultIv, plain |-> u[N].r]
  BY ONLY <1>1, key \in Keys, crypto \in Seq(Uint64), UnwrapStates
<1> DEFINE p == u[N].r
<1>3. Rfc3394_KeyUnwrap(crypto, key).plain = p /\ u[N].a = DefaultIv
  <2> DEFINE b == u[N].a = DefaultIv
  <2> HIDE DEF b, p
  <2>1. Rfc3394_KeyUnwrap(crypto, key) = [ok |-> b, plain |-> p]
    BY ONLY <1>2 DEF b, p
  <2>2. [ok |-> b, plain |-> p].ok = b /\ [ok |-> b, plain |-> p].plain = p
    OBVIOUS
  <2> QED BY <2>1, <2>2 DEF b
<1>4. u[N] \in States(n)
  BY <1>1, <1>2 DEF IsUnwrap
<1>5. p \in [1..n -> Uint64] /\ u[N] = [a |-> u[N].a, r |-> p]
  BY <1>4 DEF States
<1> HIDE DEF p, e
<1>6. p \in Seq(Uint64) /\ Len(p) = n /\ p # <<>>
  BY <1>1, <1>5
<1>7. PICK w : /\ IsWrap(w, key, Len(p), [a |-> DefaultIv, r |-> p])
               /\ Rfc3394_KeyWrap(p, key) = <<w[Steps * Len(p)].a>> \o w[Steps * Len(p)].r
  BY ONLY <1>6, key \in Keys, WrapStates
<1>8. IsWrap(w, key, n, u[N]) /\ Rfc3394_KeyWrap(p, key) = <<w[N].a>> \o w[N].r
  BY ONLY <1>3, <1>5, <1>6, <1>7
<1>9. w[N] = e
  BY ONLY <1>1, <1>2, <1>8, key \in Keys, WrapGoesBack
<1>10. <<crypto[1]>> \o Tail(crypto) = crypto
  BY <1>1
<1>11. <<w[N].a>> \o w[N].r = <<crypto[1]>> \o Tail(crypto)
  BY ONLY <1>9 DEF e
<1> QED BY ONLY <1>3, <1>8, <1>10, <1>11

-----------------------------------------------------------------------------
(* AES-XTS.                                                                  *)

(* There is but one quotient.                                                *)
LEMMA DivUnique ==
  ASSUME NEW m \in Nat \ {0}, NEW x \in Int, NEW q \in Int, NEW r \in Nat, r < m, x = m * q + r
  PROVE  x \div m = q
OBVIOUS

\* A word that is doubled, and what is carried.
LEMMA Doubled ==
  ASSUME NEW h \in Nat \ {0}, NEW x \in 0..(2 * h - 1)
  PROVE  \E c \in {0, 1} : /\ c = IF x >= h THEN 1 ELSE 0
                           /\ (2 * x) % (2 * h) = 2 * x - 2 * h * c
                           /\ 2 * x - 2 * h * c \in 0..(2 * h - 2)
<1> DEFINE m == 2 * h
<1>1. m \in Nat \ {0} /\ m = 2 * h
  OBVIOUS
<1> HIDE DEF m
<1>2. CASE x >= h
  <2>1. 2 * x \in Int /\ 2 * x - m \in Nat /\ 2 * x - m < m /\ 2 * x = m * 1 + (2 * x - m)
        /\ 2 * x - m \in 0..(m - 2)
    BY <1>1, <1>2
  <2>2. (2 * x) % m = 2 * x - m
    BY ONLY <1>1, <2>1, ModUnique
  <2>3. 2 * h * 1 = m
    BY ONLY <1>1, h \in Nat \ {0}
  <2> QED BY <1>1, <1>2, <2>1, <2>2, <2>3
<1>3. CASE x < h
  <2>1. 2 * x \in Int /\ 2 * x \in Nat /\ 2 * x < m /\ 2 * x = m * 0 + 2 * x /\ 2 * x \in 0..(m - 2)
    BY <1>1, <1>3
  <2>2. (2 * x) % m = 2 * x
    BY ONLY <1>1, <2>1, ModUnique
  <2>3. 2 * h * 0 = 0
    BY ONLY h \in Nat \ {0}
  <2> QED BY <1>1, <1>3, <2>1, <2>2, <2>3
<1> QED BY <1>2, <1>3

\* The words x and y, doubled, are the words a and b, and c and d are carried.
Carries(m, x, y, c, d, a, b) ==
  /\ m \in Nat \ {0} /\ x \in Nat /\ y \in Nat /\ c \in {0, 1} /\ d \in {0, 1} /\ a \in Nat /\ b \in Nat
  /\ x < m /\ y < m /\ a < m /\ b < m
  /\ 2 * x = m * c + a /\ 2 * y + c = m * d + b

\* The number with words x and y, doubled, has words a and b, and d is carried.
HasDoubled(m, x, y, d, a, b) ==
  /\ (2 * (x + m * y)) % (m * m) = a + m * b
  /\ (a + m * b) % m = a /\ (a + m * b) \div m = b
  /\ 2 * (x + m * y) >= m * m <=> d = 1

\* A number of two words, doubled: what is carried goes from one word to the other.
LEMMA NumberDoubled ==
  ASSUME NEW m, NEW x, NEW y, NEW c, NEW d, NEW a, NEW b, Carries(m, x, y, c, d, a, b)
  PROVE  HasDoubled(m, x, y, d, a, b)
<1>0. /\ m \in Nat \ {0} /\ x \in Nat /\ y \in Nat /\ c \in {0, 1} /\ d \in {0, 1} /\ a \in Nat /\ b \in Nat
      /\ x < m /\ y < m /\ a < m /\ b < m
      /\ 2 * x = m * c + a /\ 2 * y + c = m * d + b
  BY DEF Carries
<1>1. /\ m * m \in Nat \ {0} /\ m * y \in Nat /\ m * b \in Nat /\ m * c \in Nat
      /\ a + m * b \in Nat /\ 2 * (x + m * y) \in Nat
  BY ONLY <1>0
<1>2. m * (2 * y + c) = m * (m * d + b)
  BY ONLY <1>0
<1>3. m * (2 * y + c) = 2 * (m * y) + m * c
  BY ONLY <1>0
<1>4. m * (m * d + b) = (m * m) * d + m * b
  BY ONLY <1>0
<1>5. 2 * (x + m * y) = (m * m) * d + (a + m * b)
  <2>1. 2 * (x + m * y) = 2 * x + 2 * (m * y)
    BY ONLY <1>0
  <2> QED BY ONLY <1>1, <1>2, <1>3, <1>4, <2>1, <1>0
<1>6. a + m * b < m * m
  <2>1. m * b <= m * (m - 1)
    BY ONLY <1>0
  <2>2. m * (m - 1) = m * m - m
    BY ONLY <1>0
  <2> QED BY ONLY <1>1, <2>1, <2>2, <1>0
<1>7. (2 * (x + m * y)) % (m * m) = a + m * b
  BY ONLY <1>1, <1>5, <1>6, <1>0, ModUnique
<1>8. a + m * b = m * b + a
  BY ONLY <1>1, <1>0
<1>9. (a + m * b) % m = a
  BY ONLY <1>1, <1>8, <1>0, ModUnique
<1>10. (a + m * b) \div m = b
  BY ONLY <1>1, <1>8, <1>0, DivUnique
<1>11. 2 * (x + m * y) >= m * m <=> d = 1
  <2>1. CASE d = 0
    BY ONLY <1>1, <1>5, <1>6, <2>1
  <2>2. CASE d = 1
    BY ONLY <1>1, <1>5, <1>6, <2>2
  <2> QED BY ONLY <1>0, <2>1, <2>2
<1> QED BY <1>7, <1>9, <1>10, <1>11 DEF HasDoubled

(* MultiplyTweak is what IEEE 1619 has.                                     *)
LEMMA TweakMultiplied ==
  ASSUME NEW w, w \in CipherBlocks
  PROVE  MultiplyTweak(w) = TimesX(w) /\ MultiplyTweak(w) \in CipherBlocks
<1>1. PICK h \in Nat \ {0} : Half = 2 * h /\ Half \div 2 = h
  <2>1. Half \in Nat /\ Half >= 2 /\ Half % 2 = 0
    BY WordsAssumption
  <2> DEFINE q == Half \div 2
  <2>2. Half = 2 * q /\ q \in Nat \ {0}
    BY ONLY <2>1
  <2> QED BY <2>2
<1> DEFINE x == w[1]
           y == w[2]
<1>2. x \in 0..(Half - 1) /\ y \in 0..(Half - 1)
  BY DEF CipherBlocks, Uint64
<1> HIDE DEF x, y
<1>3. x \in 0..(2 * h - 1) /\ y \in 0..(2 * h - 1)
  BY ONLY <1>1, <1>2
<1>4. PICK c \in {0, 1} : /\ c = IF x >= h THEN 1 ELSE 0
                          /\ (2 * x) % (2 * h) = 2 * x - 2 * h * c
                          /\ 2 * x - 2 * h * c \in 0..(2 * h - 2)
  BY ONLY <1>3, h \in Nat \ {0}, Doubled
<1>5. PICK d \in {0, 1} : /\ d = IF y >= h THEN 1 ELSE 0
                          /\ (2 * y) % (2 * h) = 2 * y - 2 * h * d
                          /\ 2 * y - 2 * h * d \in 0..(2 * h - 2)
  BY ONLY <1>3, h \in Nat \ {0}, Doubled
<1> DEFINE a == (2 * x) % Half
           b == ((2 * y) % Half) + c
           v == IF y >= Half \div 2 THEN Poly ELSE 0
           t == a + Half * b
<1>6. MultiplyTweak(w) = <<WordXor(a, v), b>>
  BY ONLY <1>1, <1>4 DEF MultiplyTweak, x, y
<1>7. /\ a \in Nat /\ b \in Nat /\ a < Half /\ b < Half
      /\ 2 * x = Half * c + a /\ 2 * y + c = Half * d + b
  <2>1. a \in 0..(2 * h - 2) /\ a = 2 * x - 2 * h * c
    BY ONLY <1>1, <1>4
  <2>2. b - c \in 0..(2 * h - 2) /\ b - c = 2 * y - 2 * h * d /\ b \in Int
    <3>1. (2 * y) % Half \in 0..(2 * h - 2) /\ (2 * y) % Half = 2 * y - 2 * h * d
      BY ONLY <1>1, <1>5
    <3> DEFINE z == (2 * y) % Half
    <3> HIDE DEF z
    <3>2. z \in 0..(2 * h - 2) /\ z = 2 * y - 2 * h * d
      BY ONLY <3>1 DEF z
    <3>3. (z + c) - c = z /\ z + c \in Int
      BY ONLY <3>2, h \in Nat \ {0}, c \in {0, 1}
    <3> QED BY ONLY <3>2, <3>3 DEF z
  <2> HIDE DEF a, b
  <2>3. a \in Nat /\ a < Half /\ 2 * x = Half * c + a
    BY ONLY <1>1, <1>3, <2>1, c \in {0, 1}, h \in Nat \ {0}
  <2>4. b \in Nat /\ b < Half /\ 2 * y + c = Half * d + b
    BY ONLY <1>1, <1>3, <2>2, c \in {0, 1}, d \in {0, 1}, h \in Nat \ {0}
  <2> QED BY <2>3, <2>4
<1> HIDE DEF a, b
<1>8. /\ (2 * (x + Half * y)) % (Half * Half) = t
      /\ t % Half = a /\ t \div Half = b
      /\ 2 * (x + Half * y) >= Half * Half <=> d = 1
  <2>1. Half \in Nat \ {0} /\ x \in Nat /\ y \in Nat /\ x < Half /\ y < Half
    BY ONLY <1>1, <1>2
  <2>2. HasDoubled(Half, x, y, d, a, b)
    <3>1. Carries(Half, x, y, c, d, a, b)
      BY ONLY <1>7, <2>1, c \in {0, 1}, d \in {0, 1} DEF Carries
    <3> QED BY ONLY <3>1, NumberDoubled
  <2> QED BY ONLY <2>2 DEF HasDoubled
<1> HIDE DEF t
<1>9. TimesX(w) = IF d = 1 THEN <<WordXor(a, Poly), b>> ELSE <<a, b>>
  BY ONLY <1>8 DEF TimesX, x, y
<1>10. a \in Uint64 /\ b \in Uint64
  BY ONLY <1>1, <1>7 DEF Uint64
<1>11. v = (IF d = 1 THEN Poly ELSE 0) /\ v \in Uint64
  <2>1. Poly \in Uint64 /\ 0 \in Uint64
    BY <1>1, WordsAssumption DEF Uint64
  <2> QED BY ONLY <1>1, <1>5, <2>1
<1> HIDE DEF v
<1>12. WordXor(a, 0) = a /\ WordXor(a, v) \in Uint64
  BY <1>10, <1>11, WordsAssumption
<1>13. MultiplyTweak(w) = TimesX(w)
  BY ONLY <1>6, <1>9, <1>11, <1>12, d \in {0, 1}
<1> QED BY ONLY <1>6, <1>10, <1>12, <1>13 DEF CipherBlocks

\* The tweaks of n blocks, each of which is that before, times x.
AreTweaks(w, key, unit, n) ==
  /\ w \in [1..n -> CipherBlocks]
  /\ \A k \in 1..n : w[k] = IF k = 1 THEN Enc[key][<<unit, 0>>] ELSE MultiplyTweak(w[k - 1])

(* The first tweak is a block.                                               *)
LEMMA FirstTweak ==
  ASSUME NEW key \in Keys, NEW unit \in Uint64
  PROVE  Enc[key][<<unit, 0>>] \in CipherBlocks
<1>1. 0 \in Uint64
  BY WordsAssumption DEF Uint64
<1>2. <<unit, 0>> \in CipherBlocks
  BY <1>1 DEF CipherBlocks
<1> QED BY <1>2, CipherAssumption

(* There are such tweaks,                                                    *)
LEMMA TweaksExist ==
  ASSUME NEW key, key \in Keys, NEW unit, unit \in Uint64, NEW n, n \in Nat
  PROVE  \E w : AreTweaks(w, key, unit, n)
<1> DEFINE X == CipherBlocks
           e == Enc[key][<<unit, 0>>]
           D == [p \in X \X (1..n) |-> IF p[2] = 1 THEN e ELSE MultiplyTweak(p[1])]
<1>1. e \in X
  BY FirstTweak
<1> HIDE DEF e
<1>2. D \in [X \X (1..n) -> X]
  <2>1. ASSUME NEW p \in X \X (1..n) PROVE (IF p[2] = 1 THEN e ELSE MultiplyTweak(p[1])) \in X
    <3>1. p[1] \in X
      OBVIOUS
    <3>2. MultiplyTweak(p[1]) \in X
      BY <3>1, TweakMultiplied
    <3> QED BY <1>1, <3>2
  <2> HIDE DEF X
  <2> QED BY <2>1
<1>3. ASSUME NEW k \in 1..n, NEW x \in X
      PROVE  D[<<x, k>>] = IF k = 1 THEN e ELSE MultiplyTweak(x)
  <2>1. <<x, k>> \in X \X (1..n) /\ <<x, k>>[1] = x /\ <<x, k>>[2] = k
    OBVIOUS
  <2> HIDE DEF X
  <2> QED BY <2>1
<1> HIDE DEF D, X
<1>4. PICK f : IsRecursion(f, X, e, n, D)
  BY ONLY <1>1, <1>2, n \in Nat, Recursion
<1> DEFINE w == [k \in 1..n |-> f[k]]
<1>5. f \in [0..n -> X]
  BY <1>4 DEF IsRecursion
<1>6. w \in [1..n -> X]
  <2>1. \A k \in 1..n : k \in 0..n
    OBVIOUS
  <2> QED BY <1>5, <2>1
<1>7. ASSUME NEW k \in 1..n PROVE w[k] = IF k = 1 THEN e ELSE MultiplyTweak(w[k - 1])
  <2>1. k - 1 \in 0..n /\ f[k] = D[<<f[k - 1], k>>]
    BY <1>4 DEF IsRecursion
  <2>2. f[k - 1] \in X
    BY <1>5, <2>1
  <2>3. w[k] = IF k = 1 THEN e ELSE MultiplyTweak(f[k - 1])
    BY <1>3, <2>1, <2>2
  <2>4. k # 1 => w[k - 1] = f[k - 1]
    <3>1. k # 1 => k - 1 \in 1..n
      OBVIOUS
    <3> QED BY <3>1
  <2> QED BY ONLY <2>3, <2>4
<1> HIDE DEF w
<1> QED BY <1>6, <1>7 DEF AreTweaks, X, e

(* and no others.                                                            *)
LEMMA TweaksUnique ==
  ASSUME NEW key, NEW unit, NEW n, n \in Nat, NEW v, NEW w,
         AreTweaks(v, key, unit, n), AreTweaks(w, key, unit, n)
  PROVE  v = w
<1> DEFINE S == {k \in 0..n : k = 0 \/ v[k] = w[k]}
<1>1. 0 \in S
  OBVIOUS
<1>2. ASSUME NEW k \in 1..n, k - 1 \in S PROVE k \in S
  <2>1. /\ v[k] = IF k = 1 THEN Enc[key][<<unit, 0>>] ELSE MultiplyTweak(v[k - 1])
        /\ w[k] = IF k = 1 THEN Enc[key][<<unit, 0>>] ELSE MultiplyTweak(w[k - 1])
    BY DEF AreTweaks
  <2>2. k - 1 = 0 \/ v[k - 1] = w[k - 1]
    BY <1>2
  <2>3. v[k] = w[k]
    BY <2>1, <2>2
  <2> QED BY <2>3
<1>3. \A k \in 0..n : k \in S
  <2> HIDE DEF S
  <2> QED BY ONLY <1>1, <1>2, n \in Nat, UpToInduction
<1>4. \A k \in 1..n : v[k] = w[k]
  <2>1. \A k \in 1..n : k \in 0..n /\ k # 0
    OBVIOUS
  <2> QED BY <1>3, <2>1
<1>5. v \in [1..n -> CipherBlocks] /\ w \in [1..n -> CipherBlocks]
  BY DEF AreTweaks
<1>6. v = [k \in 1..n |-> v[k]] /\ w = [k \in 1..n |-> w[k]]
  BY <1>5
<1> QED BY ONLY <1>4, <1>6

(* The loop of AesXts computes them.                                         *)
LEMMA TweaksRight ==
  ASSUME NEW key, key \in Keys, NEW unit, unit \in Uint64, NEW n, n \in Nat
  PROVE  AreTweaks(Tweaks(key, unit, n), key, unit, n)
<1> DEFINE e == Enc[key][<<unit, 0>>]
           Is(f) == f = [i \in 1..n |-> IF i = 1 THEN e ELSE MultiplyTweak(f[i - 1])]
           w == CHOOSE f : Is(f)
<1>1. PICK v : AreTweaks(v, key, unit, n)
  BY TweaksExist
<1>2. Is(v)
  <2>1. v = [k \in 1..n |-> v[k]] /\ \A k \in 1..n : v[k] = IF k = 1 THEN e ELSE MultiplyTweak(v[k - 1])
    BY <1>1 DEF AreTweaks
  <2> HIDE DEF e
  <2> QED BY ONLY <2>1
<1>3. Is(w)
  BY <1>2
<1>4. Tweaks(key, unit, n) = w
  BY DEF Tweaks
<1> HIDE DEF w
<1>5. \A k \in 1..n : w[k] = IF k = 1 THEN e ELSE MultiplyTweak(w[k - 1])
  <2> HIDE DEF e
  <2> QED BY ONLY <1>3
<1>6. e \in CipherBlocks
  BY FirstTweak
<1> HIDE DEF e
<1> DEFINE S == {k \in 0..n : k = 0 \/ w[k] \in CipherBlocks}
<1>7. 0 \in S
  OBVIOUS
<1>8. ASSUME NEW k \in 1..n, k - 1 \in S PROVE k \in S
  <2>1. k = 1 \/ w[k - 1] \in CipherBlocks
    BY <1>8
  <2>2. w[k] \in CipherBlocks
    BY <1>5, <1>6, <2>1, TweakMultiplied
  <2> QED BY <2>2
<1>9. \A k \in 0..n : k \in S
  <2> HIDE DEF S
  <2> QED BY ONLY <1>7, <1>8, n \in Nat, UpToInduction
<1>10. \A k \in 1..n : w[k] \in CipherBlocks
  <2>1. \A k \in 1..n : k \in 0..n /\ k # 0
    OBVIOUS
  <2> QED BY <1>9, <2>1
<1>11. w \in [1..n -> CipherBlocks]
  <2>1. w = [k \in 1..n |-> w[k]]
    BY ONLY <1>3
  <2> QED BY ONLY <1>10, <2>1
<1> QED BY ONLY <1>4, <1>5, <1>11 DEF AreTweaks, e

\* The tweaks of IEEE 1619 are those.
LEMMA StandardTweaks ==
  ASSUME NEW key, key \in Keys, NEW unit, unit \in Uint64, NEW n, n \in Nat
  PROVE  Tweaks(key, unit, n) =
           CHOOSE f : f = [k \in 1..n |-> IF k = 1 THEN Enc[key][<<unit, 0>>] ELSE TimesX(f[k - 1])]
<1> DEFINE e == Enc[key][<<unit, 0>>]
           Is(f) == f = [k \in 1..n |-> IF k = 1 THEN e ELSE TimesX(f[k - 1])]
           w == CHOOSE f : Is(f)
           v == Tweaks(key, unit, n)
<1>1. AreTweaks(v, key, unit, n)
  BY TweaksRight
<1> HIDE DEF v
<1>2. Is(v)
  <2>1. v = [k \in 1..n |-> v[k]] /\ v \in [1..n -> CipherBlocks]
        /\ \A k \in 1..n : v[k] = IF k = 1 THEN e ELSE MultiplyTweak(v[k - 1])
    BY <1>1 DEF AreTweaks
  <2> HIDE DEF e
  <2>2. ASSUME NEW k \in 1..n PROVE v[k] = IF k = 1 THEN e ELSE TimesX(v[k - 1])
    <3>1. CASE k = 1
      BY ONLY <2>1, <3>1, k \in 1..n
    <3>2. CASE k # 1
      <4>1. k - 1 \in 1..n
        BY <3>2
      <4>2. v[k - 1] \in CipherBlocks
        BY <2>1, <4>1
      <4>3. MultiplyTweak(v[k - 1]) = TimesX(v[k - 1])
        BY ONLY <4>2, TweakMultiplied
      <4>4. v[k] = MultiplyTweak(v[k - 1])
        BY ONLY <2>1, <3>2, k \in 1..n
      <4> QED BY ONLY <3>2, <4>3, <4>4
    <3> QED BY <3>1, <3>2
  <2> QED BY ONLY <2>1, <2>2
<1>3. Is(w)
  BY <1>2
<1> HIDE DEF w
<1>4. \A k \in 1..n : w[k] = IF k = 1 THEN e ELSE TimesX(w[k - 1])
  <2> HIDE DEF e
  <2> QED BY ONLY <1>3
<1>5. e \in CipherBlocks
  BY FirstTweak
<1> HIDE DEF e
<1> DEFINE Right(k) == w[k] \in CipherBlocks /\ w[k] = IF k = 1 THEN e ELSE MultiplyTweak(w[k - 1])
           S == {k \in 0..n : k = 0 \/ Right(k)}
<1>6. 0 \in S
  OBVIOUS
<1>7. ASSUME NEW k \in 1..n, k - 1 \in S PROVE k \in S
  <2>1. k = 1 \/ w[k - 1] \in CipherBlocks
    BY <1>7
  <2>2. CASE k = 1
    <3>1. w[k] = e
      BY <1>4, <2>2
    <3> QED BY <1>5, <2>2, <3>1
  <2>3. CASE k # 1 /\ w[k - 1] \in CipherBlocks
    <3>1. w[k] = TimesX(w[k - 1])
      BY <1>4, <2>3
    <3>2. MultiplyTweak(w[k - 1]) = TimesX(w[k - 1]) /\ MultiplyTweak(w[k - 1]) \in CipherBlocks
      BY ONLY <2>3, TweakMultiplied
    <3>3. Right(k)
      BY ONLY <2>3, <3>1, <3>2
    <3> HIDE DEF Right
    <3> QED BY <3>3
  <2> QED BY <2>1, <2>2, <2>3
<1>8. \A k \in 0..n : k \in S
  <2> HIDE DEF S
  <2> QED BY ONLY <1>6, <1>7, n \in Nat, UpToInduction
<1>9. \A k \in 1..n : Right(k)
  <2>1. \A k \in 1..n : k \in 0..n /\ k # 0
    OBVIOUS
  <2> HIDE DEF Right
  <2> QED BY <1>8, <2>1
<1>10. w = [k \in 1..n |-> w[k]]
  BY ONLY <1>3
<1>11. AreTweaks(w, key, unit, n)
  <2>1. w \in [1..n -> CipherBlocks]
    BY ONLY <1>9, <1>10
  <2> QED BY ONLY <1>9, <2>1 DEF AreTweaks, e
<1>12. v = w
  BY ONLY <1>1, <1>11, n \in Nat, TweaksUnique
<1> QED BY ONLY <1>12 DEF v, w, e

(* A unit is encrypted as IEEE 1619 has it.                                  *)
LEMMA UnitRight ==
  ASSUME NEW keys, keys \in Keys \X Keys, NEW unit, unit \in Uint64, NEW plain, plain \in Seq(CipherBlocks)
  PROVE  XtsEncrypt(keys, plain, unit) = XtsUnit(keys, plain, unit)
<1> DEFINE n == Len(plain)
           key == keys[2]
           t == Tweaks(key, unit, n)
           w == CHOOSE f : f = [k \in 1..n |-> IF k = 1 THEN Enc[key][<<unit, 0>>] ELSE TimesX(f[k - 1])]
<1>1. t = w
  <2>1. key \in Keys /\ n \in Nat
    OBVIOUS
  <2> HIDE DEF key, n
  <2> QED BY ONLY <2>1, unit \in Uint64, StandardTweaks
<1>2. XtsEncrypt(keys, plain, unit) =
        [k \in DOMAIN plain |-> Xor128(Enc[keys[1]][Xor128(plain[k], t[k])], t[k])]
  BY DEF XtsEncrypt
<1>3. XtsUnit(keys, plain, unit) =
        [k \in DOMAIN plain |-> Xor128(Enc[keys[1]][Xor128(plain[k], w[k])], w[k])]
  BY DEF XtsUnit
<1> HIDE DEF t, w
<1> QED BY ONLY <1>1, <1>2, <1>3

(* An exclusive or, done twice, is undone.                                   *)
LEMMA XorTwice ==
  ASSUME NEW x \in CipherBlocks, NEW y \in CipherBlocks
  PROVE  Xor128(x, y) \in CipherBlocks /\ Xor128(Xor128(x, y), y) = x
<1>1. PICK a \in Uint64, b \in Uint64 : x = <<a, b>>
  BY DEF CipherBlocks
<1>2. PICK c \in Uint64, d \in Uint64 : y = <<c, d>>
  BY DEF CipherBlocks
<1>3. /\ WordXor(a, c) \in Uint64 /\ WordXor(WordXor(a, c), c) = a
      /\ WordXor(b, d) \in Uint64 /\ WordXor(WordXor(b, d), d) = b
  BY WordsAssumption
<1>4. Xor128(x, y) = <<WordXor(a, c), WordXor(b, d)>>
  BY <1>1, <1>2 DEF Xor128
<1>5. Xor128(Xor128(x, y), y) = <<WordXor(WordXor(a, c), c), WordXor(WordXor(b, d), d)>>
  BY <1>2, <1>4 DEF Xor128
<1> QED BY ONLY <1>1, <1>3, <1>4, <1>5 DEF CipherBlocks

(* A unit is decrypted to what was encrypted.                               *)
LEMMA UnitDecrypted ==
  ASSUME NEW keys, keys \in Keys \X Keys, NEW unit, unit \in Uint64, NEW plain, plain \in Seq(CipherBlocks)
  PROVE  XtsDecrypt(keys, XtsEncrypt(keys, plain, unit), unit) = plain
<1> DEFINE n == Len(plain)
           t == Tweaks(keys[2], unit, n)
           c == XtsEncrypt(keys, plain, unit)
<1>1. n \in Nat /\ DOMAIN plain = 1..n
  OBVIOUS
<1>2. t \in [1..n -> CipherBlocks]
  <2>1. keys[2] \in Keys
    OBVIOUS
  <2> QED BY <1>1, <2>1, TweaksRight DEF AreTweaks
<1>3. c = [k \in 1..n |-> Xor128(Enc[keys[1]][Xor128(plain[k], t[k])], t[k])]
  BY <1>1 DEF XtsEncrypt
<1> HIDE DEF n, t, c
<1>4. DOMAIN c = 1..n /\ Len(c) = n
  <2>1. DOMAIN c = 1..n
    BY <1>3
  <2>2. c \in [1..n -> {c[k] : k \in 1..n}]
    BY <1>3
  <2> QED BY <1>1, <2>1, <2>2
<1>5. XtsDecrypt(keys, c, unit) = [k \in 1..n |-> Xor128(Dec[keys[1]][Xor128(c[k], t[k])], t[k])]
  BY ONLY <1>4 DEF XtsDecrypt, t
<1>6. ASSUME NEW k \in 1..n PROVE Xor128(Dec[keys[1]][Xor128(c[k], t[k])], t[k]) = plain[k]
  <2>1. plain[k] \in CipherBlocks /\ t[k] \in CipherBlocks
    BY <1>1, <1>2
  <2> DEFINE x == Xor128(plain[k], t[k])
  <2>2. x \in CipherBlocks /\ Xor128(x, t[k]) = plain[k]
    BY <2>1, XorTwice
  <2> HIDE DEF x
  <2>3. Enc[keys[1]][x] \in CipherBlocks /\ Dec[keys[1]][Enc[keys[1]][x]] = x
    <3>1. keys[1] \in Keys
      OBVIOUS
    <3> QED BY <2>2, <3>1, CipherAssumption
  <2>4. Xor128(Xor128(Enc[keys[1]][x], t[k]), t[k]) = Enc[keys[1]][x]
    BY <2>1, <2>3, XorTwice
  <2>5. c[k] = Xor128(Enc[keys[1]][x], t[k])
    BY <1>3 DEF x
  <2> QED BY ONLY <2>2, <2>3, <2>4, <2>5
<1>7. plain = [k \in 1..n |-> plain[k]]
  BY <1>1
<1> QED BY ONLY <1>5, <1>6, <1>7 DEF c

(* The number of a unit is a word.                                           *)
LEMMA UnitNoWord ==
  ASSUME NEW block \in Nat, NEW k \in Nat \ {0}
  PROVE  UnitNo(block, k) \in Uint64 /\ UnitNo(block, k) = (block * PerBlock + k - 1) % Half
<1>1. PerBlock \in Nat
  BY WordsAssumption
<1>2. block * PerBlock \in Nat
  BY ONLY <1>1, block \in Nat
<1>3. block * PerBlock + k - 1 \in Nat
  BY ONLY <1>2, k \in Nat \ {0}
<1> QED BY <1>3, CounterWord DEF UnitNo

\* The data of units, encrypted by the code, and by the standard.
CipherOf(keys, data, block) ==
  [k \in DOMAIN data |-> XtsEncrypt(keys, data[k], UnitNo(block, k))]
StandardCipher(keys, data, block) ==
  [k \in DOMAIN data |-> XtsUnit(keys, data[k], (block * PerBlock + k - 1) % Half)]

(* What a unit is encrypted under is a word, and the number of the unit.       *)
LEMMA UnitOfBlock ==
  ASSUME NEW block, block \in Nat, NEW data, data \in Seq(Seq(CipherBlocks)), NEW k \in DOMAIN data
  PROVE  /\ data[k] \in Seq(CipherBlocks) /\ UnitNo(block, k) \in Uint64
         /\ UnitNo(block, k) = (block * PerBlock + k - 1) % Half
<1>1. k \in Nat \ {0} /\ data[k] \in Seq(CipherBlocks)
  OBVIOUS
<1> QED BY <1>1, UnitNoWord

(* The units of a block are encrypted as the standard has it.                  *)
LEMMA BlocksStandard ==
  ASSUME NEW keys, keys \in Keys \X Keys, NEW block, block \in Nat, NEW data, data \in Seq(Seq(CipherBlocks))
  PROVE  CipherOf(keys, data, block) = StandardCipher(keys, data, block)
<1>1. ASSUME NEW k \in DOMAIN data
      PROVE  XtsEncrypt(keys, data[k], UnitNo(block, k)) =
               XtsUnit(keys, data[k], (block * PerBlock + k - 1) % Half)
  <2>1. /\ data[k] \in Seq(CipherBlocks) /\ UnitNo(block, k) \in Uint64
        /\ UnitNo(block, k) = (block * PerBlock + k - 1) % Half
    BY UnitOfBlock
  <2> QED BY ONLY <2>1, keys \in Keys \X Keys, UnitRight
<1> QED BY <1>1 DEF CipherOf, StandardCipher

(* They are decrypted to their data.                                           *)
LEMMA BlocksDecrypted ==
  ASSUME NEW keys, keys \in Keys \X Keys, NEW block, block \in Nat, NEW data, data \in Seq(Seq(CipherBlocks))
  PROVE  DecryptBlocks(keys, CipherOf(keys, data, block), block) = data
<1> DEFINE cipher == CipherOf(keys, data, block)
<1>1. ASSUME NEW k \in DOMAIN data
      PROVE  XtsDecrypt(keys, cipher[k], UnitNo(block, k)) = data[k]
  <2>1. data[k] \in Seq(CipherBlocks) /\ UnitNo(block, k) \in Uint64
    BY UnitOfBlock
  <2>2. cipher[k] = XtsEncrypt(keys, data[k], UnitNo(block, k))
    BY DEF CipherOf
  <2> QED BY ONLY <2>1, <2>2, keys \in Keys \X Keys, UnitDecrypted
<1>2. data = [k \in DOMAIN data |-> data[k]] /\ DOMAIN cipher = DOMAIN data
  BY DEF CipherOf
<1> QED BY ONLY <1>1, <1>2 DEF DecryptBlocks

-----------------------------------------------------------------------------
(* Digests, and keys derived from passwords.                                 *)

\* The k-th block of w, the blocks of the first n symbols, and what is left of them.
Chunk(w, k) == [i \in 1..BlockLen |-> w[BlockLen * (k - 1) + i]]
Chunks(w, q) == [k \in 1..q |-> Chunk(w, k)]
Rest(w, q, r) == [i \in 1..r |-> w[BlockLen * q + i]]

\* A hasher that was given the first n symbols of w and has counted c.
Given(w, q, r, c) == Hasher(Chunks(w, q), Rest(w, q, r), c)
Hashed(w, n, c) == Given(w, n \div BlockLen, n % BlockLen, c)

(* A function from 1 to n is a sequence.                                       *)
LEMMA FcnIsSeq ==
  ASSUME NEW n, n \in Nat, NEW f, f = [i \in 1..n |-> f[i]]
  PROVE  f \in Seq({f[i] : i \in 1..n}) /\ Len(f) = n /\ DOMAIN f = 1..n
OBVIOUS

(* What is appended comes last.                                                *)
LEMMA AppendFcn ==
  ASSUME NEW n, n \in Nat, NEW f, f = [i \in 1..n |-> f[i]], NEW x
  PROVE  Append(f, x) = [i \in 1..(n + 1) |-> IF i = n + 1 THEN x ELSE f[i]]
<1> DEFINE T == {f[i] : i \in 1..n} \cup {x}
<1>1. f \in Seq(T) /\ Len(f) = n /\ x \in T
  <2>1. f \in [1..n -> T]
    OBVIOUS
  <2> QED BY <2>1
<1> HIDE DEF T
<1>2. Append(f, x) \in Seq(T) /\ Len(Append(f, x)) = n + 1
  BY <1>1
<1>3. \A i \in 1..(n + 1) : Append(f, x)[i] = IF i = n + 1 THEN x ELSE f[i]
  BY <1>1
<1>4. Append(f, x) = [i \in 1..(n + 1) |-> Append(f, x)[i]]
  BY <1>2
<1> QED BY ONLY <1>3, <1>4

(* One sequence, and then another.                                             *)
LEMMA ConcatFcn ==
  ASSUME NEW n, n \in Nat, NEW f, f = [i \in 1..n |-> f[i]],
         NEW m, m \in Nat, NEW g, g = [i \in 1..m |-> g[i]]
  PROVE  f \o g = [i \in 1..(n + m) |-> IF i <= n THEN f[i] ELSE g[i - n]]
<1> DEFINE T == {f[i] : i \in 1..n} \cup {g[i] : i \in 1..m}
<1>1. f \in Seq(T) /\ Len(f) = n /\ g \in Seq(T) /\ Len(g) = m
  <2>1. f \in [1..n -> T] /\ g \in [1..m -> T]
    OBVIOUS
  <2> HIDE DEF T
  <2>2. f \in Seq(T) /\ Len(f) = n
    BY <2>1
  <2>3. g \in Seq(T) /\ Len(g) = m
    BY <2>1
  <2> QED BY <2>2, <2>3
<1> HIDE DEF T
<1>2. f \o g \in Seq(T) /\ Len(f \o g) = n + m
  BY <1>1
<1>3. \A i \in 1..(n + m) : (f \o g)[i] = IF i <= n THEN f[i] ELSE g[i - n]
  BY <1>1
<1>4. f \o g = [i \in 1..(n + m) |-> (f \o g)[i]]
  BY <1>2
<1> QED BY ONLY <1>3, <1>4

Part(f, a, m) == SubSeq(f, a + 1, a + m)
Slice(f, a, m) == [i \in 1..m |-> f[a + i]]
IsFcn(f, n) == f = [i \in 1..n |-> f[i]]

(* Part of a sequence.                                                         *)
LEMMA PartFcn ==
  ASSUME NEW n, n \in Nat, NEW f, IsFcn(f, n), NEW a, a \in Nat, NEW m, m \in Nat, a + m <= n
  PROVE  Part(f, a, m) = Slice(f, a, m)
<1> DEFINE T == {f[i] : i \in 1..n}
<1>1. f \in Seq(T) /\ Len(f) = n
  BY FcnIsSeq DEF IsFcn
<1> HIDE DEF T
<1> DEFINE g == SubSeq(f, a + 1, a + m)
<1>2. g \in Seq(T) /\ Len(g) = m
  BY <1>1
<1>3. \A i \in 1..m : g[i] = f[a + i]
  BY <1>1
<1> HIDE DEF g
<1>4. g = [i \in 1..m |-> g[i]]
  BY <1>2
<1>5. g = [i \in 1..m |-> f[a + i]]
  BY ONLY <1>3, <1>4
<1> QED BY <1>5 DEF g, Part, Slice

(* The lengths are those of a digest that has room for its padding.          *)
LEMMA Lens ==
  /\ BlockLen \in Nat \ {0} /\ LengthLen \in Nat /\ HashLen \in Nat \ {0}
  /\ LengthLen + 2 <= BlockLen /\ HashLen <= BlockLen
  /\ HashLen # BlockLen - LengthLen - 1
BY LensAssumption

(* The blocks that n symbols make, and what is left.                           *)
LEMMA Parted ==
  ASSUME NEW n, n \in Nat
  PROVE  /\ n \div BlockLen \in Nat /\ n % BlockLen \in Nat /\ n % BlockLen < BlockLen
         /\ n = BlockLen * (n \div BlockLen) + (n % BlockLen)
<1>1. BlockLen \in Nat \ {0}
  BY Lens
<1> DEFINE b == BlockLen
<1> HIDE DEF b
<1>2. b \in Nat \ {0}
  BY <1>1 DEF b
<1>3. /\ n \div b \in Nat /\ n % b \in Nat /\ n % b < b
      /\ n = b * (n \div b) + (n % b)
  BY ONLY <1>2, n \in Nat
<1> QED BY <1>3 DEF b

(* There is but one such parting.                                            *)
LEMMA PartedOnce ==
  ASSUME NEW n, n \in Nat, NEW q, q \in Nat, NEW r, r \in Nat, r < BlockLen, n = BlockLen * q + r
  PROVE  n \div BlockLen = q /\ n % BlockLen = r
<1>1. BlockLen \in Nat \ {0}
  BY Lens
<1> DEFINE b == BlockLen
<1> HIDE DEF b
<1>2. b \in Nat \ {0} /\ r < b /\ n = b * q + r
  BY <1>1 DEF b
<1>3. n \div b = q /\ n % b = r
  BY ONLY <1>2, n \in Nat, q \in Nat, r \in Nat, DivUnique
<1> QED BY <1>3 DEF b

-----------------------------------------------------------------------------
(* One symbol more is kept for the next block.                                 *)
LEMMA StepWithin ==
  ASSUME NEW w, NEW q, q \in Nat, NEW r, r \in Nat, r + 1 < BlockLen, NEW c
  PROVE  FeedStep(Given(w, q, r, c), w[BlockLen * q + r + 1]) = Given(w, q, r + 1, c)
<1> DEFINE x == w[BlockLen * q + r + 1]
<1>1. Len(Rest(w, q, r)) = r
  BY DEF Rest
<1>2. Append(Rest(w, q, r), x) = Rest(w, q, r + 1)
  <2>1. Rest(w, q, r) = [i \in 1..r |-> Rest(w, q, r)[i]]
    BY DEF Rest
  <2>2. Append(Rest(w, q, r), x) = [i \in 1..(r + 1) |-> IF i = r + 1 THEN x ELSE Rest(w, q, r)[i]]
    <3> HIDE DEF x
    <3> QED BY ONLY <2>1, r \in Nat, AppendFcn
  <2>3. ASSUME NEW i \in 1..(r + 1)
        PROVE  (IF i = r + 1 THEN x ELSE Rest(w, q, r)[i]) = w[BlockLen * q + i]
    <3>1. CASE i = r + 1
      <4>1. BlockLen * q + r + 1 = BlockLen * q + (r + 1)
        BY Lens
      <4> QED BY <3>1, <4>1
    <3>2. CASE i # r + 1
      <4>1. i \in 1..r
        BY <3>2
      <4> QED BY <3>2, <4>1 DEF Rest
    <3> QED BY <3>1, <3>2
  <2> QED BY ONLY <2>2, <2>3 DEF Rest
<1> HIDE DEF x
<1>3. /\ Given(w, q, r, c).buffer = Rest(w, q, r) /\ Given(w, q, r, c).blocks = Chunks(w, q)
      /\ Given(w, q, r, c).count = c
  BY DEF Given, Hasher
<1>4. FeedStep(Given(w, q, r, c), x) = Put(Given(w, q, r, c), x)
  BY <1>1, <1>3 DEF FeedStep
<1>5. Put(Given(w, q, r, c), x) = Given(w, q, r + 1, c)
  BY ONLY <1>2, <1>3 DEF Put, Given
<1> QED BY <1>4, <1>5 DEF x

(* A block that is given to Round.                                             *)
LEMMA ChunkAppended ==
  ASSUME NEW w, NEW q, q \in Nat
  PROVE  Append(Chunks(w, q), Chunk(w, q + 1)) = Chunks(w, q + 1)
<1>1. Chunks(w, q) = [k \in 1..q |-> Chunks(w, q)[k]]
  BY DEF Chunks
<1>2. Append(Chunks(w, q), Chunk(w, q + 1)) =
        [k \in 1..(q + 1) |-> IF k = q + 1 THEN Chunk(w, q + 1) ELSE Chunks(w, q)[k]]
  BY <1>1, AppendFcn
<1>3. ASSUME NEW k \in 1..(q + 1)
      PROVE  (IF k = q + 1 THEN Chunk(w, q + 1) ELSE Chunks(w, q)[k]) = Chunk(w, k)
  <2>1. CASE k = q + 1
    BY <2>1
  <2>2. CASE k # q + 1
    <3>1. k \in 1..q
      BY <2>2
    <3> QED BY <2>2, <3>1 DEF Chunks
  <2> QED BY <2>1, <2>2
<1> QED BY ONLY <1>2, <1>3 DEF Chunks

(* What is padded to its own length stays as it is.                            *)
LEMMA PadWhole ==
  ASSUME NEW n, n \in Nat, NEW f, f = [i \in 1..n |-> f[i]]
  PROVE  Pad(f, n) = f
BY DEF Pad

(* The last symbol of a block: Round takes it.                                 *)
LEMMA StepToRound ==
  ASSUME NEW w, NEW q, q \in Nat, NEW r, r \in Nat, r + 1 = BlockLen, NEW c
  PROVE  FeedStep(Given(w, q, r, c), w[BlockLen * q + r + 1]) = Given(w, q + 1, 0, c)
<1> DEFINE x == w[BlockLen * q + r + 1]
           g == Append(Rest(w, q, r), x)
<1>1. Len(Rest(w, q, r)) = r
  BY DEF Rest
<1>2. g = Chunk(w, q + 1)
  <2>1. Rest(w, q, r) = [i \in 1..r |-> Rest(w, q, r)[i]]
    BY DEF Rest
  <2>2. g = [i \in 1..(r + 1) |-> IF i = r + 1 THEN x ELSE Rest(w, q, r)[i]]
    <3> HIDE DEF x
    <3> QED BY ONLY <2>1, r \in Nat, AppendFcn
  <2>3. ASSUME NEW i \in 1..(r + 1)
        PROVE  (IF i = r + 1 THEN x ELSE Rest(w, q, r)[i]) = w[BlockLen * ((q + 1) - 1) + i]
    <3>0. (q + 1) - 1 = q
      OBVIOUS
    <3>1. CASE i = r + 1
      <4>1. BlockLen * q + r + 1 = BlockLen * q + (r + 1)
        BY Lens
      <4> QED BY <3>0, <3>1, <4>1
    <3>2. CASE i # r + 1
      <4>1. i \in 1..r
        BY <3>2
      <4> QED BY <3>0, <3>2, <4>1 DEF Rest
    <3> QED BY <3>1, <3>2
  <2>4. r + 1 = BlockLen
    OBVIOUS
  <2> HIDE DEF g
  <2> QED BY ONLY <2>2, <2>3, <2>4 DEF Chunk
<1> HIDE DEF x, g
<1>3. /\ Given(w, q, r, c).buffer = Rest(w, q, r) /\ Given(w, q, r, c).blocks = Chunks(w, q)
      /\ Given(w, q, r, c).count = c
  BY DEF Given, Hasher
<1>4. FeedStep(Given(w, q, r, c), x) = Round(Put(Given(w, q, r, c), x))
  BY <1>1, <1>3 DEF FeedStep
<1>5. Put(Given(w, q, r, c), x) = Hasher(Chunks(w, q), Chunk(w, q + 1), c)
  BY ONLY <1>2, <1>3 DEF Put, g
<1>6. Pad(Chunk(w, q + 1), BlockLen) = Chunk(w, q + 1)
  <2>1. BlockLen \in Nat /\ Chunk(w, q + 1) = [i \in 1..BlockLen |-> Chunk(w, q + 1)[i]]
    BY Lens DEF Chunk
  <2> QED BY ONLY <2>1, PadWhole
<1>7. Round(Hasher(Chunks(w, q), Chunk(w, q + 1), c)) = Hasher(Chunks(w, q + 1), <<>>, c)
  <2>1. Append(Chunks(w, q), Chunk(w, q + 1)) = Chunks(w, q + 1)
    BY ChunkAppended
  <2> QED BY <2>1, <1>6 DEF Round, Hasher
<1>8. Rest(w, q + 1, 0) = <<>>
  BY DEF Rest
<1> QED BY ONLY <1>4, <1>5, <1>7, <1>8 DEF x, Given

(* FeedStep, whatever was given before.                                        *)
LEMMA StepHashed ==
  ASSUME NEW w, NEW n, n \in Nat, NEW c
  PROVE  FeedStep(Hashed(w, n, c), w[n + 1]) = Hashed(w, n + 1, c)
<1> DEFINE q == n \div BlockLen
           r == n % BlockLen
<1>1. q \in Nat /\ r \in Nat /\ r < BlockLen /\ n = BlockLen * q + r
  BY Parted
<1> HIDE DEF q, r
<1>2. Hashed(w, n, c) = Given(w, q, r, c)
  BY DEF Hashed, q, r
<1>3. n + 1 = BlockLen * q + r + 1 /\ BlockLen \in Nat \ {0} /\ BlockLen * q \in Nat
  BY <1>1, Lens
<1>4. CASE r + 1 < BlockLen
  <2>1. n + 1 = BlockLen * q + (r + 1) /\ r + 1 \in Nat /\ n + 1 \in Nat
    BY <1>1, <1>3
  <2>2. (n + 1) \div BlockLen = q /\ (n + 1) % BlockLen = r + 1
    BY ONLY <1>1, <1>4, <2>1, PartedOnce
  <2>3. Hashed(w, n + 1, c) = Given(w, q, r + 1, c)
    BY ONLY <2>2 DEF Hashed
  <2>4. FeedStep(Given(w, q, r, c), w[BlockLen * q + r + 1]) = Given(w, q, r + 1, c)
    BY ONLY <1>1, <1>4, StepWithin
  <2> QED BY ONLY <1>2, <1>3, <2>3, <2>4
<1>5. CASE r + 1 = BlockLen
  <2>1. n + 1 = BlockLen * (q + 1) + 0 /\ q + 1 \in Nat /\ n + 1 \in Nat /\ 0 \in Nat /\ 0 < BlockLen
    <3>1. BlockLen * (q + 1) = BlockLen * q + BlockLen
      BY ONLY <1>1, <1>3
    <3> QED BY ONLY <1>1, <1>3, <1>5, <3>1
  <2>2. (n + 1) \div BlockLen = q + 1 /\ (n + 1) % BlockLen = 0
    BY ONLY <2>1, PartedOnce
  <2>3. Hashed(w, n + 1, c) = Given(w, q + 1, 0, c)
    BY ONLY <2>2 DEF Hashed
  <2>4. FeedStep(Given(w, q, r, c), w[BlockLen * q + r + 1]) = Given(w, q + 1, 0, c)
    BY ONLY ZenonT(30), <1>1, <1>5, StepToRound
  <2> QED BY ONLY <1>2, <1>3, <2>3, <2>4
<1>6. r + 1 < BlockLen \/ r + 1 = BlockLen
  BY <1>1, <1>3
<1> QED BY <1>4, <1>5, <1>6

-----------------------------------------------------------------------------
\* data is in w behind the first n symbols.
Follows(w, n, data) == \A k \in 1..Len(data) : w[n + k] = data[k]

(* The loop of Update.                                                         *)
LEMMA FeedHashed ==
  ASSUME NEW w, NEW n, n \in Nat, NEW c, NEW data, Len(data) \in Nat, Follows(w, n, data)
  PROVE  Feed(Hashed(w, n, c), data) = Hashed(w, n + Len(data), c)
<1> DEFINE d == Len(data)
           h == Hashed(w, n, c)
           Is(f) == f = [k \in 0..d |-> IF k = 0 THEN h ELSE FeedStep(f[k - 1], data[k])]
           g == [k \in 0..d |-> Hashed(w, n + k, c)]
<1>1. d \in Nat /\ \A k \in 1..d : w[n + k] = data[k]
  BY DEF Follows
<1> HIDE DEF d
<1>2. ASSUME NEW k \in 1..d
      PROVE  FeedStep(Hashed(w, n + (k - 1), c), data[k]) = Hashed(w, n + k, c)
  <2>1. n + (k - 1) \in Nat /\ (n + (k - 1)) + 1 = n + k
    OBVIOUS
  <2>2. w[(n + (k - 1)) + 1] = data[k]
    BY <1>1, <2>1
  <2>3. FeedStep(Hashed(w, n + (k - 1), c), w[(n + (k - 1)) + 1]) = Hashed(w, (n + (k - 1)) + 1, c)
    BY ONLY <2>1, StepHashed
  <2> QED BY ONLY <2>1, <2>2, <2>3
<1>3. n + 0 = n
  OBVIOUS
<1>4. Is(g)
  <2>1. ASSUME NEW k \in 0..d
        PROVE  Hashed(w, n + k, c) = IF k = 0 THEN h ELSE FeedStep(g[k - 1], data[k])
    <3>1. CASE k = 0
      BY ONLY <1>3, <3>1
    <3>2. CASE k # 0
      <4>1. k \in 1..d /\ k - 1 \in 0..d
        BY <1>1, <3>2
      <4>2. g[k - 1] = Hashed(w, n + (k - 1), c)
        BY ONLY <4>1
      <4> QED BY ONLY <1>2, <3>2, <4>1, <4>2
    <3> QED BY <3>1, <3>2
  <2> QED BY ONLY <2>1
<1> DEFINE f == CHOOSE e : Is(e)
<1>5. Feed(h, data) = f[d]
  BY DEF Feed, d
<1>6. Is(f)
  BY <1>4
<1> HIDE DEF f, g
<1>7. f[0] = h /\ \A k \in 1..d : f[k] = FeedStep(f[k - 1], data[k])
  <2>1. \A k \in 0..d : f[k] = IF k = 0 THEN h ELSE FeedStep(f[k - 1], data[k])
    BY ONLY <1>6
  <2>2. 0 \in 0..d /\ \A k \in 1..d : k \in 0..d /\ k # 0
    BY <1>1
  <2> QED BY ONLY <2>1, <2>2
<1> HIDE DEF Is
<1> DEFINE S == {k \in 0..d : f[k] = Hashed(w, n + k, c)}
<1>8. 0 \in S
  BY <1>1, <1>3, <1>7
<1>9. ASSUME NEW k \in 1..d, k - 1 \in S PROVE k \in S
  <2>1. f[k - 1] = Hashed(w, n + (k - 1), c)
    BY <1>9
  <2>2. f[k] = Hashed(w, n + k, c)
    BY ONLY <1>2, <1>7, <2>1
  <2> QED BY <1>1, <2>2
<1> HIDE DEF S
<1>10. \A k \in 0..d : k \in S
  BY ONLY <1>1, <1>8, <1>9, UpToInduction
<1>11. f[d] = Hashed(w, n + d, c)
  BY <1>1, <1>10 DEF S
<1> QED BY <1>5, <1>11 DEF d

(* Update adds the count at the end.                                           *)
LEMMA UpdateHashed ==
  ASSUME NEW w, NEW n, n \in Nat, NEW data, Len(data) \in Nat, Follows(w, n, data)
  PROVE  Update(Hashed(w, n, n), data) = Hashed(w, n + Len(data), n + Len(data))
<1>1. Feed(Hashed(w, n, n), data) = Hashed(w, n + Len(data), n)
  BY FeedHashed
<1> DEFINE h == Hashed(w, n, n)
           g == Hashed(w, n + Len(data), n)
<1>2. h.count = n
  BY DEF Hashed, Given, Hasher
<1>3. Hasher(g.blocks, g.buffer, n + Len(data)) = Hashed(w, n + Len(data), n + Len(data))
  BY DEF Hashed, Given, Hasher
<1> HIDE DEF h, g
<1>4. Update(h, data) = Hasher(g.blocks, g.buffer, n + Len(data))
  BY ONLY <1>1, <1>2 DEF Update, h, g
<1> QED BY ONLY <1>3, <1>4 DEF h

(* A fresh hasher was given nothing.                                         *)
LEMMA FreshHashed == ASSUME NEW w PROVE Fresh = Hashed(w, 0, 0)
<1>1. 0 = BlockLen * 0 + 0 /\ 0 < BlockLen /\ 0 \in Nat
  BY Lens
<1>2. 0 \div BlockLen = 0 /\ 0 % BlockLen = 0
  BY ONLY <1>1, PartedOnce
<1>3. Chunks(w, 0) = <<>> /\ Rest(w, 0, 0) = <<>>
  BY DEF Chunks, Rest
<1> QED BY ONLY <1>2, <1>3 DEF Fresh, Hashed, Given

-----------------------------------------------------------------------------
\* A message of n symbols, padded to as many as there are in all.
PaddedTo(m, n, all) ==
  [i \in 1..all |-> IF i <= n THEN m[i]
                     ELSE IF i = n + 1 THEN Mark
                     ELSE IF i <= all - LengthLen THEN Zero
                     ELSE <<"length", n, i - (all - LengthLen)>>]

ZerosOf(n) == CHOOSE z \in 0..(BlockLen - 1) : (n + 1 + z + LengthLen) % BlockLen = 0

(* There is but one number of zeros that fills a block.                        *)
LEMMA ZerosUnique ==
  ASSUME NEW n, n \in Nat, NEW z, z \in 0..(BlockLen - 1), NEW t, t \in Nat,
         n + 1 + z + LengthLen = BlockLen * t
  PROVE  ZerosOf(n) = z
<1> DEFINE b == BlockLen
           K == n + 1 + LengthLen
<1>1. b \in Nat \ {0} /\ K \in Nat /\ z \in Nat /\ z < b
  BY Lens
<1>2. \A y \in 0..(b - 1) : n + 1 + y + LengthLen = y + K
  BY Lens
<1>3. z + K = b * t + 0
  BY <1>1, <1>2
<1> DEFINE Fills(y) == (n + 1 + y + LengthLen) % b = 0
<1>4. ASSUME NEW y \in 0..(b - 1) PROVE Fills(y) <=> (y + K) % b = 0
  BY <1>2
<1>5. ZerosOf(n) = CHOOSE y \in 0..(b - 1) : Fills(y)
  BY DEF ZerosOf
<1> HIDE DEF Fills, b, K
<1>6. z \in 0..(b - 1)
  BY <1>1
<1>7. (z + K) % b = 0
  <2>1. z + K \in Int /\ t \in Int /\ 0 \in Nat /\ 0 < b
    BY <1>1
  <2> QED BY ONLY <1>1, <1>3, <2>1, ModUnique
<1>8. ASSUME NEW y \in 0..(b - 1), Fills(y) PROVE y = z
  <2>1. y \in Nat /\ y < b /\ y \in Int /\ z \in Int /\ K \in Int
    BY <1>1
  <2>2. (y + K) % b = (z + K) % b
    BY <1>4, <1>7, <1>8
  <2>3. y % b = z % b
    <3>1. Congruent(y + K, z + K, b)
      BY <2>2 DEF Congruent
    <3>2. Congruent(y, z, b)
      BY ONLY <1>1, <2>1, <3>1, CongruentBoth
    <3> QED BY <3>2 DEF Congruent
  <2>4. y = b * 0 + y /\ z = b * 0 + z
    BY <1>1, <2>1
  <2>5. y % b = y /\ z % b = z
    BY ONLY <1>1, <2>1, <2>4, ModUnique
  <2> QED BY <2>3, <2>5
<1>9. Fills(z)
  BY <1>4, <1>6, <1>7
<1> QED BY ONLY <1>5, <1>6, <1>8, <1>9

(* What FIPS 180-4 pads a message to.                                          *)
LEMMA PaddedIs ==
  ASSUME NEW n, n \in Nat, NEW m, m = [i \in 1..n |-> m[i]],
         NEW z, z \in 0..(BlockLen - 1), NEW t, t \in Nat, n + 1 + z + LengthLen = BlockLen * t
  PROVE  Padded(m) = PaddedTo(m, n, BlockLen * t)
<1> DEFINE zs == [i \in 1..z |-> Zero]
           ls == [i \in 1..LengthLen |-> <<"length", n, i>>]
           all == BlockLen * t
           a == m \o <<Mark>>
           c == a \o zs
           p == c \o ls
<1>1. Len(m) = n
  BY FcnIsSeq
<1>2. ZerosOf(n) = z
  BY ZerosUnique
<1>3. Padded(m) = p
  BY <1>1, <1>2 DEF Padded, ZerosOf
<1>4. z \in Nat /\ LengthLen \in Nat /\ all = (n + 1 + z) + LengthLen
  BY Lens
<1> DEFINE e == <<Mark>>
<1>5. a = [i \in 1..(n + 1) |-> IF i <= n THEN m[i] ELSE Mark]
  <2>1. e = [i \in 1..1 |-> e[i]]
    BY FcnIsSeq
  <2>2. e[1] = Mark
    OBVIOUS
  <2>3. a = m \o e
    OBVIOUS
  <2> HIDE DEF e, a
  <2>4. a = [i \in 1..(n + 1) |-> IF i <= n THEN m[i] ELSE e[i - n]]
    BY ONLY <2>1, <2>3, n \in Nat, m = [i \in 1..n |-> m[i]], 1 \in Nat, ConcatFcn
  <2>5. ASSUME NEW i \in 1..(n + 1)
        PROVE  (IF i <= n THEN m[i] ELSE e[i - n]) = IF i <= n THEN m[i] ELSE Mark
    <3>1. CASE i <= n
      BY <3>1
    <3>2. CASE ~(i <= n)
      <4>1. i - n = 1
        BY <3>2
      <4> QED BY ONLY <2>2, <3>2, <4>1
    <3> QED BY <3>1, <3>2
  <2> QED BY ONLY <2>4, <2>5
<1>6. a = [i \in 1..(n + 1) |-> a[i]] /\ n + 1 \in Nat
  <2> HIDE DEF a
  <2> QED BY ONLY <1>5, n \in Nat
<1>7. zs = [i \in 1..z |-> zs[i]] /\ ls = [i \in 1..LengthLen |-> ls[i]]
  OBVIOUS
<1>8. c = [i \in 1..(n + 1 + z) |-> IF i <= n + 1 THEN a[i] ELSE zs[i - (n + 1)]]
  <2> HIDE DEF a, zs
  <2> QED BY ONLY <1>4, <1>6, <1>7, ConcatFcn
<1>9. c = [i \in 1..(n + 1 + z) |-> c[i]] /\ n + 1 + z \in Nat
  <2> DEFINE w == n + 1 + z
  <2>1. w \in Nat
    BY <1>4
  <2> HIDE DEF c, a, zs, w
  <2>2. c = [i \in 1..w |-> IF i <= n + 1 THEN a[i] ELSE zs[i - (n + 1)]]
    BY ONLY <1>8 DEF w
  <2>3. c = [i \in 1..w |-> c[i]]
    BY ONLY <2>2
  <2> QED BY ONLY <2>1, <2>3 DEF w
<1>10. p = [i \in 1..((n + 1 + z) + LengthLen) |-> IF i <= n + 1 + z THEN c[i] ELSE ls[i - (n + 1 + z)]]
  <2> HIDE DEF c, ls
  <2> QED BY ONLY <1>4, <1>7, <1>9, ConcatFcn
<1>11. ASSUME NEW i \in 1..all
       PROVE  (IF i <= n + 1 + z THEN c[i] ELSE ls[i - (n + 1 + z)]) =
                (IF i <= n THEN m[i]
                 ELSE IF i = n + 1 THEN Mark
                 ELSE IF i <= all - LengthLen THEN Zero
                 ELSE <<"length", n, i - (all - LengthLen)>>)
  <2>1. i \in Nat /\ i >= 1 /\ i <= all /\ all - LengthLen = n + 1 + z
    BY <1>4
  <2>2. CASE i <= n + 1
    <3>1. c[i] = a[i] /\ a[i] = (IF i <= n THEN m[i] ELSE Mark) /\ i <= n + 1 + z
      <4> HIDE DEF a, c, zs, ls, all
      <4>1. i \in 1..(n + 1) /\ i \in 1..(n + 1 + z)
        BY ONLY <1>4, <2>1, <2>2, n \in Nat
      <4> QED BY ONLY <1>4, <1>5, <1>8, <2>1, <2>2, <4>1, n \in Nat
    <3>2. i <= n \/ (i = n + 1 /\ ~(i <= n))
      BY <2>1, <2>2
    <3> HIDE DEF c, a, ls
    <3> QED BY ONLY <3>1, <3>2
  <2>3. CASE i > n + 1 /\ i <= n + 1 + z
    <3>1. i - (n + 1) \in 1..z /\ i \in 1..(n + 1 + z) /\ ~(i <= n + 1) /\ ~(i <= n) /\ i # n + 1
      BY <1>4, <2>1, <2>3
    <3>2. zs[i - (n + 1)] = Zero
      BY <3>1
    <3>3. c[i] = Zero
      <4> HIDE DEF a, c, zs
      <4> QED BY ONLY <1>8, <3>1, <3>2
    <3> HIDE DEF c, a, ls, zs, all
    <3> QED BY ONLY <2>1, <2>3, <3>1, <3>3
  <2>4. CASE i > n + 1 + z
    <3>1. /\ i - (n + 1 + z) \in 1..LengthLen /\ ~(i <= n + 1 + z) /\ ~(i <= n) /\ i # n + 1
          /\ i - (n + 1 + z) = i - (all - LengthLen)
      BY <1>4, <2>1, <2>4
    <3>2. ls[i - (n + 1 + z)] = <<"length", n, i - (n + 1 + z)>>
      BY <3>1
    <3> HIDE DEF c, a, ls, zs, all
    <3> QED BY ONLY <2>1, <3>1, <3>2
  <2> QED BY <2>1, <2>2, <2>3, <2>4, <1>4
<1> HIDE DEF p, c, a, zs, ls, all
<1>12. p = PaddedTo(m, n, all)
  BY ONLY <1>4, <1>10, <1>11 DEF PaddedTo
<1> QED BY <1>3, <1>12 DEF all

(* The digest is that of the blocks of the padded message.                     *)
LEMMA FipsBlocks ==
  ASSUME NEW alg, NEW n, n \in Nat, NEW m, m = [i \in 1..n |-> m[i]],
         NEW z, z \in 0..(BlockLen - 1), NEW t, t \in Nat, n + 1 + z + LengthLen = BlockLen * t
  PROVE  FipsDigest(alg, m) = HashOf(alg, Chunks(PaddedTo(m, n, BlockLen * t), t))
<1> DEFINE all == BlockLen * t
           p == PaddedTo(m, n, all)
<1>1. Padded(m) = p
  BY PaddedIs
<1>2. all \in Nat /\ all = BlockLen * t + 0 /\ 0 \in Nat /\ 0 < BlockLen /\ BlockLen \in Nat \ {0}
  BY Lens
<1>3. p = [i \in 1..all |-> p[i]]
  BY DEF PaddedTo
<1>4. Len(p) \div BlockLen = t
  <2>1. Len(p) = all
    <3> HIDE DEF p, all
    <3> QED BY ONLY <1>2, <1>3, FcnIsSeq
  <2>2. all \div BlockLen = t
    BY ONLY <1>2, t \in Nat, PartedOnce
  <2> QED BY ONLY <2>1, <2>2
<1>5. ASSUME NEW k \in 1..t
      PROVE  SubSeq(p, BlockLen * (k - 1) + 1, BlockLen * k) = Chunk(p, k)
  <2> DEFINE a == BlockLen * (k - 1)
  <2>1. k \in Nat /\ k - 1 \in Nat /\ t - k \in Nat
    OBVIOUS
  <2>2. a \in Nat /\ BlockLen * (t - k) \in Nat
    BY ONLY <1>2, <2>1
  <2>3. a + BlockLen = BlockLen * k /\ all = a + BlockLen + BlockLen * (t - k)
    BY ONLY <1>2, <2>1, t \in Nat
  <2>4. a + BlockLen <= all
    <3> DEFINE d == BlockLen * (t - k)
    <3> HIDE DEF a, d, all
    <3>1. d \in Nat /\ all = a + BlockLen + d
      BY ONLY <2>2, <2>3 DEF d
    <3> QED BY ONLY <1>2, <2>2, <3>1
  <2> HIDE DEF p, all
  <2>5. Part(p, a, BlockLen) = Slice(p, a, BlockLen)
    <3> HIDE DEF a
    <3>1. a \in Nat /\ BlockLen \in Nat /\ all \in Nat /\ a + BlockLen <= all
      BY ONLY <1>2, <2>2, <2>4
    <3>2. IsFcn(p, all)
      BY ONLY <1>3 DEF IsFcn
    <3> QED BY ONLY <3>1, <3>2, PartFcn
  <2> QED BY ONLY <2>3, <2>5 DEF Chunk, Part, Slice, a
<1> HIDE DEF p, all
<1> QED BY ONLY <1>1, <1>4, <1>5 DEF FipsDigest, HashOf, Chunks, p, all

-----------------------------------------------------------------------------
\* w is as m is in its first n places.
Alike(w, m, n) == \A i \in 1..n : w[i] = m[i]

(* Padding leaves whole blocks as they are.                                    *)
LEMMA ChunksKept ==
  ASSUME NEW m, NEW w, NEW n, n \in Nat, Alike(w, m, n), NEW all, all \in Nat, n <= all,
         NEW q, q \in Nat, BlockLen * q <= n
  PROVE  Chunks(PaddedTo(m, n, all), q) = Chunks(w, q)
<1> DEFINE p == PaddedTo(m, n, all)
<1>1. \A i \in 1..n : p[i] = w[i]
  <2> SUFFICES ASSUME NEW i \in 1..n PROVE p[i] = w[i]
    OBVIOUS
  <2>1. i \in 1..all /\ i <= n
    OBVIOUS
  <2> QED BY <2>1 DEF PaddedTo, Alike
<1> HIDE DEF p
<1>2. ASSUME NEW k \in 1..q PROVE Chunk(p, k) = Chunk(w, k)
  <2>1. ASSUME NEW i \in 1..BlockLen
        PROVE  p[BlockLen * (k - 1) + i] = w[BlockLen * (k - 1) + i]
    <3>1. k - 1 \in Nat /\ q - k \in Nat /\ i \in Nat \ {0} /\ BlockLen \in Nat /\ i <= BlockLen
      BY Lens
    <3>2. BlockLen * (k - 1) \in Nat /\ BlockLen * (q - k) \in Nat
      BY ONLY <3>1
    <3>3. BlockLen * q = BlockLen * (k - 1) + BlockLen + BlockLen * (q - k)
      BY ONLY <3>1, q \in Nat, k \in 1..q
    <3> DEFINE a == BlockLen * (k - 1)
               d == BlockLen * (q - k)
               e == BlockLen * q
    <3>4. a \in Nat /\ d \in Nat /\ e = a + BlockLen + d /\ e <= n
      BY <3>2, <3>3
    <3> HIDE DEF a, d, e
    <3>5. a + i \in 1..n
      BY ONLY <3>1, <3>4, n \in Nat
    <3>6. p[a + i] = w[a + i]
      BY ONLY <1>1, <3>5
    <3> QED BY ONLY <3>6 DEF a
  <2> QED BY ONLY <2>1 DEF Chunk
<1> QED BY ONLY <1>2 DEF Chunks, p

\* The block with the end of the message, the mark and zeros.
Marked(w, q, r, n) ==
  [i \in 1..n |-> IF i <= r THEN w[BlockLen * q + i] ELSE IF i = r + 1 THEN Mark ELSE Zero]

(* The mark is put behind the rest, and zeros behind it.                       *)
LEMMA MarkPut ==
  ASSUME NEW w, NEW q, q \in Nat, NEW r, r \in Nat, NEW n, n \in Nat
  PROVE  Pad(Append(Rest(w, q, r), Mark), n) = Marked(w, q, r, n)
<1> DEFINE g == Append(Rest(w, q, r), Mark)
<1>1. g = [i \in 1..(r + 1) |-> IF i = r + 1 THEN Mark ELSE Rest(w, q, r)[i]]
  <2>1. Rest(w, q, r) = [i \in 1..r |-> Rest(w, q, r)[i]]
    BY DEF Rest
  <2> DEFINE x == Mark
  <2> HIDE DEF x
  <2>2. Append(Rest(w, q, r), x) = [i \in 1..(r + 1) |-> IF i = r + 1 THEN x ELSE Rest(w, q, r)[i]]
    BY ONLY <2>1, r \in Nat, AppendFcn
  <2> QED BY <2>2 DEF x
<1> HIDE DEF g
<1>2. ASSUME NEW i \in 1..n
      PROVE  (IF i \in DOMAIN g THEN g[i] ELSE Zero) =
               (IF i <= r THEN w[BlockLen * q + i] ELSE IF i = r + 1 THEN Mark ELSE Zero)
  <2>0. DOMAIN g = 1..(r + 1)
    BY ONLY <1>1
  <2>1. CASE i <= r
    <3>1. i \in 1..(r + 1) /\ i # r + 1 /\ i \in 1..r
      BY <2>1
    <3>2. g[i] = w[BlockLen * q + i]
      BY <1>1, <3>1 DEF Rest
    <3> QED BY <2>0, <2>1, <3>1, <3>2
  <2>2. CASE i = r + 1
    <3>1. i \in 1..(r + 1) /\ ~(i <= r)
      BY <2>2
    <3>2. g[i] = Mark
      BY ONLY <1>1, <2>2, <3>1
    <3> QED BY ONLY <2>0, <2>2, <3>1, <3>2
  <2>3. CASE i > r + 1
    <3>1. i \notin 1..(r + 1) /\ ~(i <= r) /\ i # r + 1
      BY <2>3
    <3> QED BY ONLY <2>0, <3>1
  <2> QED BY <2>1, <2>2, <2>3
<1> QED BY ONLY <1>2 DEF Pad, Marked, g

\* The last block: as much as there is of s, and the length.
LengthBehind(s, n) ==
  [i \in 1..BlockLen |-> IF i <= BlockLen - LengthLen THEN s[i]
                          ELSE <<"length", n, i - (BlockLen - LengthLen)>>]

(* The length is put behind what is padded to have room for it.              *)
LEMMA LengthPut ==
  ASSUME NEW s, IsFcn(s, BlockLen - LengthLen), NEW n
  PROVE  s \o LengthOf(n) = LengthBehind(s, n)
<1> DEFINE a == BlockLen - LengthLen
           ls == LengthOf(n)
<1>1. a \in Nat /\ LengthLen \in Nat /\ a + LengthLen = BlockLen
  BY Lens
<1>2. ls = [i \in 1..LengthLen |-> ls[i]]
  BY DEF LengthOf
<1>3. \A i \in 1..LengthLen : ls[i] = <<"length", n, i>>
  BY DEF LengthOf
<1>4. s = [i \in 1..a |-> s[i]]
  BY DEF IsFcn
<1> HIDE DEF ls, a
<1>5. s \o ls = [i \in 1..(a + LengthLen) |-> IF i <= a THEN s[i] ELSE ls[i - a]]
  BY ONLY <1>1, <1>2, <1>4, ConcatFcn
<1>6. ASSUME NEW i \in 1..(a + LengthLen)
      PROVE  (IF i <= a THEN s[i] ELSE ls[i - a]) = (IF i <= a THEN s[i] ELSE <<"length", n, i - a>>)
  <2>1. CASE i <= a
    BY <2>1
  <2>2. CASE ~(i <= a)
    <3>1. i - a \in 1..LengthLen
      BY <1>1, <2>2
    <3> QED BY ONLY <1>3, <2>2, <3>1
  <2> QED BY <2>1, <2>2
<1>7. s \o ls = [i \in 1..(a + LengthLen) |-> IF i <= a THEN s[i] ELSE <<"length", n, i - a>>]
  BY ONLY <1>5, <1>6
<1> QED BY ONLY <1>1, <1>7 DEF LengthBehind, ls, a

(* The padded message where the length is in the block of the mark.            *)
LEMMA LastOfShort ==
  ASSUME NEW m, NEW w, NEW n, n \in Nat, Alike(w, m, n), NEW q, q \in Nat, NEW r, r \in Nat,
         n = BlockLen * q + r, r + 1 + LengthLen <= BlockLen
  PROVE  Chunk(PaddedTo(m, n, BlockLen * (q + 1)), q + 1) =
           LengthBehind(Marked(w, q, r, BlockLen - LengthLen), n)
<1> DEFINE all == BlockLen * (q + 1)
           u == BlockLen * q
           s == Marked(w, q, r, BlockLen - LengthLen)
           p == PaddedTo(m, n, all)
<1>1. BlockLen \in Nat /\ LengthLen \in Nat /\ LengthLen <= BlockLen
  BY Lens
<1>2. u \in Nat /\ all = u + BlockLen /\ n = u + r /\ BlockLen * ((q + 1) - 1) = u
  BY ONLY <1>1, q \in Nat, n = BlockLen * q + r
<1>3. \A i \in 1..(BlockLen - LengthLen) :
         s[i] = IF i <= r THEN w[u + i] ELSE IF i = r + 1 THEN Mark ELSE Zero
  BY DEF Marked
<1>4. ASSUME NEW i \in 1..all
      PROVE  p[i] = IF i <= n THEN m[i]
                     ELSE IF i = n + 1 THEN Mark
                     ELSE IF i <= all - LengthLen THEN Zero
                     ELSE <<"length", n, i - (all - LengthLen)>>
  BY DEF PaddedTo
<1> HIDE DEF all, u, s, p
<1>5. ASSUME NEW i \in 1..BlockLen
      PROVE  p[u + i] = IF i <= BlockLen - LengthLen THEN s[i]
                        ELSE <<"length", n, i - (BlockLen - LengthLen)>>
  <2>1. i \in Nat /\ i >= 1 /\ i <= BlockLen /\ u + i \in 1..all
    BY <1>1, <1>2
  <2>2. CASE i <= r
    <3>1. u + i <= n /\ u + i \in 1..n /\ i <= BlockLen - LengthLen
      BY <1>1, <1>2, <2>1, <2>2
    <3>2. m[u + i] = w[u + i]
      BY <3>1 DEF Alike
    <3>3. p[u + i] = m[u + i]
      BY ONLY <1>4, <2>1, <3>1
    <3>4. s[i] = w[u + i]
      BY <1>1, <1>3, <2>2, <3>1
    <3> QED BY ONLY <3>1, <3>2, <3>3, <3>4
  <2>3. CASE i = r + 1
    <3>1. u + i = n + 1 /\ ~(u + i <= n) /\ i <= BlockLen - LengthLen /\ ~(i <= r)
      BY <1>1, <1>2, <2>1, <2>3
    <3>2. p[u + i] = Mark
      BY ONLY <1>4, <2>1, <3>1
    <3>3. s[i] = Mark
      BY <1>1, <1>3, <2>3, <3>1
    <3> QED BY ONLY <3>1, <3>2, <3>3
  <2>4. CASE i > r + 1 /\ i <= BlockLen - LengthLen
    <3>1. /\ u + i # n + 1 /\ ~(u + i <= n) /\ u + i <= all - LengthLen /\ ~(i <= r) /\ i # r + 1
          /\ i \in 1..(BlockLen - LengthLen)
      BY <1>1, <1>2, <2>1, <2>4
    <3>2. p[u + i] = Zero
      BY ONLY <1>4, <2>1, <3>1
    <3>3. s[i] = Zero
      BY ONLY <1>3, <3>1
    <3> QED BY ONLY <2>4, <3>2, <3>3
  <2>5. CASE i > BlockLen - LengthLen
    <3>1. /\ u + i # n + 1 /\ ~(u + i <= n) /\ ~(u + i <= all - LengthLen) /\ ~(i <= BlockLen - LengthLen)
          /\ (u + i) - (all - LengthLen) = i - (BlockLen - LengthLen)
      BY <1>1, <1>2, <2>1, <2>5
    <3>2. p[u + i] = <<"length", n, (u + i) - (all - LengthLen)>>
      BY ONLY <1>4, <2>1, <3>1
    <3> QED BY ONLY <3>1, <3>2
  <2>6. i <= r \/ i = r + 1 \/ (i > r + 1 /\ i <= BlockLen - LengthLen) \/ i > BlockLen - LengthLen
    BY <1>1, <2>1
  <2> QED BY <2>2, <2>3, <2>4, <2>5, <2>6
<1>6. Chunk(p, q + 1) = [i \in 1..BlockLen |-> p[u + i]]
  BY ONLY <1>2 DEF Chunk
<1> QED BY ONLY <1>5, <1>6 DEF LengthBehind, all, s, p

(* The padded message where the length takes a block more: the block of the mark. *)
LEMMA MarkedOfLong ==
  ASSUME NEW m, NEW w, NEW n, n \in Nat, Alike(w, m, n), NEW q, q \in Nat, NEW r, r \in Nat,
         n = BlockLen * q + r, r + 1 <= BlockLen
  PROVE  Chunk(PaddedTo(m, n, BlockLen * (q + 2)), q + 1) = Marked(w, q, r, BlockLen)
<1> DEFINE all == BlockLen * (q + 2)
           u == BlockLen * q
           s == Marked(w, q, r, BlockLen)
           p == PaddedTo(m, n, all)
<1>1. BlockLen \in Nat /\ LengthLen \in Nat /\ LengthLen <= BlockLen
  BY Lens
<1>2. u \in Nat /\ all = u + BlockLen + BlockLen /\ n = u + r /\ BlockLen * ((q + 1) - 1) = u
  BY ONLY <1>1, q \in Nat, n = BlockLen * q + r
<1>4. ASSUME NEW i \in 1..all
      PROVE  p[i] = IF i <= n THEN m[i]
                     ELSE IF i = n + 1 THEN Mark
                     ELSE IF i <= all - LengthLen THEN Zero
                     ELSE <<"length", n, i - (all - LengthLen)>>
  BY DEF PaddedTo
<1> HIDE DEF all, u, p
<1>5. ASSUME NEW i \in 1..BlockLen
      PROVE  p[u + i] = IF i <= r THEN w[u + i] ELSE IF i = r + 1 THEN Mark ELSE Zero
  <2>1. i \in Nat /\ i >= 1 /\ i <= BlockLen /\ u + i \in 1..all
    BY <1>1, <1>2
  <2>2. CASE i <= r
    <3>1. u + i <= n /\ u + i \in 1..n
      BY <1>1, <1>2, <2>1, <2>2
    <3>2. m[u + i] = w[u + i]
      BY <3>1 DEF Alike
    <3>3. p[u + i] = m[u + i]
      BY ONLY <1>4, <2>1, <3>1
    <3> QED BY ONLY <2>2, <3>2, <3>3
  <2>3. CASE i = r + 1
    <3>1. u + i = n + 1 /\ ~(u + i <= n) /\ ~(i <= r)
      BY <1>1, <1>2, <2>1, <2>3
    <3>2. p[u + i] = Mark
      BY ONLY <1>4, <2>1, <3>1
    <3> QED BY ONLY <2>3, <3>1, <3>2
  <2>4. CASE i > r + 1
    <3>1. u + i # n + 1 /\ ~(u + i <= n) /\ u + i <= all - LengthLen /\ ~(i <= r) /\ i # r + 1
      BY <1>1, <1>2, <2>1, <2>4
    <3>2. p[u + i] = Zero
      BY ONLY <1>4, <2>1, <3>1
    <3> QED BY ONLY <3>1, <3>2
  <2>6. i <= r \/ i = r + 1 \/ i > r + 1
    BY <1>1, <2>1
  <2> QED BY <2>2, <2>3, <2>4, <2>6
<1>6. Chunk(p, q + 1) = [i \in 1..BlockLen |-> p[u + i]]
  BY ONLY <1>2 DEF Chunk
<1> QED BY ONLY <1>5, <1>6 DEF Marked, all, p, u

\* The block that holds nothing but the length.
Zeros(n) == [i \in 1..n |-> Zero]

(* The last block where the length takes a block more.                         *)
LEMMA LastOfLong ==
  ASSUME NEW m, NEW n, n \in Nat, NEW q, q \in Nat, NEW r, r \in Nat,
         n = BlockLen * q + r, r + 1 <= BlockLen
  PROVE  Chunk(PaddedTo(m, n, BlockLen * (q + 2)), q + 2) =
           LengthBehind(Zeros(BlockLen - LengthLen), n)
<1> DEFINE all == BlockLen * (q + 2)
           u == BlockLen * (q + 1)
           s == Zeros(BlockLen - LengthLen)
           p == PaddedTo(m, n, all)
<1>1. BlockLen \in Nat /\ LengthLen \in Nat /\ LengthLen <= BlockLen
  BY Lens
<1>2. u \in Nat /\ all = u + BlockLen /\ n + 1 <= u /\ BlockLen * ((q + 2) - 1) = u
  <2>1. /\ BlockLen * q \in Nat /\ u = BlockLen * q + BlockLen /\ all = BlockLen * q + BlockLen + BlockLen
        /\ BlockLen * ((q + 2) - 1) = u
    BY ONLY <1>1, q \in Nat
  <2> DEFINE v == BlockLen * q
  <2> HIDE DEF v, u, all
  <2>2. v \in Nat /\ u = v + BlockLen /\ all = v + BlockLen + BlockLen /\ n = v + r
    BY <2>1 DEF v
  <2>3. u \in Nat /\ all = u + BlockLen /\ n + 1 <= u
    BY ONLY <1>1, <2>2, r \in Nat, r + 1 <= BlockLen
  <2> QED BY <2>1, <2>3
<1>3. \A i \in 1..(BlockLen - LengthLen) : s[i] = Zero
  BY DEF Zeros
<1>4. ASSUME NEW i \in 1..all
      PROVE  p[i] = IF i <= n THEN m[i]
                     ELSE IF i = n + 1 THEN Mark
                     ELSE IF i <= all - LengthLen THEN Zero
                     ELSE <<"length", n, i - (all - LengthLen)>>
  BY DEF PaddedTo
<1> HIDE DEF all, u, s, p
<1>5. ASSUME NEW i \in 1..BlockLen
      PROVE  p[u + i] = IF i <= BlockLen - LengthLen THEN s[i]
                        ELSE <<"length", n, i - (BlockLen - LengthLen)>>
  <2>1. i \in Nat /\ i >= 1 /\ i <= BlockLen /\ u + i \in 1..all /\ ~(u + i <= n) /\ u + i # n + 1
    BY <1>1, <1>2
  <2>4. CASE i <= BlockLen - LengthLen
    <3>1. u + i <= all - LengthLen /\ i \in 1..(BlockLen - LengthLen)
      BY <1>1, <1>2, <2>1, <2>4
    <3>2. p[u + i] = Zero
      BY ONLY <1>4, <2>1, <3>1
    <3> QED BY ONLY <1>3, <2>4, <3>1, <3>2
  <2>5. CASE i > BlockLen - LengthLen
    <3>1. /\ ~(u + i <= all - LengthLen) /\ ~(i <= BlockLen - LengthLen)
          /\ (u + i) - (all - LengthLen) = i - (BlockLen - LengthLen)
      BY <1>1, <1>2, <2>1, <2>5
    <3>2. p[u + i] = <<"length", n, (u + i) - (all - LengthLen)>>
      BY ONLY <1>4, <2>1, <3>1
    <3> QED BY ONLY <3>1, <3>2
  <2>6. i <= BlockLen - LengthLen \/ i > BlockLen - LengthLen
    BY <1>1, <2>1
  <2> QED BY <2>4, <2>5, <2>6
<1>6. Chunk(p, q + 2) = [i \in 1..BlockLen |-> p[u + i]]
  BY ONLY <1>2 DEF Chunk
<1> QED BY ONLY <1>5, <1>6 DEF LengthBehind, all, s, p

(* When the buffer is closed before the length: when that does not fit.        *)
LEMMA FullWhen ==
  ASSUME NEW alg \in Algs, NEW w, NEW q, NEW r, r \in Nat, NEW c,
         ~(alg = "SHA256" /\ r = BlockLen - LengthLen - 1)
  PROVE  Full(alg, Given(w, q, r, c)) <=> r + 1 + LengthLen > BlockLen
<1>1. BlockLen \in Nat /\ LengthLen \in Nat
  BY Lens
<1>2. Len(Given(w, q, r, c).buffer) = r
  <2>1. Given(w, q, r, c).buffer = Rest(w, q, r)
    BY DEF Given, Hasher
  <2>2. Len(Rest(w, q, r)) = r
    BY DEF Rest
  <2> QED BY ONLY <2>1, <2>2
<1>3. CASE alg = "SHA1"
  <2>1. Full(alg, Given(w, q, r, c)) <=> r + 1 > BlockLen - LengthLen
    BY ONLY <1>2, <1>3 DEF Full, Sha1Full
  <2> QED BY <1>1, <2>1
<1>4. CASE alg # "SHA1"
  <2>1. Full(alg, Given(w, q, r, c)) <=> r >= BlockLen - LengthLen - 1
    BY ONLY <1>2, <1>4 DEF Full, Sha256Full
  <2>2. r # BlockLen - LengthLen - 1
    BY <1>4 DEF Algs
  <2> QED BY <1>1, <2>1, <2>2
<1> QED BY <1>3, <1>4

(* Final makes the blocks of the padded message.                               *)
LEMMA FinalShort ==
  ASSUME NEW alg \in Algs, NEW m, NEW w, NEW n, n \in Nat, Alike(w, m, n), NEW q, q \in Nat,
         NEW r, r \in Nat, n = BlockLen * q + r, r + 1 + LengthLen <= BlockLen,
         ~(alg = "SHA256" /\ r = BlockLen - LengthLen - 1)
  PROVE  Final(alg, Given(w, q, r, n)) = Chunks(PaddedTo(m, n, BlockLen * (q + 1)), q + 1)
<1> DEFINE h == Given(w, q, r, n)
           p == PaddedTo(m, n, BlockLen * (q + 1))
           s == Marked(w, q, r, BlockLen - LengthLen)
<1>1. BlockLen \in Nat /\ LengthLen \in Nat /\ LengthLen <= BlockLen /\ BlockLen - LengthLen \in Nat
  BY Lens
<1>2. ~Full(alg, h)
  BY <1>1, FullWhen
<1>3. h.blocks = Chunks(w, q) /\ h.buffer = Rest(w, q, r) /\ h.count = n
  BY DEF Given, Hasher
<1>4. Final(alg, h) = Append(Chunks(w, q), Pad(Append(Rest(w, q, r), Mark), BlockLen - LengthLen) \o LengthOf(n))
  BY <1>2, <1>3 DEF Final, AddLength, Put, Hasher
<1>5. Pad(Append(Rest(w, q, r), Mark), BlockLen - LengthLen) = s
  BY <1>1, MarkPut
<1>6. s \o LengthOf(n) = Chunk(p, q + 1)
  <2>1. IsFcn(s, BlockLen - LengthLen)
    BY DEF IsFcn, Marked
  <2>2. s \o LengthOf(n) = LengthBehind(s, n)
    <3> HIDE DEF s
    <3> QED BY ONLY <2>1, LengthPut
  <2>3. Chunk(p, q + 1) = LengthBehind(s, n)
    BY LastOfShort
  <2> QED BY ONLY <2>2, <2>3
<1>7. Chunks(p, q) = Chunks(w, q)
  <2> DEFINE all == BlockLen * (q + 1)
             u == BlockLen * q
  <2>1. u \in Nat /\ all = u + BlockLen /\ n = u + r
    BY ONLY <1>1, q \in Nat, n = BlockLen * q + r
  <2>2. all \in Nat /\ n <= all /\ u <= n
    <3> HIDE DEF all, u
    <3> QED BY <1>1, <2>1
  <2> QED BY <2>2, ChunksKept
<1>8. Append(Chunks(p, q), Chunk(p, q + 1)) = Chunks(p, q + 1)
  BY ChunkAppended
<1> QED BY ONLY <1>4, <1>5, <1>6, <1>7, <1>8

(* Final, where the length needs another block.                              *)
LEMMA FinalLong ==
  ASSUME NEW alg \in Algs, NEW m, NEW w, NEW n, n \in Nat, Alike(w, m, n), NEW q, q \in Nat,
         NEW r, r \in Nat, n = BlockLen * q + r, r + 1 <= BlockLen, r + 1 + LengthLen > BlockLen
  PROVE  Final(alg, Given(w, q, r, n)) = Chunks(PaddedTo(m, n, BlockLen * (q + 2)), q + 2)
<1> DEFINE h == Given(w, q, r, n)
           p == PaddedTo(m, n, BlockLen * (q + 2))
           s == Zeros(BlockLen - LengthLen)
           g == Marked(w, q, r, BlockLen)
<1>1. BlockLen \in Nat /\ LengthLen \in Nat /\ LengthLen <= BlockLen /\ BlockLen - LengthLen \in Nat
  BY Lens
<1>2. Full(alg, h)
  BY <1>1, FullWhen
<1>3. h.blocks = Chunks(w, q) /\ h.buffer = Rest(w, q, r) /\ h.count = n
  BY DEF Given, Hasher
<1>4. Final(alg, h) = Append(Append(Chunks(w, q), Pad(Append(Rest(w, q, r), Mark), BlockLen)),
                             Pad(<<>>, BlockLen - LengthLen) \o LengthOf(n))
  BY <1>2, <1>3 DEF Final, AddLength, Put, Round, Hasher
<1>5. Pad(Append(Rest(w, q, r), Mark), BlockLen) = g /\ Pad(<<>>, BlockLen - LengthLen) = s
  <2>1. Pad(<<>>, BlockLen - LengthLen) = s
    BY DEF Pad, Zeros
  <2> QED BY ONLY <1>1, <2>1, q \in Nat, r \in Nat, MarkPut
<1>6. s \o LengthOf(n) = Chunk(p, q + 2)
  <2>1. IsFcn(s, BlockLen - LengthLen)
    BY DEF IsFcn, Zeros
  <2>2. s \o LengthOf(n) = LengthBehind(s, n)
    <3> HIDE DEF s
    <3> QED BY ONLY <2>1, LengthPut
  <2>3. Chunk(p, q + 2) = LengthBehind(s, n)
    BY LastOfLong
  <2> QED BY ONLY <2>2, <2>3
<1>7. Chunks(p, q) = Chunks(w, q)
  <2> DEFINE all == BlockLen * (q + 2)
             u == BlockLen * q
  <2>1. u \in Nat /\ all = u + BlockLen + BlockLen /\ n = u + r
    BY ONLY <1>1, q \in Nat, n = BlockLen * q + r
  <2>2. all \in Nat /\ n <= all /\ u <= n
    <3> HIDE DEF all, u
    <3> QED BY <1>1, <2>1
  <2> QED BY <2>2, ChunksKept
<1>8. Chunk(p, q + 1) = g
  BY MarkedOfLong
<1>9. Append(Chunks(p, q), Chunk(p, q + 1)) = Chunks(p, q + 1)
  BY ChunkAppended
<1>10. Append(Chunks(p, q + 1), Chunk(p, q + 2)) = Chunks(p, q + 2)
  <2>1. q + 1 \in Nat /\ (q + 1) + 1 = q + 2
    OBVIOUS
  <2>2. Append(Chunks(p, q + 1), Chunk(p, (q + 1) + 1)) = Chunks(p, (q + 1) + 1)
    <3> HIDE DEF p
    <3> QED BY ONLY <2>1, ChunkAppended
  <2> QED BY ONLY <2>1, <2>2
<1> QED BY ONLY <1>4, <1>5, <1>6, <1>7, <1>8, <1>9, <1>10

-----------------------------------------------------------------------------
(* What Final makes of a hasher that was given a message is its digest.        *)
LEMMA FinalRight ==
  ASSUME NEW alg \in Algs, NEW n, n \in Nat, NEW m, IsFcn(m, n), ~Unlucky(alg, n)
  PROVE  HashOf(alg, Final(alg, Hashed(m, n, n))) = FipsDigest(alg, m)
<1> DEFINE q == n \div BlockLen
           r == n % BlockLen
<1>1. q \in Nat /\ r \in Nat /\ r < BlockLen /\ n = BlockLen * q + r
  BY Parted
<1>2. ~(alg = "SHA256" /\ r = BlockLen - LengthLen - 1)
  BY DEF Unlucky
<1>3. Hashed(m, n, n) = Given(m, q, r, n)
  BY DEF Hashed
<1>4. Alike(m, m, n) /\ m = [i \in 1..n |-> m[i]]
  BY DEF Alike, IsFcn
<1> HIDE DEF q, r
<1>5. BlockLen \in Nat /\ LengthLen \in Nat /\ LengthLen + 2 <= BlockLen /\ r + 1 <= BlockLen
  BY <1>1, Lens
<1> DEFINE u == BlockLen * q
<1>6. /\ u \in Nat /\ n = u + r
      /\ BlockLen * (q + 1) = u + BlockLen /\ BlockLen * (q + 2) = u + BlockLen + BlockLen
  BY ONLY <1>1, <1>5
<1> HIDE DEF u
<1>7. CASE r + 1 + LengthLen <= BlockLen
  <2> DEFINE z == BlockLen - LengthLen - 1 - r
             t == q + 1
  <2>1. z \in 0..(BlockLen - 1) /\ n + 1 + z + LengthLen = BlockLen * t /\ t \in Nat
    BY ONLY <1>1, <1>5, <1>6, <1>7
  <2>2. FipsDigest(alg, m) = HashOf(alg, Chunks(PaddedTo(m, n, BlockLen * t), t))
    <3> HIDE DEF z, t
    <3> QED BY ONLY <1>4, <2>1, n \in Nat, FipsBlocks
  <2>3. Final(alg, Given(m, q, r, n)) = Chunks(PaddedTo(m, n, BlockLen * (q + 1)), q + 1)
    BY ONLY <1>1, <1>2, <1>4, <1>7, n \in Nat, alg \in Algs, FinalShort
  <2> QED BY ONLY <1>3, <2>2, <2>3
<1>8. CASE r + 1 + LengthLen > BlockLen
  <2> DEFINE z == BlockLen + BlockLen - LengthLen - 1 - r
             t == q + 2
  <2>1. z \in 0..(BlockLen - 1) /\ n + 1 + z + LengthLen = BlockLen * t /\ t \in Nat
    BY ONLY <1>1, <1>5, <1>6, <1>8
  <2>2. FipsDigest(alg, m) = HashOf(alg, Chunks(PaddedTo(m, n, BlockLen * t), t))
    <3> HIDE DEF z, t
    <3> QED BY ONLY <1>4, <2>1, n \in Nat, FipsBlocks
  <2>3. Final(alg, Given(m, q, r, n)) = Chunks(PaddedTo(m, n, BlockLen * (q + 2)), q + 2)
    BY ONLY <1>1, <1>4, <1>5, <1>8, n \in Nat, alg \in Algs, FinalLong
  <2> QED BY ONLY <1>3, <2>2, <2>3
<1>9. r + 1 + LengthLen <= BlockLen \/ r + 1 + LengthLen > BlockLen
  BY <1>1, <1>5
<1> QED BY <1>7, <1>8, <1>9

(* The digest of a message.                                                    *)
LEMMA DigestRight ==
  ASSUME NEW alg \in Algs, NEW n, n \in Nat, NEW m, IsFcn(m, n), ~Unlucky(alg, n)
  PROVE  Digest(alg, m) = FipsDigest(alg, m)
<1>1. Len(m) = n
  BY FcnIsSeq DEF IsFcn
<1>2. Follows(m, 0, m)
  <2>1. \A k \in 1..n : 0 + k = k
    OBVIOUS
  <2> QED BY <1>1, <2>1 DEF Follows
<1>3. Update(Hashed(m, 0, 0), m) = Hashed(m, 0 + Len(m), 0 + Len(m))
  <2>1. 0 \in Nat /\ Len(m) \in Nat
    BY <1>1
  <2> QED BY ONLY <1>2, <2>1, UpdateHashed
<1>4. 0 + Len(m) = n
  BY <1>1
<1>5. Update(Fresh, m) = Hashed(m, n, n)
  BY ONLY <1>3, <1>4, FreshHashed
<1> QED BY ONLY <1>5, FinalRight, alg \in Algs, n \in Nat, IsFcn(m, n), ~Unlucky(alg, n) DEF Digest

\* m is a, and b behind it.
Parts(m, a, n, b, k) ==
  /\ n \in Nat /\ k \in Nat
  /\ IsFcn(m, n + k) /\ IsFcn(a, n) /\ IsFcn(b, k) /\ Alike(m, a, n) /\ Follows(m, n, b)

(* How long both are together.                                                 *)
LEMMA PartsLen ==
  ASSUME NEW m, NEW a, NEW n, NEW b, NEW k, Parts(m, a, n, b, k)
  PROVE  Len(m) = n + k
<1> DEFINE e == n + k
<1>1. IsFcn(m, e) /\ e \in Nat
  BY DEF Parts
<1> HIDE DEF e
<1>2. Len(m) = e
  BY ONLY <1>1, FcnIsSeq DEF IsFcn
<1> QED BY <1>2 DEF e

(* The digest of a message that is given in two parts.                         *)
LEMMA DigestOfTwoRight ==
  ASSUME NEW alg, alg \in Algs, NEW m, NEW a, NEW n, NEW b, NEW k,
         Parts(m, a, n, b, k), ~Unlucky(alg, Len(m))
  PROVE  DigestOfTwo(alg, a, b) = FipsDigest(alg, m)
<1>0. n \in Nat /\ k \in Nat /\ IsFcn(m, n + k) /\ IsFcn(a, n) /\ IsFcn(b, k) /\ Alike(m, a, n) /\ Follows(m, n, b)
  BY DEF Parts
<1>1. Len(a) = n /\ Len(b) = k /\ n + k \in Nat
  BY <1>0, FcnIsSeq DEF IsFcn
<1>9. Len(m) = n + k
  BY PartsLen
<1>2. Follows(m, 0, a)
  <2>1. \A i \in 1..n : 0 + i = i
    OBVIOUS
  <2> QED BY <1>0, <1>1, <2>1 DEF Follows, Alike
<1>3. Update(Hashed(m, 0, 0), a) = Hashed(m, 0 + Len(a), 0 + Len(a))
  <2>1. 0 \in Nat /\ Len(a) \in Nat
    BY <1>1
  <2> QED BY ONLY <1>2, <2>1, UpdateHashed
<1>4. 0 + Len(a) = n
  BY <1>1
<1>5. Update(Fresh, a) = Hashed(m, n, n)
  BY ONLY <1>3, <1>4, FreshHashed
<1>6. Update(Hashed(m, n, n), b) = Hashed(m, n + k, n + k)
  <2>1. Len(b) \in Nat
    BY <1>1
  <2>2. Update(Hashed(m, n, n), b) = Hashed(m, n + Len(b), n + Len(b))
    BY ONLY <1>0, <2>1, UpdateHashed
  <2> QED BY ONLY <1>1, <2>2
<1> DEFINE d == n + k
<1>7. d \in Nat /\ IsFcn(m, d) /\ ~Unlucky(alg, d)
  BY <1>0, <1>1, <1>9
<1> HIDE DEF d
<1>8. HashOf(alg, Final(alg, Hashed(m, d, d))) = FipsDigest(alg, m)
  BY ONLY <1>7, alg \in Algs, FinalRight
<1> QED BY ONLY <1>5, <1>6, <1>8 DEF DigestOfTwo, d

(* A message cut in two.                                                       *)
LEMMA CutInTwo ==
  ASSUME NEW S, NEW m \in Seq(S), NEW k \in 0..Len(m)
  PROVE  Parts(m, SubSeq(m, 1, k), k, SubSeq(m, k + 1, Len(m)), Len(m) - k)
<1> DEFINE n == Len(m)
           a == SubSeq(m, 1, k)
           b == SubSeq(m, k + 1, n)
<1>1. n \in Nat /\ k \in Nat /\ n - k \in Nat /\ k + (n - k) = n /\ k <= n
  OBVIOUS
<1>2. IsFcn(m, n)
  BY DEF IsFcn
<1>3. a \in Seq(S) /\ Len(a) = k /\ \A i \in 1..k : a[i] = m[i]
  BY <1>1
<1>4. b \in Seq(S) /\ Len(b) = n - k /\ \A i \in 1..(n - k) : b[i] = m[k + i]
  <2> DEFINE d == n - k
  <2>1. d \in Nat /\ k + d <= n /\ k + d = n
    BY <1>1
  <2> HIDE DEF d, n
  <2>2. Part(m, k, d) = Slice(m, k, d)
    <3>1. k \in Nat /\ d \in Nat /\ n \in Nat /\ k + d <= n
      BY ONLY <1>1, <2>1
    <3> QED BY ONLY <1>2, <3>1, PartFcn
  <2>3. b = [i \in 1..d |-> m[k + i]]
    BY ONLY <2>1, <2>2 DEF Part, Slice, n
  <2>4. Len(b) = d /\ \A i \in 1..d : b[i] = m[k + i]
    <3> HIDE DEF b
    <3>1. b = [i \in 1..d |-> b[i]]
      BY ONLY <2>3
    <3>2. Len(b) = d
      BY ONLY <2>1, <3>1, FcnIsSeq
    <3> QED BY ONLY <2>3, <3>2
  <2>5. b \in Seq(S)
    BY <1>1 DEF n
  <2> QED BY ONLY <2>4, <2>5 DEF d
<1> HIDE DEF a, b
<1>5. IsFcn(a, k)
  BY <1>3 DEF IsFcn
<1>6. IsFcn(b, n - k)
  BY <1>4 DEF IsFcn
<1>7. Alike(m, a, k)
  BY <1>3 DEF Alike
<1>8. Follows(m, k, b)
  BY <1>4 DEF Follows
<1> HIDE DEF n
<1> QED BY ONLY <1>1, <1>2, <1>5, <1>6, <1>7, <1>8 DEF Parts, a, b, n

-----------------------------------------------------------------------------
(* Two sequences, one behind the other.                                        *)
LEMMA ConcatParts ==
  ASSUME NEW n, n \in Nat, NEW k, k \in Nat, NEW a, IsFcn(a, n), NEW b, IsFcn(b, k)
  PROVE  Parts(a \o b, a, n, b, k)
<1> DEFINE m == a \o b
<1>0. a = [i \in 1..n |-> a[i]] /\ b = [i \in 1..k |-> b[i]]
  BY DEF IsFcn
<1>1. m = [i \in 1..(n + k) |-> IF i <= n THEN a[i] ELSE b[i - n]]
  BY ONLY <1>0, n \in Nat, k \in Nat, ConcatFcn
<1>2. Len(b) = k
  BY <1>0, FcnIsSeq
<1> HIDE DEF m
<1>3. IsFcn(m, n + k)
  <2> DEFINE d == n + k
  <2> HIDE DEF d
  <2>1. m = [i \in 1..d |-> IF i <= n THEN a[i] ELSE b[i - n]]
    BY ONLY <1>1 DEF d
  <2>2. m = [i \in 1..d |-> m[i]]
    BY ONLY <2>1
  <2> QED BY ONLY <2>2 DEF d, IsFcn
<1>4. ASSUME NEW i \in 1..n PROVE m[i] = a[i]
  <2>1. i \in 1..(n + k) /\ i <= n
    OBVIOUS
  <2> QED BY ONLY <1>1, <2>1
<1>5. ASSUME NEW i \in 1..k PROVE m[n + i] = b[i]
  <2>1. n + i \in 1..(n + k) /\ ~(n + i <= n) /\ (n + i) - n = i
    OBVIOUS
  <2> QED BY ONLY <1>1, <2>1
<1>6. Alike(m, a, n)
  BY <1>4 DEF Alike
<1>7. Follows(m, n, b)
  BY <1>2, <1>5 DEF Follows
<1> QED BY ONLY <1>3, <1>6, <1>7, n \in Nat, k \in Nat, IsFcn(a, n), IsFcn(b, k) DEF Parts, m

(* A digest has as many symbols as there are in a digest.                      *)
LEMMA FipsLen ==
  ASSUME NEW alg, NEW m
  PROVE  IsFcn(FipsDigest(alg, m), HashLen)
BY DEF FipsDigest, IsFcn

(* A whole block before the data, or a digest, does not make it unlucky.       *)
LEMMA Lucky ==
  ASSUME NEW alg, NEW n, n \in Nat
  PROVE  /\ Unlucky(alg, BlockLen + n) <=> Unlucky(alg, n)
         /\ ~Unlucky(alg, HashLen)
<1>1. BlockLen \in Nat \ {0} /\ BlockLen \in Int /\ n \in Int /\ 1 \in Int
  BY Lens
<1>2. (n + BlockLen * 1) % BlockLen = n % BlockLen
  BY ONLY <1>1, ModShift
<1>3. n + BlockLen * 1 = BlockLen + n
  BY <1>1
<1>4. HashLen % BlockLen # BlockLen - LengthLen - 1
  <2>1. CASE HashLen = BlockLen
    <3>1. HashLen \in Nat /\ HashLen = BlockLen * 1 + 0 /\ 0 \in Nat /\ 0 < BlockLen /\ 1 \in Nat
      BY <2>1, Lens
    <3>2. HashLen % BlockLen = 0
      BY ONLY <3>1, PartedOnce
    <3>3. BlockLen - LengthLen - 1 # 0
      BY Lens
    <3> QED BY <3>2, <3>3
  <2>2. CASE HashLen < BlockLen
    <3>1. HashLen \in Nat /\ HashLen = BlockLen * 0 + HashLen /\ 0 \in Nat
      BY <2>2, Lens
    <3>2. HashLen % BlockLen = HashLen
      BY ONLY <2>2, <3>1, PartedOnce
    <3> QED BY <3>2, Lens
  <2>3. HashLen = BlockLen \/ HashLen < BlockLen
    BY Lens
  <2> QED BY <2>1, <2>2, <2>3
<1> QED BY ONLY <1>2, <1>3, <1>4 DEF Unlucky

\* The key of RfcHmac, and a pad.
HmacKey(alg, key) == IF Len(key) > BlockLen THEN FipsDigest(alg, key) ELSE key
RfcPad(s, k) == [i \in 1..BlockLen |-> <<s, IF i <= Len(k) THEN k[i] ELSE Zero>>]

(* HMAC is that of RFC 2104.                                                   *)
LEMMA HmacRight ==
  ASSUME NEW alg \in Algs, NEW l, l \in Nat, NEW key, IsFcn(key, l), NEW n, n \in Nat, NEW data, IsFcn(data, n),
         ~(l > BlockLen /\ Unlucky(alg, l)), ~Unlucky(alg, n)
  PROVE  HMAC(alg, key, data) = RfcHmac(alg, key, data)
<1>1. Len(key) = l
  BY FcnIsSeq DEF IsFcn
<1> DEFINE k == HmacKey(alg, key)
<1>2. k = IF Len(key) > BlockLen THEN Digest(alg, key) ELSE key
  <2>1. CASE l > BlockLen
    <3>1. Digest(alg, key) = FipsDigest(alg, key)
      BY <2>1, DigestRight
    <3> QED BY ONLY <3>1 DEF HmacKey
  <2>2. CASE ~(l > BlockLen)
    BY <1>1, <2>2 DEF HmacKey
  <2> QED BY <2>1, <2>2
<1>3. PICK j \in Nat : IsFcn(k, j)
  <2>1. IsFcn(FipsDigest(alg, key), HashLen) /\ HashLen \in Nat
    BY FipsLen, Lens
  <2> QED BY <2>1 DEF HmacKey
<1> HIDE DEF k
<1>4. Len(k) = j /\ DOMAIN k = 1..j
  BY <1>3, FcnIsSeq DEF IsFcn
<1>5. ASSUME NEW s PROVE XorPad(s, Pad(k, BlockLen)) = RfcPad(s, k) /\ IsFcn(RfcPad(s, k), BlockLen)
  <2>1. \A i \in 1..BlockLen : i \in DOMAIN k <=> i <= Len(k)
    BY <1>4, Lens
  <2> QED BY <2>1 DEF XorPad, Pad, RfcPad, IsFcn
<1> DEFINE inner == RfcPad("ipad", k) \o data
           ih == FipsDigest(alg, inner)
           outer == RfcPad("opad", k) \o ih
<1>6. BlockLen \in Nat /\ HashLen \in Nat
  BY Lens
<1>7. DigestOfTwo(alg, RfcPad("ipad", k), data) = ih
  <2>1. Parts(inner, RfcPad("ipad", k), BlockLen, data, n)
    BY <1>5, <1>6, ConcatParts
  <2>2. ~Unlucky(alg, BlockLen + n)
    BY Lucky
  <2> HIDE DEF inner
  <2>3. Len(inner) = BlockLen + n
    BY ONLY <2>1, PartsLen
  <2>4. ~Unlucky(alg, Len(inner))
    BY <2>2, <2>3
  <2> QED BY ONLY <2>1, <2>4, alg \in Algs, DigestOfTwoRight
<1> DEFINE pad == RfcPad("opad", k)
<1>8. DigestOfTwo(alg, pad, ih) = FipsDigest(alg, pad \o ih)
  <2>1. IsFcn(pad, BlockLen) /\ IsFcn(ih, HashLen)
    BY <1>5, FipsLen
  <2> HIDE DEF pad, ih
  <2>2. Parts(pad \o ih, pad, BlockLen, ih, HashLen)
    BY ONLY <1>6, <2>1, ConcatParts
  <2>3. ~Unlucky(alg, BlockLen + HashLen)
    BY <1>6, Lucky
  <2>4. Len(pad \o ih) = BlockLen + HashLen
    BY ONLY <2>2, PartsLen
  <2>5. ~Unlucky(alg, Len(pad \o ih))
    BY <2>3, <2>4
  <2> QED BY ONLY <2>2, <2>5, alg \in Algs, DigestOfTwoRight
<1>9. HMAC(alg, key, data) =
        DigestOfTwo(alg, XorPad("opad", Pad(k, BlockLen)), DigestOfTwo(alg, XorPad("ipad", Pad(k, BlockLen)), data))
  BY ONLY <1>2 DEF HMAC
<1>10. RfcHmac(alg, key, data) = FipsDigest(alg, outer)
  BY DEF RfcHmac, k, HmacKey, RfcPad
<1> QED BY ONLY <1>5, <1>7, <1>8, <1>9, <1>10

-----------------------------------------------------------------------------
\* Where x is among the first n.
Hits(all, n, x) == {j \in 1..n : all[j] = x}

(* Hits are counted.                                                           *)
LEMMA HitsFinite ==
  ASSUME NEW all, NEW n, n \in Nat, NEW x
  PROVE  IsFiniteSet(Hits(all, n, x)) /\ Cardinality(Hits(all, n, x)) \in Nat
<1>1. IsFiniteSet(1..n)
  <2>1. 1 \in Int /\ n \in Int
    OBVIOUS
  <2> QED BY ONLY <2>1, FS_Interval
<1>2. Hits(all, n, x) \subseteq 1..n
  BY DEF Hits
<1>3. IsFiniteSet(Hits(all, n, x))
  BY ONLY <1>1, <1>2, FS_Subset
<1> QED BY ONLY <1>3, FS_CardinalityType

(* One more is another hit, or not.                                            *)
LEMMA HitsStep ==
  ASSUME NEW all, NEW n, n \in Nat \ {0}, NEW x
  PROVE  Cardinality(Hits(all, n, x)) =
           Cardinality(Hits(all, n - 1, x)) + (IF all[n] = x THEN 1 ELSE 0)
<1>1. n - 1 \in Nat /\ n \notin 1..(n - 1) /\ 1..n = (1..(n - 1)) \cup {n}
  OBVIOUS
<1>2. IsFiniteSet(Hits(all, n - 1, x)) /\ Cardinality(Hits(all, n - 1, x)) \in Nat
  BY <1>1, HitsFinite
<1>3. CASE all[n] = x
  <2>1. Hits(all, n, x) = Hits(all, n - 1, x) \cup {n}
    BY ONLY <1>1, <1>3 DEF Hits
  <2>2. n \notin Hits(all, n - 1, x)
    BY ONLY <1>1 DEF Hits
  <2> DEFINE H == Hits(all, n - 1, x)
  <2>3. IsFiniteSet(H) /\ n \notin H
    BY <1>2, <2>2
  <2> HIDE DEF H
  <2>4. Cardinality(H \cup {n}) = Cardinality(H) + 1
    BY ONLY <2>3, FS_AddElement
  <2> QED BY ONLY <1>3, <2>1, <2>4 DEF H
<1>4. CASE all[n] # x
  <2>1. Hits(all, n, x) = Hits(all, n - 1, x)
    BY ONLY <1>1, <1>4 DEF Hits
  <2> DEFINE c == Cardinality(Hits(all, n - 1, x))
  <2>2. c \in Nat
    BY <1>2
  <2> HIDE DEF c
  <2>3. Cardinality(Hits(all, n, x)) = c
    BY <2>1 DEF c
  <2> QED BY ONLY <1>4, <2>2, <2>3 DEF c
<1> QED BY <1>3, <1>4

(* What is added an odd number of times is hit an odd number of times.         *)
LEMMA OddHits ==
  ASSUME NEW all, NEW n, n \in Nat, NEW x
  PROVE  x \in OddOnes(all, n) <=> Cardinality(Hits(all, n, x)) % 2 = 1
<1>1. x \in OddOnes(all, n) <=> x \in {all[j] : j \in 1..n} /\ Cardinality(Hits(all, n, x)) % 2 = 1
  BY DEF OddOnes, Hits
<1>2. ASSUME x \notin {all[j] : j \in 1..n} PROVE Cardinality(Hits(all, n, x)) % 2 # 1
  <2>1. Hits(all, n, x) = {}
    BY <1>2 DEF Hits
  <2>2. Cardinality(Hits(all, n, x)) = 0
    BY ONLY <2>1, FS_EmptySet
  <2> QED BY <2>2
<1> QED BY ONLY <1>1, <1>2

(* A sum with one more.                                                        *)
LEMMA OddStep ==
  ASSUME NEW all, NEW n, n \in Nat \ {0}
  PROVE  OddOnes(all, n) = Plus(OddOnes(all, n - 1), all[n])
<1> SUFFICES ASSUME NEW x PROVE x \in OddOnes(all, n) <=> x \in Plus(OddOnes(all, n - 1), all[n])
  OBVIOUS
<1> DEFINE c == Cardinality(Hits(all, n - 1, x))
           d == Cardinality(Hits(all, n, x))
<1>1. n - 1 \in Nat /\ n \in Nat
  OBVIOUS
<1>2. c \in Nat /\ d = c + (IF all[n] = x THEN 1 ELSE 0)
  BY <1>1, HitsFinite, HitsStep
<1>3. (x \in OddOnes(all, n - 1) <=> c % 2 = 1) /\ (x \in OddOnes(all, n) <=> d % 2 = 1)
  BY <1>1, OddHits
<1> HIDE DEF c, d
<1>4. CASE all[n] = x
  <2>1. d % 2 = 1 <=> ~(c % 2 = 1)
    BY <1>2, <1>4
  <2> QED BY ONLY <1>3, <1>4, <2>1 DEF Plus
<1>5. CASE all[n] # x
  <2>1. d = c
    BY <1>2, <1>5
  <2> QED BY ONLY <1>3, <1>5, <2>1 DEF Plus
<1> QED BY <1>4, <1>5

(* Nothing is added at first.                                                  *)
LEMMA OddNone ==
  ASSUME NEW all
  PROVE  OddOnes(all, 0) = {}
BY DEF OddOnes

-----------------------------------------------------------------------------
\* The first n iterations of RFC 8018: what is given to each is what was got before.
Iterates(v, alg, pw, first, n) ==
  v = [j \in 1..n |-> RfcHmac(alg, pw, IF j = 1 THEN first ELSE v[j - 1])]

(* There are such iterations.                                                *)
LEMMA IteratesExist ==
  ASSUME NEW alg, NEW pw, NEW first, NEW n, n \in Nat
  PROVE  \E v : Iterates(v, alg, pw, first, n)
<1> DEFINE H(x) == RfcHmac(alg, pw, x)
           Upto(g, i) == g = [j \in 1..i |-> H(IF j = 1 THEN first ELSE g[j - 1])]
           S == {i \in 0..n : \E g : Upto(g, i)}
<1> HIDE DEF H
<1>1. 0 \in S
  <2> DEFINE e == [j \in 1..0 |-> H(first)]
  <2>1. Upto(e, 0)
    OBVIOUS
  <2>2. 0 \in 0..n
    OBVIOUS
  <2> HIDE DEF Upto, e
  <2> QED BY ONLY <2>1, <2>2
<1>2. ASSUME NEW i \in 1..n, i - 1 \in S PROVE i \in S
  <2>1. PICK g : Upto(g, i - 1)
    BY <1>2
  <2> DEFINE y == H(IF i = 1 THEN first ELSE g[i - 1])
             h == [j \in 1..i |-> IF j = i THEN y ELSE g[j]]
  <2>2. i \in Nat \ {0} /\ i \in 0..n
    OBVIOUS
  <2>3. ASSUME NEW j \in 1..i PROVE h[j] = H(IF j = 1 THEN first ELSE h[j - 1])
    <3>1. j # 1 => h[j - 1] = g[j - 1]
      <4>1. j # 1 => j - 1 \in 1..i /\ j - 1 # i
        BY <2>2
      <4> HIDE DEF y
      <4> QED BY <4>1
    <3>2. (IF j = 1 THEN first ELSE h[j - 1]) = IF j = 1 THEN first ELSE g[j - 1]
      BY ONLY <3>1
    <3>3. CASE j = i
      <4>1. h[j] = y
        <5> HIDE DEF y
        <5> QED BY <3>3
      <4> HIDE DEF h
      <4> QED BY ONLY <3>2, <3>3, <4>1
    <3>4. CASE j # i
      <4>1. j \in 1..(i - 1)
        BY <2>2, <3>4
      <4>2. g[j] = H(IF j = 1 THEN first ELSE g[j - 1])
        BY ONLY <2>1, <4>1
      <4>3. h[j] = g[j]
        <5> HIDE DEF y
        <5> QED BY <3>4
      <4> HIDE DEF h
      <4> QED BY ONLY <3>2, <4>2, <4>3
    <3> QED BY <3>3, <3>4
  <2>4. h = [j \in 1..i |-> h[j]]
    OBVIOUS
  <2> HIDE DEF h
  <2>5. Upto(h, i)
    BY ONLY <2>3, <2>4
  <2> HIDE DEF Upto
  <2> QED BY <2>2, <2>5
<1>3. n \in S
  <2> HIDE DEF S
  <2>1. \A i \in 0..n : i \in S
    BY ONLY <1>1, <1>2, n \in Nat, UpToInduction
  <2> QED BY <2>1
<1>4. \E v : Upto(v, n)
  <2> HIDE DEF Upto
  <2> QED BY <1>3
<1> QED BY <1>4 DEF Iterates, H

(* The values of RfcIterations.                                                *)
LEMMA RfcIterated ==
  ASSUME NEW alg, NEW pw, NEW salt, NEW k, NEW n, n \in Nat
  PROVE  Iterates(RfcIterations(alg, pw, salt, k, n), alg, pw, Append(salt, <<"int", k>>), n)
<1> DEFINE first == Append(salt, <<"int", k>>)
           Is(v) == v = [j \in 1..n |-> RfcHmac(alg, pw, IF j = 1 THEN first ELSE v[j - 1])]
           v == CHOOSE v : Is(v)
<1>1. RfcIterations(alg, pw, salt, k, n) = v
  BY DEF RfcIterations
<1>2. \E u : Is(u)
  <2>1. \E u : Iterates(u, alg, pw, first, n)
    <3> HIDE DEF first
    <3> QED BY ONLY n \in Nat, IteratesExist
  <2>2. ASSUME NEW u, Iterates(u, alg, pw, first, n) PROVE Is(u)
    BY ONLY <2>2 DEF Iterates
  <2> HIDE DEF Is
  <2> QED BY ONLY <2>1, <2>2
<1>3. Is(v)
  <2> HIDE DEF Is
  <2> QED BY <1>2
<1> HIDE DEF v
<1> QED BY ONLY <1>1, <1>3 DEF Iterates

\* What HMAC is given in an iteration.
GivenTo(v, first, j) == IF j = 1 THEN first ELSE v[j - 1]

\* A password of l symbols and what is given first, of m: neither is unlucky.
Usable(alg, pw, l, first, m) ==
  /\ alg \in Algs /\ l \in Nat /\ IsFcn(pw, l) /\ ~(l > BlockLen /\ Unlucky(alg, l))
  /\ m \in Nat /\ IsFcn(first, m) /\ ~Unlucky(alg, m)

(* An iteration returns a digest, and HMAC computes it as RFC 2104 has it.     *)
LEMMA IterateRight ==
  ASSUME NEW alg, NEW pw, NEW l, NEW first, NEW m, Usable(alg, pw, l, first, m),
         NEW n, n \in Nat, NEW v, Iterates(v, alg, pw, first, n), NEW j, j \in 1..n
  PROVE  HMAC(alg, pw, GivenTo(v, first, j)) = v[j]
<1>0. /\ alg \in Algs /\ l \in Nat /\ IsFcn(pw, l) /\ ~(l > BlockLen /\ Unlucky(alg, l))
      /\ m \in Nat /\ IsFcn(first, m) /\ ~Unlucky(alg, m)
  BY DEF Usable
<1>1. \A i \in 1..n : v[i] = RfcHmac(alg, pw, IF i = 1 THEN first ELSE v[i - 1])
  BY ONLY Iterates(v, alg, pw, first, n) DEF Iterates
<1>2. v[j] = RfcHmac(alg, pw, GivenTo(v, first, j))
  BY ONLY <1>1, j \in 1..n DEF GivenTo
<1>3. CASE j = 1
  <2>1. HMAC(alg, pw, first) = RfcHmac(alg, pw, first)
    BY ONLY <1>0, HmacRight
  <2> QED BY ONLY <1>2, <1>3, <2>1 DEF GivenTo
<1>4. CASE j # 1
  <2>1. j - 1 \in 1..n
    BY <1>4
  <2>2. \A x : IsFcn(RfcHmac(alg, pw, x), HashLen)
    BY FipsLen DEF RfcHmac
  <2>3. IsFcn(v[j - 1], HashLen)
    BY ONLY <1>1, <2>1, <2>2
  <2>4. HashLen \in Nat /\ ~Unlucky(alg, HashLen)
    <3>1. 0 \in Nat
      OBVIOUS
    <3> QED BY <3>1, Lens, Lucky
  <2> DEFINE x == v[j - 1]
             d == HashLen
  <2>5. IsFcn(x, d) /\ d \in Nat /\ ~Unlucky(alg, d)
    BY <2>3, <2>4
  <2> HIDE DEF x, d
  <2>6. HMAC(alg, pw, x) = RfcHmac(alg, pw, x)
    BY ONLY <1>0, <2>5, HmacRight
  <2> QED BY ONLY <1>2, <1>4, <2>6 DEF GivenTo, x
<1> QED BY <1>3, <1>4

\* What is given to the first iteration of block k, and the sum after the last.
FirstOf(salt, k) == Append(salt, <<"int", BlockNo(k)>>)
SumOf(alg, pw, salt, k, n) == Iterations(alg, pw, salt, k, n)[n].t

(* The loop of PBKDF2.                                                         *)
LEMMA IterationsRight ==
  ASSUME NEW alg, NEW pw, NEW l, NEW salt, NEW k, NEW m, Usable(alg, pw, l, FirstOf(salt, k), m),
         NEW n, n \in Nat \ {0}, NEW v, Iterates(v, alg, pw, FirstOf(salt, k), n)
  PROVE  SumOf(alg, pw, salt, k, n) = OddOnes(v, n)
<1> DEFINE first == FirstOf(salt, k)
           One(u) == [t |-> {u}, u |-> u]
           More(s, u) == [t |-> Plus(s.t, u), u |-> u]
           Is(f) == f = [j \in 1..n |->
                           IF j = 1 THEN One(HMAC(alg, pw, first))
                           ELSE More(f[j - 1], HMAC(alg, pw, f[j - 1].u))]
           It(j) == [t |-> OddOnes(v, j), u |-> v[j]]
           g == [j \in 1..n |-> It(j)]
           f == CHOOSE h : Is(h)
<1>1. Iterations(alg, pw, salt, k, n) = f
  BY DEF Iterations, FirstOf
<1> HIDE DEF first
<1>2. ASSUME NEW j \in 1..n PROVE HMAC(alg, pw, GivenTo(v, first, j)) = v[j]
  <2>1. n \in Nat /\ j \in 1..n
    OBVIOUS
  <2>2. Usable(alg, pw, l, first, m) /\ Iterates(v, alg, pw, first, n)
    BY DEF first
  <2> QED BY ONLY <2>1, <2>2, IterateRight
<1>3. HMAC(alg, pw, first) = v[1] /\ 1 \in 1..n
  <2>1. 1 \in 1..n
    OBVIOUS
  <2>2. GivenTo(v, first, 1) = first
    BY DEF GivenTo
  <2> QED BY ONLY <1>2, <2>1, <2>2
<1>4. It(1) = One(v[1])
  <2>1. OddOnes(v, 1) = Plus(OddOnes(v, 0), v[1])
    <3>1. 1 \in Nat \ {0} /\ 1 - 1 = 0
      OBVIOUS
    <3>2. OddOnes(v, 1) = Plus(OddOnes(v, 1 - 1), v[1])
      BY ONLY <3>1, OddStep
    <3> QED BY ONLY <3>1, <3>2
  <2>2. OddOnes(v, 1) = {v[1]}
    BY ONLY <2>1, OddNone DEF Plus
  <2> QED BY <2>2
<1>5. ASSUME NEW j \in 2..n
      PROVE  It(j) = More(It(j - 1), HMAC(alg, pw, It(j - 1).u))
  <2>1. j \in 1..n /\ j - 1 \in 1..n /\ j # 1 /\ j \in Nat \ {0}
    OBVIOUS
  <2>2. GivenTo(v, first, j) = v[j - 1]
    BY <2>1 DEF GivenTo
  <2>3. HMAC(alg, pw, v[j - 1]) = v[j]
    BY ONLY <1>2, <2>1, <2>2
  <2>4. OddOnes(v, j) = Plus(OddOnes(v, j - 1), v[j])
    BY <2>1, OddStep
  <2> QED BY <2>3, <2>4
<1> HIDE DEF One, More, It
<1>6. Is(g)
  <2>1. ASSUME NEW j \in 1..n
        PROVE  It(j) = IF j = 1 THEN One(HMAC(alg, pw, first))
                       ELSE More(g[j - 1], HMAC(alg, pw, g[j - 1].u))
    <3>1. CASE j = 1
      BY ONLY <1>3, <1>4, <3>1
    <3>2. CASE j # 1
      <4>1. j \in 2..n /\ j - 1 \in 1..n
        BY <3>2
      <4>2. g[j - 1] = It(j - 1)
        BY ONLY <4>1
      <4> HIDE DEF g
      <4> QED BY ONLY <1>5, <3>2, <4>1, <4>2
    <3> QED BY <3>1, <3>2
  <2> QED BY ONLY <2>1
<1>7. Is(f)
  <2> HIDE DEF Is
  <2> QED BY <1>6
<1> HIDE DEF f, g
<1>8. /\ f[1] = One(HMAC(alg, pw, first))
      /\ \A j \in 2..n : f[j] = More(f[j - 1], HMAC(alg, pw, f[j - 1].u))
  <2>1. \A j \in 1..n : f[j] = IF j = 1 THEN One(HMAC(alg, pw, first))
                                ELSE More(f[j - 1], HMAC(alg, pw, f[j - 1].u))
    BY ONLY <1>7
  <2>2. \A j \in 2..n : j \in 1..n /\ j # 1
    OBVIOUS
  <2> QED BY ONLY <1>3, <2>1, <2>2
<1> HIDE DEF Is
<1> DEFINE S == {j \in 0..n : j = 0 \/ f[j] = It(j)}
<1>9. 0 \in S
  OBVIOUS
<1>10. ASSUME NEW j \in 1..n, j - 1 \in S PROVE j \in S
  <2>1. CASE j = 1
    <3>1. f[1] = It(1)
      BY ONLY <1>3, <1>4, <1>8
    <3> QED BY <2>1, <3>1
  <2>2. CASE j # 1
    <3>1. j \in 2..n /\ j - 1 # 0 /\ j \in 0..n
      BY <2>2
    <3>2. f[j - 1] = It(j - 1)
      BY <1>10, <3>1
    <3>3. f[j] = It(j)
      BY ONLY <1>5, <1>8, <3>1, <3>2
    <3> QED BY <3>1, <3>3
  <2> QED BY <2>1, <2>2
<1>11. \A j \in 0..n : j \in S
  <2>1. n \in Nat
    OBVIOUS
  <2> HIDE DEF S
  <2> QED BY ONLY <1>9, <1>10, <2>1, UpToInduction
<1>12. f[n] = It(n)
  <2>1. n \in 0..n /\ n # 0
    OBVIOUS
  <2> QED BY <1>11, <2>1
<1>13. It(n).t = OddOnes(v, n)
  BY DEF It
<1> QED BY ONLY <1>1, <1>12, <1>13 DEF SumOf

(* A derived key.                                                              *)
LEMMA KeyRight ==
  ASSUME NEW alg \in Algs, NEW S, NEW pw, pw \in Seq(S), NEW salt, salt \in Seq(S),
         NEW n, n \in Nat \ {0}, NEW len,
         ~(Len(pw) > BlockLen /\ Unlucky(alg, Len(pw))), ~Unlucky(alg, Len(salt) + 1)
  PROVE  PBKDF2(alg, pw, salt, n, len) = RfcKey(alg, pw, salt, n, len)
<1> DEFINE l == Len(pw)
           m == Len(salt) + 1
<1>1. l \in Nat /\ m \in Nat /\ Len(salt) \in Nat /\ n \in Nat
  OBVIOUS
<1>2. IsFcn(pw, l) /\ salt = [i \in 1..Len(salt) |-> salt[i]]
  BY DEF IsFcn
<1>3. ASSUME NEW x PROVE IsFcn(Append(salt, x), m)
  <2> DEFINE d == Len(salt)
  <2>1. d \in Nat /\ salt = [i \in 1..d |-> salt[i]]
    BY <1>1, <1>2
  <2> HIDE DEF d
  <2>2. Append(salt, x) = [i \in 1..(d + 1) |-> IF i = d + 1 THEN x ELSE salt[i]]
    BY ONLY <2>1, AppendFcn
  <2> DEFINE e == d + 1
             a == Append(salt, x)
  <2> HIDE DEF e, a
  <2>3. a = [i \in 1..e |-> IF i = e THEN x ELSE salt[i]]
    BY ONLY <2>2 DEF e, a
  <2>4. a = [i \in 1..e |-> a[i]]
    BY ONLY <2>3
  <2> QED BY ONLY <2>4 DEF IsFcn, a, e, d
<1>4. ~(l > BlockLen /\ Unlucky(alg, l)) /\ ~Unlucky(alg, m)
  OBVIOUS
<1> HIDE DEF l, m
<1>5. ASSUME NEW k
      PROVE  SumOf(alg, pw, salt, k, n) = OddOnes(RfcIterations(alg, pw, salt, BlockNo(k), n), n)
  <2> DEFINE v == RfcIterations(alg, pw, salt, BlockNo(k), n)
  <2>1. IsFcn(FirstOf(salt, k), m)
    BY <1>3 DEF FirstOf
  <2>2. Iterates(v, alg, pw, FirstOf(salt, k), n)
    BY <1>1, RfcIterated DEF FirstOf
  <2> HIDE DEF v
  <2>4. Usable(alg, pw, l, FirstOf(salt, k), m)
    BY <1>1, <1>2, <1>4, <2>1 DEF Usable
  <2>5. SumOf(alg, pw, salt, k, n) = OddOnes(v, n)
    BY ONLY <2>2, <2>4, n \in Nat \ {0}, IterationsRight
  <2> QED BY <2>5 DEF v
<1>6. \A j : BlockNo(j) = j + 1
  BY DEF BlockNo
<1> QED BY ONLY <1>5, <1>6 DEF PBKDF2, RfcKey, SumOf

-----------------------------------------------------------------------------
(* The calls.                                                                *)

(* Of which operation the call of each action is.                            *)
LEMMA OtherCalls ==
         /\ CallUpdate => call'.op = "Update"
         /\ CallPBKDF2 => call'.op = "PBKDF2"
         /\ CallUnwrap => call'.op = "Unwrap"
         /\ CallDecryptBlocks => call'.op = "DecryptBlocks"
         /\ CallVerifyBlock => call'.op = "VerifyBlock"
         /\ CallDecompressADC => call'.op = "DecompressADC"
         /\ CallDecodeKey => call'.op = "DecodeKey"
         /\ Return => call'.op = "nothing"
<1>1. CallUpdate => call'.op = "Update"
  BY DEF CallUpdate
<1>2. CallPBKDF2 => call'.op = "PBKDF2"
  BY DEF CallPBKDF2
<1>3. CallUnwrap => call'.op = "Unwrap"
  BY DEF CallUnwrap
<1>4. CallDecryptBlocks => call'.op = "DecryptBlocks"
  BY DEF CallDecryptBlocks
<1>5. CallVerifyBlock => call'.op = "VerifyBlock"
  BY DEF CallVerifyBlock
<1>6. CallDecompressADC => call'.op = "DecompressADC"
  BY DEF CallDecompressADC
<1>7. CallDecodeKey => call'.op = "DecodeKey"
  BY DEF CallDecodeKey
<1>8. Return => call'.op = "nothing"
  BY DEF Return, Nothing
<1> QED BY <1>1, <1>2, <1>3, <1>4, <1>5, <1>6, <1>7, <1>8

-----------------------------------------------------------------------------
(* A call of DecompressADC.                                                  *)
LEMMA DecompressRight ==
  ASSUME CallDecompressADC
  PROVE  SectionsWhole'
<1>0. PICK s \in Sections : \E cut \in 0..Len(s.src) :
        /\ call' = [op |-> "DecompressADC", data |-> s.data, cut |-> cut]
        /\ result' = DecompressADC(Left(s.src, cut), Len(s.data))
  BY DEF CallDecompressADC
<1>1. PICK cut \in 0..Len(s.src) :
        /\ call' = [op |-> "DecompressADC", data |-> s.data, cut |-> cut]
        /\ result' = DecompressADC(Left(s.src, cut), Len(s.data))
  BY <1>0
<1>2. result' = IF cut = 0 THEN s.data ELSE AdcCrash
  BY <1>1, SectionsAssumption, SectionRight
<1>3. call'.data = s.data /\ call'.cut = cut
  BY <1>1
<1> QED BY <1>2, <1>3 DEF SectionsWhole

(* DecompressADC turns every section of any length, however its data was     *)
(* split into runs and copies, near or far, and copies that overlap what     *)
(* they write, into its data; one that is cut off anywhere is given up and   *)
(* not taken for whole.                                                      *)
THEOREM SectionsAreWhole == CodecsSpec => []SectionsWhole
<1>1. CodecsInit => SectionsWhole
  BY DEF CodecsInit, SectionsWhole, Nothing
<1>2. SectionsWhole /\ [CodecsNext]_vars => SectionsWhole'
  <2> SUFFICES ASSUME SectionsWhole, [CodecsNext]_vars PROVE SectionsWhole'
    OBVIOUS
  <2>1. CASE CallDecompressADC
    BY <2>1, DecompressRight
  <2>2. CASE \/ CallUpdate \/ CallPBKDF2 \/ CallUnwrap \/ CallDecryptBlocks \/ CallVerifyBlock
             \/ CallDecodeKey \/ Return
    BY <2>2, OtherCalls DEF SectionsWhole
  <2>3. CASE UNCHANGED vars
    BY <2>3 DEF vars, SectionsWhole
  <2> QED BY <2>1, <2>2, <2>3 DEF CodecsNext
<1> QED BY <1>1, <1>2, PTL DEF CodecsSpec

-----------------------------------------------------------------------------
(* A call of VerifyBlock.                                                    *)
LEMMA VerifyRight ==
  ASSUME CallVerifyBlock
  PROVE  DamageShows'
<1>0. PICK data \in Blocks, high \in BOOLEAN : \E read \in Damaged(data) :
        /\ call' = [op |-> "VerifyBlock", check |-> CheckOf(data, high), data |-> data, read |-> read]
        /\ result' = VerifyBlock(CheckOf(data, high) \o read)
  BY DEF CallVerifyBlock
<1>1. PICK read \in Damaged(data) :
        /\ call' = [op |-> "VerifyBlock", check |-> CheckOf(data, high), data |-> data, read |-> read]
        /\ result' = VerifyBlock(CheckOf(data, high) \o read)
  BY <1>0
<1>2. data \in Seq(Words)
  BY BlocksAssumption
<1>3. VerifyBlock(CheckOf(data, high) \o read) <=>
        ( /\ CheckOf(data, high) \notin {<<0, 0>>, <<Modulus, Modulus>>}
          /\ SameWords(data, read) )
  BY <1>2, BlockVerified
<1>4. call'.check = CheckOf(data, high) /\ call'.data = data /\ call'.read = read
  BY <1>1
<1>5. result' = ( /\ call'.check \notin {<<0, 0>>, <<Modulus, Modulus>>}
                  /\ SameWords(call'.data, call'.read) )
  BY ONLY <1>1, <1>3, <1>4 DEF VerifyBlock, SameWords
<1> QED BY <1>5 DEF DamageShows, SameWords

(* VerifyBlock takes a block of any length for good when it is as it was     *)
(* written, unless its checksum is the one that is kept for none, and        *)
(* refuses it when a word is another or two neighbours have changed places,  *)
(* for every modulus.                                                        *)
THEOREM DamageIsShown == CodecsSpec => []DamageShows
<1>1. CodecsInit => DamageShows
  BY DEF CodecsInit, DamageShows, Nothing
<1>2. DamageShows /\ [CodecsNext]_vars => DamageShows'
  <2> SUFFICES ASSUME DamageShows, [CodecsNext]_vars PROVE DamageShows'
    OBVIOUS
  <2>1. CASE CallVerifyBlock
    BY <2>1, VerifyRight
  <2>2. CASE CallUpdate \/ CallPBKDF2 \/ CallUnwrap \/ CallDecryptBlocks \/ CallDecompressADC \/ CallDecodeKey \/ Return
    BY <2>2, OtherCalls DEF DamageShows
  <2>3. CASE UNCHANGED vars
    BY <2>3 DEF vars, DamageShows
  <2> QED BY <2>1, <2>2, <2>3 DEF CodecsNext
<1> QED BY <1>1, <1>2, PTL DEF CodecsSpec

-----------------------------------------------------------------------------
(* A call of Rfc3394_KeyUnwrap.                                              *)
LEMMA UnwrapRight ==
  ASSUME CallUnwrap
  PROVE  CiphersInvert'
<1>0. PICK key \in Keys, plain \in Plains, v \in Flips : \E i \in 1..(Len(plain) + 1) :
        LET wrapped == Rfc3394_KeyWrap(plain, key)
            damaged == [wrapped EXCEPT ![i] = WordXor(@, v)]
        IN /\ call' = [op |-> "Unwrap", key |-> key, plain |-> plain, wrapped |-> wrapped, damaged |-> damaged]
           /\ result' = Rfc3394_KeyUnwrap(damaged, key)
  BY DEF CallUnwrap
<1>1. PICK i \in 1..(Len(plain) + 1) :
        LET wrapped == Rfc3394_KeyWrap(plain, key)
            damaged == [wrapped EXCEPT ![i] = WordXor(@, v)]
        IN /\ call' = [op |-> "Unwrap", key |-> key, plain |-> plain, wrapped |-> wrapped, damaged |-> damaged]
           /\ result' = Rfc3394_KeyUnwrap(damaged, key)
  BY <1>0
<1> DEFINE wrapped == Rfc3394_KeyWrap(plain, key)
           damaged == [wrapped EXCEPT ![i] = WordXor(@, v)]
<1>2. plain \in Seq(Uint64) /\ plain # <<>> /\ v \in Uint64
  BY PlainsAssumption
<1>3. wrapped \in Seq(Uint64) /\ Len(wrapped) = Len(plain) + 1
  BY <1>2, WrapIsWords
<1>4. /\ call'.op = "Unwrap" /\ call'.key = key /\ call'.plain = plain /\ call'.wrapped = wrapped
      /\ call'.damaged = damaged /\ result' = Rfc3394_KeyUnwrap(damaged, key)
  BY <1>1
<1>5. damaged = wrapped => Rfc3394_KeyUnwrap(damaged, key) = [ok |-> TRUE, plain |-> plain]
  BY <1>2, Unwrapped
<1> HIDE DEF wrapped
<1>6. damaged \in Seq(Uint64) /\ Len(damaged) >= 2
  <2>1. Len(plain) \in Nat \ {0} /\ i \in 1..Len(wrapped)
    BY <1>2, <1>3
  <2>2. WordXor(wrapped[i], v) \in Uint64
    BY <1>2, <1>3, <2>1, WordsAssumption
  <2> QED BY <1>3, <2>1, <2>2
<1> HIDE DEF damaged
<1>7. Rfc3394_KeyUnwrap(damaged, key).ok => Rfc3394_KeyWrap(Rfc3394_KeyUnwrap(damaged, key).plain, key) = damaged
  BY <1>6, WrappedAgain
<1> QED BY ONLY <1>4, <1>5, <1>7 DEF CiphersInvert

(* A call of DecryptBlocks.                                                  *)
LEMMA DecryptRight ==
  ASSUME CallDecryptBlocks
  PROVE  CiphersInvert'
<1>1. PICK keys \in Keys \X Keys, block \in BlockNos, data \in Units :
        LET cipher == [k \in DOMAIN data |-> XtsEncrypt(keys, data[k], UnitNo(block, k))]
        IN /\ call' = [op |-> "DecryptBlocks", keys |-> keys, block |-> block, data |-> data, cipher |-> cipher]
           /\ result' = DecryptBlocks(keys, cipher, block)
  BY DEF CallDecryptBlocks
<1> DEFINE cipher == [k \in DOMAIN data |-> XtsEncrypt(keys, data[k], UnitNo(block, k))]
<1>2. data \in Seq(Seq(CipherBlocks)) /\ block \in Nat
  BY PlainsAssumption
<1>3. cipher = CipherOf(keys, data, block)
  BY DEF CipherOf
<1>4. /\ call'.op = "DecryptBlocks" /\ call'.keys = keys /\ call'.block = block /\ call'.data = data
      /\ call'.cipher = cipher /\ result' = DecryptBlocks(keys, cipher, block)
  BY <1>1
<1> HIDE DEF cipher
<1>5. cipher = StandardCipher(keys, data, block) /\ DecryptBlocks(keys, cipher, block) = data
  <2>1. keys \in Keys \X Keys
    OBVIOUS
  <2>2. /\ CipherOf(keys, data, block) = StandardCipher(keys, data, block)
        /\ DecryptBlocks(keys, CipherOf(keys, data, block), block) = data
    BY ONLY <1>2, <2>1, BlocksStandard, BlocksDecrypted
  <2> QED BY ONLY <1>3, <2>2
<1> QED BY ONLY <1>4, <1>5 DEF CiphersInvert, StandardCipher

(* Rfc3394_KeyUnwrap opens what was wrapped and nothing that was not, for    *)
(* keys of every length; DecryptBlocks gives the data that was encrypted,    *)
(* sector by sector under its own number, as IEEE 1619 has it, whatever the  *)
(* block cipher is, the width of a word, the size of a sector and the number *)
(* of the block.                                                             *)
THEOREM CiphersAreInverted == CodecsSpec => []CiphersInvert
<1>1. CodecsInit => CiphersInvert
  BY DEF CodecsInit, CiphersInvert, Nothing
<1>2. CiphersInvert /\ [CodecsNext]_vars => CiphersInvert'
  <2> SUFFICES ASSUME CiphersInvert, [CodecsNext]_vars PROVE CiphersInvert'
    OBVIOUS
  <2>1. CASE CallUnwrap
    BY <2>1, UnwrapRight
  <2>2. CASE CallDecryptBlocks
    BY <2>2, DecryptRight
  <2>3. CASE CallUpdate \/ CallPBKDF2 \/ CallVerifyBlock \/ CallDecompressADC \/ CallDecodeKey \/ Return
    BY <2>3, OtherCalls DEF CiphersInvert
  <2>4. CASE UNCHANGED vars
    BY <2>4 DEF vars, CiphersInvert
  <2> QED BY <2>1, <2>2, <2>3, <2>4 DEF CodecsNext
<1> QED BY <1>1, <1>2, PTL DEF CodecsSpec

-----------------------------------------------------------------------------
(* Two calls of Update, and Final.                                           *)
LEMMA UpdateRight ==
  ASSUME CallUpdate
  PROVE  DigestsRight'
<1>1. PICK alg \in Algs, m \in Messages : \E k \in 0..Len(m) :
        /\ call' = [op |-> "Update", alg |-> alg, m |-> m]
        /\ result' = DigestOfTwo(alg, SubSeq(m, 1, k), SubSeq(m, k + 1, Len(m)))
  BY DEF CallUpdate
<1>2. PICK k \in 0..Len(m) :
        /\ call' = [op |-> "Update", alg |-> alg, m |-> m]
        /\ result' = DigestOfTwo(alg, SubSeq(m, 1, k), SubSeq(m, k + 1, Len(m)))
  BY <1>1
<1>3. m \in Seq(Symbol)
  BY MessagesAssumption
<1> DEFINE n == Len(m)
           a == SubSeq(m, 1, k)
           b == SubSeq(m, k + 1, n)
           d == n - k
<1>4. n \in Nat /\ k \in Nat /\ d \in Nat /\ k + d = n
  BY <1>3
<1>5. Parts(m, a, k, b, d)
  BY <1>3, CutInTwo
<1>6. call'.op = "Update" /\ call'.alg = alg /\ call'.m = m /\ result' = DigestOfTwo(alg, a, b)
  BY <1>2
<1> HIDE DEF a, b, d
<1>7. ASSUME ~Unlucky(alg, n) PROVE DigestOfTwo(alg, a, b) = FipsDigest(alg, m)
  BY ONLY <1>5, <1>7, alg \in Algs, DigestOfTwoRight DEF n
<1> QED BY ONLY <1>6, <1>7 DEF DigestsRight, n

(* A call of PBKDF2.                                                         *)
LEMMA DeriveRight ==
  ASSUME CallPBKDF2
  PROVE  DigestsRight'
<1>1. PICK alg \in Algs, pw \in Passwords, salt \in Salts, iterations \in Counts, len \in KeyLens :
        /\ call' = [op |-> "PBKDF2", alg |-> alg, pw |-> pw, salt |-> salt,
                    iterations |-> iterations, len |-> len]
        /\ result' = PBKDF2(alg, pw, salt, iterations, len)
  BY DEF CallPBKDF2
<1>2. pw \in Seq(Symbol) /\ salt \in Seq(Symbol) /\ iterations \in Nat \ {0}
  BY MessagesAssumption
<1>3. /\ call'.op = "PBKDF2" /\ call'.alg = alg /\ call'.pw = pw /\ call'.salt = salt
      /\ call'.iterations = iterations /\ call'.len = len
  BY <1>1
<1>4. ASSUME ~(Len(pw) > BlockLen /\ Unlucky(alg, Len(pw))), ~Unlucky(alg, Len(salt) + 1)
      PROVE  PBKDF2(alg, pw, salt, iterations, len) = RfcKey(alg, pw, salt, iterations, len)
  BY ONLY <1>2, <1>4, alg \in Algs, KeyRight
<1> QED BY ONLY <1>1, <1>3, <1>4 DEF DigestsRight

(* The digests of Sha1 and SHA256 are those of FIPS 180-4 for messages of    *)
(* every length however Update is given them, HMAC that of RFC 2104 and a    *)
(* key derived by PBKDF2 that of RFC 8018, for every number of iterations;   *)
(* but not where SHA256 pads with a block too many.                          *)
THEOREM DigestsAreRight == CodecsSpec => []DigestsRight
<1>1. CodecsInit => DigestsRight
  BY DEF CodecsInit, DigestsRight, Nothing
<1>2. DigestsRight /\ [CodecsNext]_vars => DigestsRight'
  <2> SUFFICES ASSUME DigestsRight, [CodecsNext]_vars PROVE DigestsRight'
    OBVIOUS
  <2>1. CASE CallUpdate
    BY <2>1, UpdateRight
  <2>2. CASE CallPBKDF2
    BY <2>2, DeriveRight
  <2>3. CASE CallUnwrap \/ CallDecryptBlocks \/ CallVerifyBlock \/ CallDecompressADC \/ CallDecodeKey \/ Return
    BY <2>3, OtherCalls DEF DigestsRight
  <2>4. CASE UNCHANGED vars
    BY <2>4 DEF vars, DigestsRight
  <2> QED BY <2>1, <2>2, <2>3, <2>4 DEF CodecsNext
<1> QED BY <1>1, <1>2, PTL DEF CodecsSpec

-----------------------------------------------------------------------------
(* Keys in a keybag: what the decoder of DER finds, element by element.      *)

\* s is in b from place p on.
LiesAt(b, p, s) ==
  /\ p \in Nat \ {0} /\ p + Len(s) <= Len(b) + 1
  /\ \A i \in 1..Len(s) : b[p + i - 1] = s[i]

(* What is in two parts is there part by part.                               *)
LEMMA AtBoth ==
  ASSUME NEW b \in Seq(Bytes), NEW p, NEW s \in Seq(Bytes), NEW t \in Seq(Bytes), LiesAt(b, p, s \o t)
  PROVE  LiesAt(b, p, s) /\ LiesAt(b, p + Len(s), t)
<1>1. Len(s \o t) = Len(s) + Len(t) /\ Len(s) \in Nat /\ Len(t) \in Nat
  OBVIOUS
<1>2. \A i \in 1..Len(s) : i \in 1..Len(s \o t) /\ (s \o t)[i] = s[i]
  OBVIOUS
<1>3. \A i \in 1..Len(t) : i + Len(s) \in 1..Len(s \o t) /\ (s \o t)[i + Len(s)] = t[i]
  OBVIOUS
<1>4. p \in Nat \ {0} /\ Len(b) \in Nat
  BY DEF LiesAt
<1>5. ASSUME NEW i \in 1..Len(t) PROVE b[p + Len(s) + i - 1] = t[i]
  <2>1. p + (i + Len(s)) - 1 = p + Len(s) + i - 1
    BY <1>1, <1>4
  <2> QED BY <1>3, <2>1 DEF LiesAt
<1>6. ASSUME NEW i \in 1..Len(s) PROVE b[p + i - 1] = s[i]
  BY <1>2 DEF LiesAt
<1>7. p + Len(s) <= Len(b) + 1 /\ p + Len(s) + Len(t) <= Len(b) + 1 /\ p + Len(s) \in Nat \ {0}
  <2>1. p + Len(s \o t) <= Len(b) + 1
    BY DEF LiesAt
  <2> QED BY ONLY <1>1, <1>4, <2>1
<1>8. LiesAt(b, p, s)
  BY ONLY <1>4, <1>6, <1>7 DEF LiesAt
<1>9. LiesAt(b, p + Len(s), t)
  BY ONLY <1>5, <1>7 DEF LiesAt
<1> QED BY <1>8, <1>9

(* The bytes of a length: one, two or three.                                 *)
LEMMA LengthBytesIs ==
  ASSUME NEW n, Short(n)
  PROVE  /\ n < 128 => LengthBytes(n) = <<n>> /\ n \in Bytes
         /\ n \in 128..255 => LengthBytes(n) = <<129, n>> /\ n \in Bytes
         /\ n >= 256 => LengthBytes(n) = <<130, HighByte(n), LowByte(n)>>
         /\ n \in Nat /\ HighByte(n) \in Bytes \cap Nat /\ LowByte(n) \in Bytes
         /\ 256 * HighByte(n) + LowByte(n) = n
<1> DEFINE A == <<n>>
           B == <<129, n>>
           C == <<130, HighByte(n), LowByte(n)>>
<1>1. LengthBytes(n) = IF n < 128 THEN A ELSE IF n < 256 THEN B ELSE C
  BY DEF LengthBytes
<1>2. /\ n \in Nat /\ HighByte(n) \in Bytes \cap Nat /\ LowByte(n) \in Bytes
      /\ 256 * HighByte(n) + LowByte(n) = n /\ (n < 256 => n \in Bytes)
  BY DEF Short, HighByte, LowByte, Bytes
<1> HIDE DEF A, B, C
<1>3. /\ n < 128 => LengthBytes(n) = A /\ n \in Bytes
      /\ n \in 128..255 => LengthBytes(n) = B /\ n \in Bytes
      /\ n >= 256 => LengthBytes(n) = C
  BY <1>1, <1>2
<1> QED BY <1>2, <1>3 DEF A, B, C

(* They are bytes.                                                           *)
LEMMA LengthBytesType ==
  ASSUME NEW n, Short(n)
  PROVE  LengthBytes(n) \in Seq(Bytes) /\ Len(LengthBytes(n)) \in 1..3
<1>1. n \in Nat /\ 129 \in Bytes /\ 130 \in Bytes
  BY DEF Short, Bytes
<1>2. CASE n < 128
  <2>1. LengthBytes(n) = <<n>> /\ n \in Bytes
    BY <1>2, LengthBytesIs
  <2> QED BY <2>1
<1>3. CASE n \in 128..255
  <2>1. LengthBytes(n) = <<129, n>> /\ n \in Bytes
    BY <1>3, LengthBytesIs
  <2> QED BY <1>1, <2>1
<1>4. CASE n >= 256
  <2> DEFINE h == HighByte(n)
             l == LowByte(n)
  <2>1. LengthBytes(n) = <<130, h, l>> /\ h \in Bytes /\ l \in Bytes
    BY <1>4, LengthBytesIs
  <2> HIDE DEF h, l
  <2> QED BY <1>1, <2>1
<1> QED BY <1>1, <1>2, <1>3, <1>4

(* A tag, a length and a content.                                            *)
LEMMA TlvType ==
  ASSUME NEW tag \in Bytes, NEW s \in Seq(Bytes), Short(Len(s))
  PROVE  /\ Tlv(tag, s) \in Seq(Bytes)
         /\ Len(Tlv(tag, s)) = 1 + Len(LengthBytes(Len(s))) + Len(s)
         /\ Tlv(tag, s)[1] = tag
<1> DEFINE l == LengthBytes(Len(s))
<1>1. l \in Seq(Bytes)
  BY LengthBytesType
<1>2. Tlv(tag, s) = <<tag>> \o l \o s
  BY DEF Tlv
<1> HIDE DEF l
<1>3. <<tag>> \in Seq(Bytes) /\ Len(<<tag>>) = 1 /\ <<tag>>[1] = tag
  OBVIOUS
<1>4. /\ <<tag>> \o l \in Seq(Bytes) /\ Len(<<tag>> \o l) = 1 + Len(l) /\ (<<tag>> \o l)[1] = tag
  BY <1>1, <1>3
<1>5. /\ <<tag>> \o l \o s \in Seq(Bytes) /\ Len(<<tag>> \o l \o s) = 1 + Len(l) + Len(s)
      /\ (<<tag>> \o l \o s)[1] = tag
  BY <1>1, <1>4
<1> QED BY <1>2, <1>5 DEF l

(* der_decode_len reads a length that is there.                              *)
LEMMA DecodeLenRight ==
  ASSUME NEW b, NEW p \in Nat \ {0}, NEW n, Short(n),
         \A i \in 1..Len(LengthBytes(n)) : b[p + i - 1] = LengthBytes(n)[i],
         NEW end \in Nat, p + Len(LengthBytes(n)) <= end,
         n >= De!LongForm => p + Len(LengthBytes(n)) < end
  PROVE  De!der_decode_len(b, p, end) = De!Result(p + Len(LengthBytes(n)), n)
<1> DEFINE l == LengthBytes(n)
           L == Len(l)
<1>1. /\ n \in Nat /\ p \in Nat \ {0} /\ L \in 1..3 /\ p + L <= end
      /\ n >= 128 => p + L < end
  <2>1. n \in Nat
    BY DEF Short
  <2>2. L \in 1..3
    BY LengthBytesType
  <2>3. p + L <= end /\ (n >= 128 => p + L < end)
    BY DEF De!LongForm
  <2> QED BY ONLY <2>1, <2>2, <2>3, p \in Nat \ {0}
<1>2. \A i \in 1..L : b[p + i - 1] = l[i]
  OBVIOUS
<1> DEFINE Horner(m) == CHOOSE f : f = [i \in 0..m |-> IF i = 0 THEN 0 ELSE 256 * f[i - 1] + b[p + i]]
<1>3. De!der_decode_len(b, p, end) =
        IF p = 0 \/ p >= end THEN De!Result(0, 0)
        ELSE IF b[p] < 128 THEN De!Result(p + 1, b[p])
        ELSE IF p + 1 + (b[p] - 128) >= end THEN De!Result(0, 0)
        ELSE De!Result(p + 1 + (b[p] - 128), Horner(b[p] - 128)[b[p] - 128])
  BY DEF De!der_decode_len, De!LongForm, De!Null
<1>4. /\ n < 128 => l = <<n>>
      /\ n \in 128..255 => l = <<129, n>>
      /\ n >= 256 => l = <<130, HighByte(n), LowByte(n)>>
      /\ HighByte(n) \in Nat /\ 256 * HighByte(n) + LowByte(n) = n
  BY ONLY Short(n), LengthBytesIs
<1> HIDE DEF l, L, Horner
<1>5. CASE n < 128
  <2>1. L = 1 /\ l[1] = n
    BY ONLY <1>4, <1>5 DEF L
  <2>2. b[p] = n
    <3>1. 1 \in 1..L /\ p + 1 - 1 = p
      BY ONLY <1>1, <2>1
    <3> QED BY ONLY <1>2, <2>1, <3>1
  <2>3. p # 0 /\ ~(p >= end)
    BY ONLY <1>1, end \in Nat
  <2> QED BY ONLY <1>3, <1>5, <2>1, <2>2, <2>3 DEF l, L
<1>6. CASE n \in 128..255
  <2>1. L = 2 /\ l[1] = 129 /\ l[2] = n
    BY ONLY <1>4, <1>6 DEF L
  <2>2. b[p] = 129 /\ b[p + 1] = n
    <3>1. 1 \in 1..L /\ p + 1 - 1 = p /\ 2 \in 1..L /\ p + 2 - 1 = p + 1
      BY ONLY <1>1, <2>1
    <3> QED BY ONLY <1>2, <2>1, <3>1
  <2>3. p # 0 /\ ~(p >= end) /\ ~(129 < 128) /\ 129 - 128 = 1 /\ p + 1 + 1 = p + L /\ ~(p + 1 + 1 >= end)
    BY ONLY <1>1, <1>6, <2>1, end \in Nat
  <2> DEFINE Is(f) == f = [i \in 0..1 |-> IF i = 0 THEN 0 ELSE 256 * f[i - 1] + b[p + i]]
             g == [i \in 0..1 |-> IF i = 0 THEN 0 ELSE n]
             len == CHOOSE f : Is(f)
  <2>4. Is(g)
    <3>1. g[0] = 0 /\ g[1] = n
      OBVIOUS
    <3>2. 256 * g[0] + b[p + 1] = n
      BY ONLY <1>1, <2>2, <3>1
    <3>3. ASSUME NEW i \in 0..1 PROVE g[i] = IF i = 0 THEN 0 ELSE 256 * g[i - 1] + b[p + i]
      <4>1. CASE i = 0
        BY ONLY <3>1, <4>1
      <4>2. CASE i = 1
        <5>1. i - 1 = 0 /\ p + i = p + 1 /\ i # 0
          BY ONLY <4>2
        <5> QED BY ONLY <3>1, <3>2, <4>2, <5>1
      <4> QED BY ONLY <4>1, <4>2, i \in 0..1
    <3>4. g = [i \in 0..1 |-> g[i]]
      OBVIOUS
    <3> HIDE DEF g
    <3> QED BY ONLY <3>3, <3>4
  <2>5. Is(len)
    <3> HIDE DEF g, Is
    <3> QED BY <2>4
  <2>6. len[1] = n
    <3> HIDE DEF len
    <3>1. len[0] = 0 /\ len[1] = 256 * len[0] + b[p + 1]
      BY <2>5
    <3> QED BY ONLY <1>1, <2>2, <3>1
  <2>7. len = Horner(1)
    BY DEF Horner
  <2> HIDE DEF len
  <2> QED BY ONLY <1>3, <2>1, <2>2, <2>3, <2>6, <2>7 DEF l, L
<1>7. CASE n >= 256
  <2>1. L = 3 /\ l[1] = 130 /\ l[2] = HighByte(n) /\ l[3] = LowByte(n)
    BY ONLY <1>4, <1>7 DEF L
  <2>2. b[p] = 130 /\ b[p + 1] = HighByte(n) /\ b[p + 2] = LowByte(n)
    <3>1. 1 \in 1..L /\ p + 1 - 1 = p /\ 2 \in 1..L /\ p + 2 - 1 = p + 1 /\ 3 \in 1..L /\ p + 3 - 1 = p + 2
      BY ONLY <1>1, <2>1
    <3> QED BY ONLY <1>2, <2>1, <3>1
  <2>3. p # 0 /\ ~(p >= end) /\ ~(130 < 128) /\ 130 - 128 = 2 /\ p + 1 + 2 = p + L /\ ~(p + 1 + 2 >= end)
    BY ONLY <1>1, <1>7, <2>1, end \in Nat
  <2> DEFINE Is(f) == f = [i \in 0..2 |-> IF i = 0 THEN 0 ELSE 256 * f[i - 1] + b[p + i]]
             g == [i \in 0..2 |-> IF i = 0 THEN 0 ELSE IF i = 1 THEN HighByte(n) ELSE n]
             len == CHOOSE f : Is(f)
  <2>4. Is(g)
    <3>1. g[0] = 0 /\ g[1] = HighByte(n) /\ g[2] = n
      OBVIOUS
    <3>2. 256 * g[0] + b[p + 1] = HighByte(n) /\ 256 * g[1] + b[p + 2] = n
      BY ONLY <1>1, <1>4, <2>2, <3>1
    <3>3. ASSUME NEW i \in 0..2 PROVE g[i] = IF i = 0 THEN 0 ELSE 256 * g[i - 1] + b[p + i]
      <4>1. CASE i = 0
        BY ONLY <3>1, <4>1
      <4>2. CASE i = 1
        <5>1. i - 1 = 0 /\ p + i = p + 1 /\ i # 0
          BY ONLY <4>2
        <5> QED BY ONLY <3>1, <3>2, <4>2, <5>1
      <4>3. CASE i = 2
        <5>1. i - 1 = 1 /\ p + i = p + 2 /\ i # 0
          BY ONLY <4>3
        <5> QED BY ONLY <3>1, <3>2, <4>3, <5>1
      <4> QED BY ONLY <4>1, <4>2, <4>3, i \in 0..2
    <3>4. g = [i \in 0..2 |-> g[i]]
      OBVIOUS
    <3> HIDE DEF g
    <3> QED BY ONLY <3>3, <3>4
  <2>5. Is(len)
    <3> HIDE DEF g, Is
    <3> QED BY <2>4
  <2>6. len[2] = n
    <3> HIDE DEF len
    <3>1. len[0] = 0 /\ len[1] = 256 * len[0] + b[p + 1] /\ len[2] = 256 * len[1] + b[p + 2]
      BY <2>5
    <3> QED BY ONLY <1>1, <1>4, <2>2, <3>1
  <2>7. len = Horner(2)
    BY DEF Horner
  <2> HIDE DEF len
  <2> QED BY ONLY <1>3, <2>1, <2>2, <2>3, <2>6, <2>7 DEF l, L
<1> QED BY ONLY <1>1, <1>5, <1>6, <1>7

(* der_decode_tl finds an element that is there.                             *)
LEMMA DecodeTlRight ==
  ASSUME NEW b \in Seq(Bytes), NEW p, NEW tag \in Bytes, NEW s \in Seq(Bytes), Short(Len(s)),
         LiesAt(b, p, Tlv(tag, s)), NEW end \in Nat, p + Len(Tlv(tag, s)) <= end
  PROVE  /\ De!der_decode_tl(tag, b, p, end) = De!Result(p + Len(Tlv(tag, s)) - Len(s), Len(s))
         /\ LiesAt(b, p + Len(Tlv(tag, s)) - Len(s), s)
<1> DEFINE n == Len(s)
           l == LengthBytes(n)
           L == Len(l)
           t == <<tag>>
           T == Len(Tlv(tag, s))
<1>1. n \in Nat /\ p \in Nat \ {0} /\ Short(n)
  BY DEF LiesAt
<1>2. l \in Seq(Bytes) /\ L \in 1..3
  BY <1>1, LengthBytesType
<1>3. T = 1 + L + n
  BY TlvType
<1>4. t \in Seq(Bytes) /\ Len(t) = 1 /\ t[1] = tag
  BY ONLY tag \in Bytes
<1>5. LiesAt(b, p, t \o l \o s)
  BY DEF Tlv
<1> HIDE DEF l, L, t, T
<1>6. t \o l \in Seq(Bytes) /\ Len(t \o l) = 1 + L
  <2>1. t \o l \in Seq(Bytes) /\ Len(t \o l) = Len(t) + Len(l)
    BY ONLY <1>2, <1>4, ConcatProperties
  <2> QED BY ONLY <1>4, <2>1 DEF L
<1>7. LiesAt(b, p, t \o l) /\ LiesAt(b, p + (1 + L), s)
  BY ONLY <1>5, <1>6, AtBoth, b \in Seq(Bytes), s \in Seq(Bytes)
<1>8. LiesAt(b, p, t) /\ LiesAt(b, p + 1, l)
  BY ONLY <1>2, <1>4, <1>7, AtBoth, b \in Seq(Bytes)
<1>9. b[p] = tag
  <2>1. 1 \in 1..Len(t) /\ p + 1 - 1 = p
    BY ONLY <1>1, <1>4
  <2> QED BY ONLY <1>4, <1>8, <2>1 DEF LiesAt
<1>10. p + T <= end
  BY DEF T
<1>11. De!der_decode_len(b, p + 1, end) = De!Result(p + 1 + L, n)
  <2>1. p + 1 + L <= end /\ (n >= De!LongForm => p + 1 + L < end) /\ p + 1 \in Nat \ {0}
    BY ONLY <1>1, <1>2, <1>3, <1>10, end \in Nat DEF De!LongForm
  <2>2. \A i \in 1..L : b[p + 1 + i - 1] = l[i]
    BY ONLY <1>8 DEF LiesAt, L
  <2> HIDE DEF n
  <2> QED BY ONLY <1>1, <2>1, <2>2, DecodeLenRight, end \in Nat DEF l, L
<1>12. p # 0 /\ ~(p >= end) /\ ~(p + 1 + L + n > end)
  BY ONLY <1>1, <1>2, <1>3, <1>10, end \in Nat
<1>13. p + T - n = p + 1 + L /\ p + (1 + L) = p + 1 + L
  BY ONLY <1>1, <1>2, <1>3
<1> HIDE DEF n
<1>14. De!der_decode_tl(tag, b, p, end) = De!Result(p + 1 + L, n)
  BY ONLY <1>9, <1>11, <1>12 DEF De!der_decode_tl, De!Null, De!Result
<1> QED BY ONLY <1>7, <1>13, <1>14 DEF n, T

(* It finds nothing where there is another tag, or nothing.                  *)
LEMMA DecodeTlOther ==
  ASSUME NEW b, NEW tag, NEW p \in Nat, NEW end \in Nat, p = 0 \/ p >= end \/ b[p] # tag
  PROVE  De!der_decode_tl(tag, b, p, end) = De!Result(0, -1)
BY DEF De!der_decode_tl, De!Null, De!Unset

(* What is there is what is copied from there.                               *)
LEMMA AtSubSeq ==
  ASSUME NEW b \in Seq(Bytes), NEW p, NEW s \in Seq(Bytes), LiesAt(b, p, s)
  PROVE  SubSeq(b, p, p + Len(s) - 1) = s
<1> DEFINE n == Len(s)
           t == SubSeq(b, p, p + n - 1)
<1>1. n \in Nat /\ p \in Nat \ {0} /\ p + n <= Len(b) + 1 /\ Len(b) \in Nat
  BY DEF LiesAt
<1>2. t \in Seq(Bytes) /\ Len(t) = n /\ \A i \in 1..n : t[i] = b[p + i - 1]
  <2> HIDE DEF n
  <2>1. \A x \in p..(p + n - 1) : x \in 1..Len(b)
    BY <1>1
  <2>2. Len(t) = IF p <= p + n - 1 THEN (p + n - 1) - p + 1 ELSE 0
    BY <1>1, <2>1, SubSeqProperties
  <2>3. t \in Seq(Bytes) /\ \A i \in 1..((p + n - 1) - p + 1) : t[i] = b[p + i - 1]
    BY <1>1, <2>1, SubSeqProperties
  <2> HIDE DEF t
  <2> QED BY ONLY <1>1, <2>2, <2>3
<1>3. \A i \in 1..n : t[i] = s[i]
  BY ONLY <1>2, LiesAt(b, p, s) DEF LiesAt
<1> HIDE DEF t
<1>4. t \in Seq(Bytes) /\ Len(t) = Len(s) /\ \A i \in 1..Len(t) : t[i] = s[i]
  BY ONLY <1>2, <1>3
<1>5. t = s
  BY ONLY <1>4, SeqEqual, s \in Seq(Bytes)
<1> QED BY ONLY <1>5 DEF t

\* The field f is in b from p to q, and what is behind it up to end is another.
Laid(b, p, q, end, tag, f) ==
  /\ p \in Nat \ {0} /\ q = p + Len(FieldBytes(tag, f)) /\ q <= end
  /\ LiesAt(b, p, FieldBytes(tag, f))
  /\ IF Present(f) THEN f[1] \in Seq(Bytes) /\ Short(Len(f[1])) ELSE p >= end \/ b[p] # tag

(* der_decode_tl finds a field that is there, and no other.                  *)
LEMMA FieldFound ==
  ASSUME NEW b \in Seq(Bytes), NEW p, NEW q, NEW end \in Nat, NEW tag \in Bytes, NEW f,
         Laid(b, p, q, end, tag, f)
  PROVE  /\ Present(f) => /\ De!der_decode_tl(tag, b, p, end) = De!Result(q - Len(f[1]), Len(f[1]))
                          /\ LiesAt(b, q - Len(f[1]), f[1])
                          /\ q - Len(f[1]) \in Nat \ {0} /\ q \in Nat \ {0} /\ Len(f[1]) \in Nat
         /\ ~Present(f) => De!der_decode_tl(tag, b, p, end) = De!Result(0, -1)
<1>1. p \in Nat \ {0} /\ q = p + Len(FieldBytes(tag, f)) /\ q <= end /\ LiesAt(b, p, FieldBytes(tag, f))
  BY DEF Laid
<1>2. CASE Present(f)
  <2> DEFINE s == f[1]
             n == Len(s)
  <2>1. s \in Seq(Bytes) /\ Short(n) /\ FieldBytes(tag, f) = Tlv(tag, s)
    BY <1>2 DEF Laid, FieldBytes
  <2> HIDE DEF s
  <2>2. Len(Tlv(tag, s)) = 1 + Len(LengthBytes(n)) + n
    BY ONLY <2>1, TlvType, tag \in Bytes
  <2>3. Len(LengthBytes(n)) \in 1..3
    BY ONLY <2>1, LengthBytesType
  <2>4. n \in Nat
    BY ONLY <2>1 DEF Short
  <2> DEFINE o == p + Len(Tlv(tag, s)) - Len(s)
  <2>5. /\ De!der_decode_tl(tag, b, p, end) = De!Result(o, n)
        /\ LiesAt(b, o, s)
    <3>1. LiesAt(b, p, Tlv(tag, s)) /\ p + Len(Tlv(tag, s)) <= end
      BY ONLY <1>1, <2>1
    <3> QED BY ONLY <2>1, <3>1, DecodeTlRight, b \in Seq(Bytes), tag \in Bytes, end \in Nat
  <2>6. o = q - n /\ q - n \in Nat \ {0} /\ q \in Nat \ {0}
    <3> DEFINE T == Len(Tlv(tag, s))
               L == Len(LengthBytes(n))
    <3>1. T = 1 + L + n /\ L \in 1..3 /\ n \in Nat /\ q = p + T
      BY ONLY <1>1, <2>1, <2>2, <2>3, <2>4
    <3> HIDE DEF T, L, n
    <3>2. p + T - n = q - n /\ q - n \in Nat \ {0} /\ q \in Nat \ {0}
      BY ONLY <1>1, <3>1
    <3> QED BY ONLY <3>2 DEF T, n
  <2> HIDE DEF o
  <2> QED BY ONLY <1>2, <2>4, <2>5, <2>6 DEF s
<1>3. CASE ~Present(f)
  <2>1. p >= end \/ b[p] # tag
    BY <1>3 DEF Laid
  <2> QED BY ONLY <1>1, <1>3, <2>1, DecodeTlOther, end \in Nat
<1> QED BY ONLY <1>2, <1>3

(* der_decode_octet_string_copy copies a field of the right length.          *)
LEMMA OctetsFound ==
  ASSUME NEW b \in Seq(Bytes), NEW p, NEW q, NEW end \in Nat, NEW tag \in Bytes, NEW f,
         Laid(b, p, q, end, tag, f), NEW len \in Nat
  PROVE  /\ Has(f, len) => De!der_decode_octet_string_copy(tag, len, b, p, end) = De!Result(q, f[1])
         /\ ~Has(f, len) => De!der_decode_octet_string_copy(tag, len, b, p, end) = De!Result(0, <<>>)
         /\ Has(f, len) => q # 0
<1> DEFINE r == De!der_decode_tl(tag, b, p, end)
<1>1. De!der_decode_octet_string_copy(tag, len, b, p, end) =
        IF r.der = 0 \/ ~(r.val = len) THEN De!Result(0, <<>>)
        ELSE De!Result(r.der + r.val, SubSeq(b, r.der, r.der + len - 1))
  BY DEF De!der_decode_octet_string_copy, De!SameLen, De!Null
<1> HIDE DEF r
<1>2. CASE Present(f)
  <2> DEFINE s == f[1]
             n == Len(s)
  <2>1. /\ r = De!Result(q - n, n) /\ LiesAt(b, q - n, s)
        /\ q - n \in Nat \ {0} /\ q \in Nat \ {0} /\ n \in Nat
    BY <1>2, FieldFound DEF r
  <2>2. s \in Seq(Bytes)
    BY <1>2 DEF Laid
  <2> HIDE DEF s
  <2>3. SubSeq(b, q - n, (q - n) + n - 1) = s
    BY ONLY <2>1, <2>2, AtSubSeq, b \in Seq(Bytes)
  <2>4. r.der = q - n /\ r.val = n /\ r.der # 0 /\ r.der + r.val = q
    <3> HIDE DEF n
    <3> QED BY ONLY <2>1 DEF De!Result
  <2>5. Has(f, len) <=> n = len
    BY <1>2 DEF Has, s
  <2> QED BY ONLY <1>1, <2>1, <2>3, <2>4, <2>5 DEF s
<1>3. CASE ~Present(f)
  <2>1. r = De!Result(0, -1)
    BY <1>3, FieldFound DEF r
  <2>2. r.der = 0
    BY ONLY <2>1 DEF De!Result
  <2>3. ~Has(f, len)
    BY ONLY <1>3 DEF Has
  <2> QED BY ONLY <1>1, <2>2, <2>3
<1> QED BY ONLY <1>2, <1>3

\* The number that der_decode_uint64 makes of n bytes.
Horner(b, o, n) == (CHOOSE v : v = [i \in 0..n |-> IF i = 0 THEN 0 ELSE 256 * v[i - 1] + b[o + i - 1]])[n]

(* der_decode_uint64 reads a number of up to eight bytes.                    *)
LEMMA NumberFound ==
  ASSUME NEW b \in Seq(Bytes), NEW p, NEW q, NEW end \in Nat, NEW tag \in Bytes, NEW f,
         Laid(b, p, q, end, tag, f)
  PROVE  /\ HasUpTo(f, 8) =>
              De!der_decode_uint64(tag, b, p, end) = De!Result(q, Horner(b, q - Len(f[1]), Len(f[1])))
         /\ ~HasUpTo(f, 8) => De!der_decode_uint64(tag, b, p, end) = De!Result(0, 0)
         /\ HasUpTo(f, 8) => q # 0
<1> DEFINE r == De!der_decode_tl(tag, b, p, end)
<1>1. De!der_decode_uint64(tag, b, p, end) =
        IF r.der = 0 \/ r.val > 8 THEN De!Result(0, 0) ELSE De!Result(r.der + r.val, Horner(b, r.der, r.val))
  BY DEF De!der_decode_uint64, De!Null, Horner
<1> HIDE DEF r
<1>2. CASE Present(f)
  <2> DEFINE s == f[1]
             n == Len(s)
  <2>1. /\ r = De!Result(q - n, n)
        /\ q - n \in Nat \ {0} /\ q \in Nat \ {0} /\ n \in Nat
    BY <1>2, FieldFound DEF r
  <2> HIDE DEF n
  <2>2. r.der = q - n /\ r.val = n /\ r.der # 0 /\ r.der + r.val = q
    BY ONLY <2>1 DEF De!Result
  <2>3. HasUpTo(f, 8) <=> ~(n > 8)
    <3>1. HasUpTo(f, 8) <=> n <= 8
      BY <1>2 DEF HasUpTo, n
    <3> QED BY ONLY <3>1, <2>1
  <2>4. HasUpTo(f, 8) => De!der_decode_uint64(tag, b, p, end) = De!Result(q, Horner(b, q - n, n))
    BY ONLY <1>1, <2>2, <2>3
  <2>5. ~HasUpTo(f, 8) => De!der_decode_uint64(tag, b, p, end) = De!Result(0, 0)
    BY ONLY <1>1, <2>2, <2>3
  <2> QED BY ONLY <2>1, <2>4, <2>5 DEF n
<1>3. CASE ~Present(f)
  <2>1. r = De!Result(0, -1)
    BY <1>3, FieldFound DEF r
  <2>2. r.der = 0
    BY ONLY <2>1 DEF De!Result
  <2>3. ~HasUpTo(f, 8)
    BY ONLY <1>3 DEF HasUpTo
  <2> QED BY ONLY <1>1, <2>2, <2>3
<1> QED BY ONLY <1>2, <1>3

(* The quotients of a number.                                                *)
LEMMA QuotientsAre ==
  ASSUME NEW n \in Nat, NEW w \in Nat
  PROVE  /\ Quotients(n, w) \in [0..w -> Nat] /\ Quotients(n, w)[0] = n
         /\ \A i \in 1..w : Quotients(n, w)[i] = HighByte(Quotients(n, w)[i - 1])
<1> DEFINE Is(q) == q = [i \in 0..w |-> IF i = 0 THEN n ELSE HighByte(q[i - 1])]
           D == [x \in Nat \X (1..w) |-> HighByte(x[1])]
<1>1. D \in [Nat \X (1..w) -> Nat]
  BY DEF HighByte
<1>2. PICK q : IsRecursion(q, Nat, n, w, D)
  <2> HIDE DEF D
  <2> QED BY ONLY <1>1, Recursion, n \in Nat, w \in Nat
<1>3. q \in [0..w -> Nat] /\ q[0] = n /\ \A i \in 1..w : q[i] = HighByte(q[i - 1])
  <2>1. q \in [0..w -> Nat] /\ q[0] = n /\ \A i \in 1..w : q[i] = D[<<q[i - 1], i>>]
    BY ONLY <1>2 DEF IsRecursion
  <2>2. ASSUME NEW i \in 1..w PROVE q[i] = HighByte(q[i - 1])
    <3>1. i - 1 \in 0..w
      OBVIOUS
    <3>2. q[i - 1] \in Nat
      BY <2>1, <3>1
    <3>3. <<q[i - 1], i>> \in Nat \X (1..w)
      BY <3>2
    <3>4. D[<<q[i - 1], i>>] = HighByte(q[i - 1])
      BY <3>3
    <3> QED BY <2>1, <3>4
  <2> QED BY <2>1, <2>2
<1> HIDE DEF D
<1>4. Is(q)
  <2>1. ASSUME NEW i \in 0..w PROVE q[i] = IF i = 0 THEN n ELSE HighByte(q[i - 1])
    <3>1. i = 0 \/ i \in 1..w
      OBVIOUS
    <3> QED BY ONLY <1>3, <3>1
  <2>2. q = [i \in 0..w |-> q[i]]
    BY ONLY <1>3
  <2> QED BY ONLY <2>1, <2>2
<1> DEFINE r == CHOOSE x : Is(x)
<1>5. Is(r)
  BY <1>4
<1>6. Quotients(n, w) = r
  BY DEF Quotients
<1> HIDE DEF r
<1>7. r[0] = n /\ \A i \in 1..w : r[i] = HighByte(r[i - 1])
  BY <1>5
<1>8. r \in [0..w -> Nat]
  <2> DEFINE S == {i \in 0..w : r[i] \in Nat}
  <2>1. 0 \in S
    BY <1>7
  <2>2. ASSUME NEW i \in 1..w, i - 1 \in S PROVE i \in S
    <3>1. r[i - 1] \in Nat /\ r[i] = HighByte(r[i - 1])
      BY <1>7, <2>2
    <3> QED BY <3>1 DEF HighByte
  <2>3. \A i \in 0..w : i \in S
    <3> HIDE DEF S
    <3> QED BY <2>1, <2>2, UpToInduction
  <2> QED BY <1>5, <2>3
<1> QED BY <1>6, <1>7, <1>8

(* The digits of a number are bytes.                                         *)
LEMMA BigEndianType ==
  ASSUME NEW n \in Nat, NEW w \in Nat
  PROVE  BigEndian(n, w) \in Seq(Bytes) /\ Len(BigEndian(n, w)) = w
<1> DEFINE q == Quotients(n, w)
<1>1. q \in [0..w -> Nat]
  BY QuotientsAre
<1>2. BigEndian(n, w) = [j \in 1..w |-> LowByte(q[w - j])]
  BY DEF BigEndian
<1> HIDE DEF q
<1>3. ASSUME NEW j \in 1..w PROVE LowByte(q[w - j]) \in Bytes
  <2>1. w - j \in 0..w
    OBVIOUS
  <2>2. q[w - j] \in Nat
    BY <1>1, <2>1
  <2> QED BY <2>2 DEF LowByte, Bytes
<1> QED BY <1>2, <1>3

(* A number is read from its digits.                                         *)
LEMMA NumberRead ==
  ASSUME NEW n \in Nat, NEW w \in Nat, Quotients(n, w)[w] = 0,
         NEW b, NEW o \in Nat, \A i \in 1..w : b[o + i - 1] = BigEndian(n, w)[i]
  PROVE  Horner(b, o, w) = n
<1> DEFINE Is(v) == v = [i \in 0..w |-> IF i = 0 THEN 0 ELSE 256 * v[i - 1] + b[o + i - 1]]
           q == Quotients(n, w)
           g == [i \in 0..w |-> q[w - i]]
           r == CHOOSE v : Is(v)
<1>1. q \in [0..w -> Nat] /\ q[0] = n /\ q[w] = 0 /\ \A i \in 1..w : q[i] = HighByte(q[i - 1])
  BY QuotientsAre
<1>2. \A i \in 1..w : b[o + i - 1] = LowByte(q[w - i])
  BY DEF BigEndian
<1> HIDE DEF q
<1>3. g[0] = 0 /\ g[w] = n
  BY <1>1
<1>4. ASSUME NEW i \in 1..w PROVE g[i] = 256 * g[i - 1] + b[o + i - 1]
  <2> DEFINE x == q[w - i]
  <2>1. w - i \in 0..w /\ w - (i - 1) \in 1..w /\ (w - (i - 1)) - 1 = w - i /\ i - 1 \in 0..w
    OBVIOUS
  <2>2. x \in Nat /\ g[i] = x /\ g[i - 1] = q[w - (i - 1)]
    BY <1>1, <2>1
  <2>3. g[i - 1] = HighByte(x)
    BY <1>1, <2>1, <2>2
  <2>4. b[o + i - 1] = LowByte(x)
    BY <1>2
  <2>5. x = 256 * HighByte(x) + LowByte(x)
    BY <2>2 DEF HighByte, LowByte
  <2> HIDE DEF x, g
  <2> QED BY ONLY <2>2, <2>3, <2>4, <2>5
<1>5. Is(g)
  <2>1. g = [i \in 0..w |-> g[i]]
    OBVIOUS
  <2> HIDE DEF g
  <2>2. \A i \in 0..w : i = 0 \/ i \in 1..w
    OBVIOUS
  <2>3. ASSUME NEW i \in 0..w PROVE g[i] = IF i = 0 THEN 0 ELSE 256 * g[i - 1] + b[o + i - 1]
    BY ONLY <1>3, <1>4, <2>2, i \in 0..w
  <2> QED BY ONLY <2>1, <2>3
<1>6. Is(r)
  <2> HIDE DEF Is, g
  <2> QED BY ONLY <1>5
<1> HIDE DEF r, g
<1>7. r[0] = 0 /\ \A i \in 1..w : r[i] = 256 * r[i - 1] + b[o + i - 1]
  <2>1. \A i \in 0..w : r[i] = IF i = 0 THEN 0 ELSE 256 * r[i - 1] + b[o + i - 1]
    BY ONLY <1>6
  <2>2. 0 \in 0..w /\ \A i \in 1..w : i \in 0..w /\ i # 0
    OBVIOUS
  <2> QED BY ONLY <2>1, <2>2
<1> DEFINE S == {i \in 0..w : r[i] = g[i]}
<1>8. 0 \in S
  BY <1>3, <1>7
<1>9. ASSUME NEW i \in 1..w, i - 1 \in S PROVE i \in S
  BY <1>4, <1>7, <1>9
<1>10. \A i \in 0..w : i \in S
  <2> HIDE DEF S
  <2> QED BY <1>8, <1>9, UpToInduction
<1>11. w \in 0..w
  OBVIOUS
<1>12. r[w] = n
  BY <1>3, <1>10, <1>11
<1> QED BY ONLY <1>12 DEF r, Horner

\* What is in b at place p, if anything, is a tag above the given one.
Above(b, p, end, tag) == p >= end \/ (b[p] \in Nat /\ b[p] > tag)

(* A field in its bytes.                                                     *)
LEMMA FieldBytesType ==
  ASSUME NEW tag \in Bytes, NEW f \in Field(Strings)
  PROVE  /\ FieldBytes(tag, f) \in Seq(Bytes)
         /\ Present(f) => /\ f[1] \in Seq(Bytes) /\ Short(Len(f[1]))
                          /\ FieldBytes(tag, f)[1] = tag /\ Len(FieldBytes(tag, f)) \in Nat \ {0}
         /\ ~Present(f) => FieldBytes(tag, f) = <<>>
<1>1. CASE Present(f)
  <2>1. f \in Seq(Strings) /\ f # <<>>
    BY <1>1 DEF Field, Present
  <2>2. f[1] \in Strings
    BY <2>1
  <2> DEFINE s == f[1]
  <2>3. s \in Seq(Bytes) /\ Short(Len(s)) /\ FieldBytes(tag, f) = Tlv(tag, s)
    BY <1>1, <2>2 DEF Strings, FieldBytes
  <2> HIDE DEF s
  <2>4. /\ Tlv(tag, s) \in Seq(Bytes) /\ Tlv(tag, s)[1] = tag
        /\ Len(Tlv(tag, s)) = 1 + Len(LengthBytes(Len(s))) + Len(s)
    BY ONLY <2>3, TlvType, tag \in Bytes
  <2>5. Len(LengthBytes(Len(s))) \in 1..3 /\ Len(s) \in Nat
    BY ONLY <2>3, LengthBytesType DEF Short
  <2>6. Len(Tlv(tag, s)) \in Nat \ {0}
    BY ONLY <2>4, <2>5
  <2> QED BY ONLY <1>1, <2>3, <2>4, <2>6 DEF s
<1>2. CASE ~Present(f)
  BY <1>2 DEF FieldBytes
<1> QED BY <1>1, <1>2

(* A field that is followed by a higher tag, or by nothing, is laid out, and  *)
(* what is before it is followed by a higher tag.                            *)
LEMMA FieldLaid ==
  ASSUME NEW b \in Seq(Bytes), NEW p, NEW q, NEW end \in Nat, NEW tag \in Bytes, NEW f \in Field(Strings),
         LiesAt(b, p, FieldBytes(tag, f)), q = p + Len(FieldBytes(tag, f)), q <= end, Above(b, q, end, tag)
  PROVE  /\ Laid(b, p, q, end, tag, f)
         /\ \A t \in Bytes : t < tag => Above(b, p, end, t)
<1>1. p \in Nat \ {0} /\ tag \in Nat
  BY DEF LiesAt, Bytes
<1>2. CASE Present(f)
  <2> DEFINE s == FieldBytes(tag, f)
  <2>1. f[1] \in Seq(Bytes) /\ Short(Len(f[1])) /\ s[1] = tag /\ Len(s) \in Nat \ {0}
    BY <1>2, FieldBytesType
  <2>2. 1 \in 1..Len(s) /\ p + 1 - 1 = p
    BY ONLY <1>1, <2>1
  <2>3. LiesAt(b, p, s) /\ q = p + Len(s) /\ q <= end /\ s = FieldBytes(tag, f)
    OBVIOUS
  <2> HIDE DEF s
  <2>4. b[p] = tag
    BY ONLY <2>1, <2>2, <2>3 DEF LiesAt
  <2>5. Laid(b, p, q, end, tag, f)
    BY ONLY <1>1, <1>2, <2>1, <2>3 DEF Laid
  <2>6. ASSUME NEW t \in Bytes, t < tag PROVE Above(b, p, end, t)
    <3>1. b[p] > t
      BY ONLY <1>1, <2>4, <2>6 DEF Bytes
    <3> QED BY ONLY <1>1, <2>4, <3>1 DEF Above
  <2> QED BY ONLY <2>5, <2>6, Zenon
<1>3. CASE ~Present(f)
  <2>1. FieldBytes(tag, f) = <<>>
    BY <1>3, FieldBytesType
  <2>2. q = p
    BY <1>1, <2>1
  <2>3. p >= end \/ (b[p] \in Nat /\ b[p] > tag)
    BY ONLY <2>2, Above(b, q, end, tag) DEF Above
  <2>4. Laid(b, p, q, end, tag, f)
    <3>1. b[p] \in Nat /\ b[p] > tag => b[p] # tag
      BY ONLY <1>1
    <3>2. /\ LiesAt(b, p, FieldBytes(tag, f)) /\ q = p + Len(FieldBytes(tag, f)) /\ q <= end
      OBVIOUS
    <3> QED BY ONLY <1>1, <1>3, <2>3, <3>1, <3>2 DEF Laid
  <2>5. ASSUME NEW t \in Bytes, t < tag PROVE Above(b, p, end, t)
    <3>1. t \in Nat
      BY ONLY t \in Bytes DEF Bytes
    <3>2. b[p] \in Nat /\ b[p] > tag => b[p] > t
      BY ONLY <1>1, <2>5, <3>1
    <3> QED BY ONLY <2>3, <3>2 DEF Above
  <2> QED BY ONLY <2>4, <2>5, Zenon
<1> QED BY ONLY <1>2, <1>3

\* The digits of a number are a field like the others.
LEMMA DigitsType ==
  ASSUME NEW f \in Field(Numbers)
  PROVE  /\ Digits(f) \in Field(Strings)
         /\ Present(Digits(f)) <=> Present(f)
         /\ Present(f) => /\ f[1][1] \in Nat /\ f[1][2] \in Nat
                          /\ Digits(f)[1] = BigEndian(f[1][1], f[1][2])
                          /\ Len(Digits(f)[1]) = f[1][2]
                          /\ Quotients(f[1][1], f[1][2])[f[1][2]] = 0
<1>1. CASE Present(f)
  <2>1. f \in Seq(Numbers) /\ f # <<>>
    BY <1>1 DEF Field, Present
  <2>2. f[1] \in Numbers
    BY <2>1
  <2>3. f[1][1] \in Nat /\ f[1][2] \in 0..127 /\ Quotients(f[1][1], f[1][2])[f[1][2]] = 0
    BY <2>2 DEF Numbers
  <2> DEFINE s == BigEndian(f[1][1], f[1][2])
  <2>4. s \in Seq(Bytes) /\ Len(s) = f[1][2]
    <3>1. f[1][1] \in Nat /\ f[1][2] \in Nat
      BY ONLY <2>3
    <3> QED BY ONLY <3>1, BigEndianType
  <2>5. Digits(f) = <<s>>
    BY ONLY <1>1, Zenon DEF Digits
  <2> HIDE DEF s
  <2>6. Short(Len(s))
    <3>1. Len(s) \in 0..127
      BY ONLY <2>3, <2>4
    <3> HIDE DEF Short
    <3>2. \A m \in 0..127 : Short(m)
      BY ONLY DEF Short, HighByte, Bytes
    <3> QED BY ONLY <3>1, <3>2
  <2>7. s \in Strings
    BY ONLY <2>4, <2>6 DEF Strings
  <2>8. <<s>> \in Seq(Strings) /\ Len(<<s>>) = 1 /\ <<s>> # <<>> /\ <<s>>[1] = s
    BY ONLY <2>7
  <2>9. Digits(f) \in Field(Strings) /\ Present(Digits(f)) /\ Digits(f)[1] = s
    BY ONLY <2>5, <2>8 DEF Field, Present
  <2> QED BY ONLY <1>1, <2>3, <2>4, <2>9 DEF s
<1>2. CASE ~Present(f)
  <2>1. Digits(f) = <<>>
    BY <1>2 DEF Digits
  <2>2. <<>> \in Field(Strings)
    BY DEF Field
  <2> QED BY <1>2, <2>1, <2>2 DEF Present
<1> QED BY <1>1, <1>2

(* The bytes of nested fields.                                               *)
LEMMA NestedType ==
  ASSUME NEW c \in Contents
  PROVE  NestedFields(c) \in Seq(Bytes)
<1>1. /\ c.number \in Field(Strings) /\ c.uuid \in Field(Strings) /\ c.info \in Field(Strings)
      /\ c.wrapped \in Field(Strings) /\ c.iterations \in Field(Numbers) /\ c.salt \in Field(Strings)
  BY DEF Contents
<1>2. Digits(c.iterations) \in Field(Strings)
  BY <1>1, DigitsType
<1>3. 128 \in Bytes /\ 129 \in Bytes /\ 130 \in Bytes /\ 131 \in Bytes /\ 132 \in Bytes /\ 133 \in Bytes
  BY ONLY DEF Bytes
<1>4. /\ FieldBytes(128, c.number) \in Seq(Bytes) /\ FieldBytes(129, c.uuid) \in Seq(Bytes)
      /\ FieldBytes(130, c.info) \in Seq(Bytes) /\ FieldBytes(131, c.wrapped) \in Seq(Bytes)
      /\ FieldBytes(132, Digits(c.iterations)) \in Seq(Bytes) /\ FieldBytes(133, c.salt) \in Seq(Bytes)
  BY ONLY ZenonT(30), <1>1, <1>2, <1>3, FieldBytesType
<1> HIDE DEF Bytes
<1> QED BY ONLY <1>4 DEF NestedFields

(* The fields of a key are laid out one behind the other.                    *)
LEMMA NestedLaid ==
  ASSUME NEW b \in Seq(Bytes), NEW c \in Contents, NEW p, LiesAt(b, p, NestedFields(c))
  PROVE  \E p2, p3, p4, p5, p6, end \in Nat :
           /\ end = p + Len(NestedFields(c))
           /\ Laid(b, p, p2, end, 128, c.number) /\ Laid(b, p2, p3, end, 129, c.uuid)
           /\ Laid(b, p3, p4, end, 130, c.info) /\ Laid(b, p4, p5, end, 131, c.wrapped)
           /\ Laid(b, p5, p6, end, 132, Digits(c.iterations)) /\ Laid(b, p6, end, end, 133, c.salt)
<1> DEFINE s1 == FieldBytes(128, c.number)
           s2 == FieldBytes(129, c.uuid)
           s3 == FieldBytes(130, c.info)
           s4 == FieldBytes(131, c.wrapped)
           s5 == FieldBytes(132, Digits(c.iterations))
           s6 == FieldBytes(133, c.salt)
           e == Len(NestedFields(c))
<1>1. /\ c.number \in Field(Strings) /\ c.uuid \in Field(Strings) /\ c.info \in Field(Strings)
      /\ c.wrapped \in Field(Strings) /\ c.iterations \in Field(Numbers) /\ c.salt \in Field(Strings)
  BY DEF Contents
<1>2. Digits(c.iterations) \in Field(Strings)
  BY <1>1, DigitsType
<1>3. 128 \in Bytes /\ 129 \in Bytes /\ 130 \in Bytes /\ 131 \in Bytes /\ 132 \in Bytes /\ 133 \in Bytes
  BY ONLY DEF Bytes
<1>4. /\ s1 \in Seq(Bytes) /\ s2 \in Seq(Bytes) /\ s3 \in Seq(Bytes)
      /\ s4 \in Seq(Bytes) /\ s5 \in Seq(Bytes) /\ s6 \in Seq(Bytes)
  BY ONLY ZenonT(30), <1>1, <1>2, <1>3, FieldBytesType
<1>5. LiesAt(b, p, s1 \o s2 \o s3 \o s4 \o s5 \o s6) /\ e = Len(s1 \o s2 \o s3 \o s4 \o s5 \o s6)
  BY DEF NestedFields
<1> HIDE DEF s1, s2, s3, s4, s5, s6, e
<1> DEFINE t2 == s1 \o s2
           t3 == t2 \o s3
           t4 == t3 \o s4
           t5 == t4 \o s5
           t6 == t5 \o s6
<1>6. /\ t2 \in Seq(Bytes) /\ Len(t2) = Len(s1) + Len(s2)
  BY ONLY <1>4, ConcatProperties
<1>61. LiesAt(b, p, t6) /\ e = Len(t6)
  BY ONLY <1>5
<1> HIDE DEF t2
<1>7. t3 \in Seq(Bytes) /\ Len(t3) = Len(t2) + Len(s3)
  BY ONLY <1>4, <1>6, ConcatProperties
<1> HIDE DEF t3
<1>8. t4 \in Seq(Bytes) /\ Len(t4) = Len(t3) + Len(s4)
  BY ONLY <1>4, <1>7, ConcatProperties
<1> HIDE DEF t4
<1>9. t5 \in Seq(Bytes) /\ Len(t5) = Len(t4) + Len(s5)
  BY ONLY <1>4, <1>8, ConcatProperties
<1> HIDE DEF t5
<1>10. t6 \in Seq(Bytes) /\ Len(t6) = Len(t5) + Len(s6)
  BY ONLY <1>4, <1>9, ConcatProperties
<1>11. LiesAt(b, p, t5) /\ LiesAt(b, p + Len(t5), s6)
  BY ONLY <1>4, <1>9, <1>61, AtBoth, b \in Seq(Bytes)
<1> HIDE DEF t6
<1>12. LiesAt(b, p, t4) /\ LiesAt(b, p + Len(t4), s5)
  BY ONLY <1>4, <1>8, <1>11, AtBoth, b \in Seq(Bytes) DEF t5
<1>13. LiesAt(b, p, t3) /\ LiesAt(b, p + Len(t3), s4)
  BY ONLY <1>4, <1>7, <1>12, AtBoth, b \in Seq(Bytes) DEF t4
<1>14. LiesAt(b, p, t2) /\ LiesAt(b, p + Len(t2), s3)
  BY ONLY <1>4, <1>6, <1>13, AtBoth, b \in Seq(Bytes) DEF t3
<1>15. LiesAt(b, p, s1) /\ LiesAt(b, p + Len(s1), s2)
  BY ONLY <1>4, <1>14, AtBoth, b \in Seq(Bytes) DEF t2
<1> DEFINE p2 == p + Len(s1)
           p3 == p + Len(t2)
           p4 == p + Len(t3)
           p5 == p + Len(t4)
           p6 == p + Len(t5)
           end == p + e
<1>16. p \in Nat
  BY ONLY <1>15 DEF LiesAt
<1>17. /\ Len(s1) \in Nat /\ Len(s2) \in Nat /\ Len(s3) \in Nat /\ Len(s4) \in Nat /\ Len(s5) \in Nat /\ Len(s6) \in Nat
  BY ONLY <1>4
<1>18. /\ p2 \in Nat /\ p3 \in Nat /\ p4 \in Nat /\ p5 \in Nat /\ p6 \in Nat /\ end \in Nat
       /\ p3 = p2 + Len(s2) /\ p4 = p3 + Len(s3) /\ p5 = p4 + Len(s4) /\ p6 = p5 + Len(s5) /\ end = p6 + Len(s6)
       /\ p2 <= end /\ p3 <= end /\ p4 <= end /\ p5 <= end /\ p6 <= end
  BY ONLY SMTT(60), <1>6, <1>61, <1>7, <1>8, <1>9, <1>10, <1>16, <1>17
<1>19. /\ LiesAt(b, p, s1) /\ LiesAt(b, p2, s2) /\ LiesAt(b, p3, s3)
       /\ LiesAt(b, p4, s4) /\ LiesAt(b, p5, s5) /\ LiesAt(b, p6, s6)
  BY ONLY <1>11, <1>12, <1>13, <1>14, <1>15
<1>20. p2 = p + Len(s1)
  OBVIOUS
<1>21. end = p + Len(NestedFields(c))
  BY DEF e
<1> HIDE DEF p2, p3, p4, p5, p6, end
<1>22. Above(b, end, end, 133)
  BY ONLY <1>18 DEF Above
<1>23. /\ 132 < 133 /\ 131 < 132 /\ 130 < 131 /\ 129 < 130 /\ 128 < 129 /\ end <= end
  BY ONLY <1>18
<1>24. Laid(b, p6, end, end, 133, c.salt) /\ Above(b, p6, end, 132)
  <2>1. /\ LiesAt(b, p6, FieldBytes(133, c.salt)) /\ end = p6 + Len(FieldBytes(133, c.salt))
        /\ end <= end /\ Above(b, end, end, 133)
    BY ONLY <1>18, <1>19, <1>22, <1>23 DEF s6
  <2>2. /\ Laid(b, p6, end, end, 133, c.salt)
        /\ \A t \in Bytes : t < 133 => Above(b, p6, end, t)
    BY ONLY <1>1, <1>2, <1>3, <1>18, <2>1, FieldLaid, b \in Seq(Bytes)
  <2> QED BY ONLY <1>3, <1>23, <2>2
<1>25. Laid(b, p5, p6, end, 132, Digits(c.iterations)) /\ Above(b, p5, end, 131)
  <2>1. /\ LiesAt(b, p5, FieldBytes(132, Digits(c.iterations))) /\ p6 = p5 + Len(FieldBytes(132, Digits(c.iterations)))
        /\ p6 <= end /\ Above(b, p6, end, 132)
    BY ONLY <1>18, <1>19, <1>24, <1>23 DEF s5
  <2>2. /\ Laid(b, p5, p6, end, 132, Digits(c.iterations))
        /\ \A t \in Bytes : t < 132 => Above(b, p5, end, t)
    BY ONLY <1>1, <1>2, <1>3, <1>18, <2>1, FieldLaid, b \in Seq(Bytes)
  <2> QED BY ONLY <1>3, <1>23, <2>2
<1>26. Laid(b, p4, p5, end, 131, c.wrapped) /\ Above(b, p4, end, 130)
  <2>1. /\ LiesAt(b, p4, FieldBytes(131, c.wrapped)) /\ p5 = p4 + Len(FieldBytes(131, c.wrapped))
        /\ p5 <= end /\ Above(b, p5, end, 131)
    BY ONLY <1>18, <1>19, <1>25, <1>23 DEF s4
  <2>2. /\ Laid(b, p4, p5, end, 131, c.wrapped)
        /\ \A t \in Bytes : t < 131 => Above(b, p4, end, t)
    BY ONLY <1>1, <1>2, <1>3, <1>18, <2>1, FieldLaid, b \in Seq(Bytes)
  <2> QED BY ONLY <1>3, <1>23, <2>2
<1>27. Laid(b, p3, p4, end, 130, c.info) /\ Above(b, p3, end, 129)
  <2>1. /\ LiesAt(b, p3, FieldBytes(130, c.info)) /\ p4 = p3 + Len(FieldBytes(130, c.info))
        /\ p4 <= end /\ Above(b, p4, end, 130)
    BY ONLY <1>18, <1>19, <1>26, <1>23 DEF s3
  <2>2. /\ Laid(b, p3, p4, end, 130, c.info)
        /\ \A t \in Bytes : t < 130 => Above(b, p3, end, t)
    BY ONLY <1>1, <1>2, <1>3, <1>18, <2>1, FieldLaid, b \in Seq(Bytes)
  <2> QED BY ONLY <1>3, <1>23, <2>2
<1>28. Laid(b, p2, p3, end, 129, c.uuid) /\ Above(b, p2, end, 128)
  <2>1. /\ LiesAt(b, p2, FieldBytes(129, c.uuid)) /\ p3 = p2 + Len(FieldBytes(129, c.uuid))
        /\ p3 <= end /\ Above(b, p3, end, 129)
    BY ONLY <1>18, <1>19, <1>27, <1>23 DEF s2
  <2>2. /\ Laid(b, p2, p3, end, 129, c.uuid)
        /\ \A t \in Bytes : t < 129 => Above(b, p2, end, t)
    BY ONLY <1>1, <1>2, <1>3, <1>18, <2>1, FieldLaid, b \in Seq(Bytes)
  <2> QED BY ONLY <1>3, <1>23, <2>2
<1>29. Laid(b, p, p2, end, 128, c.number)
  <2>1. /\ LiesAt(b, p, FieldBytes(128, c.number)) /\ p2 = p + Len(FieldBytes(128, c.number))
        /\ p2 <= end /\ Above(b, p2, end, 128)
    BY ONLY <1>18, <1>19, <1>20, <1>28 DEF s1
  <2>2. c.number \in Field(Strings) /\ 128 \in Bytes /\ end \in Nat
    BY ONLY <1>1, <1>3, <1>18
  <2> QED BY ONLY <2>1, <2>2, FieldLaid, b \in Seq(Bytes)
<1> QED BY ONLY <1>18, <1>21, <1>24, <1>25, <1>26, <1>27, <1>28, <1>29

(* The fields of a header are laid out, and behind them what is nested.      *)
LEMMA OuterLaid ==
  ASSUME NEW b \in Seq(Bytes), NEW c \in Contents, NEW p, LiesAt(b, p, OuterFields(c)),
         Short(Len(NestedFields(c)))
  PROVE  \E p2, p3, p4, o, end \in Nat :
           /\ end = p + Len(OuterFields(c)) /\ o # 0 /\ p4 # 0
           /\ Laid(b, p, p2, end, 128, c.version) /\ Laid(b, p2, p3, end, 129, c.hmac)
           /\ Laid(b, p3, p4, end, 130, c.hmacsalt)
           /\ De!der_decode_tl(163, b, p4, end) = De!Result(o, Len(NestedFields(c)))
           /\ LiesAt(b, o, NestedFields(c)) /\ end = o + Len(NestedFields(c))
<1> DEFINE s1 == FieldBytes(128, c.version)
           s2 == FieldBytes(129, c.hmac)
           s3 == FieldBytes(130, c.hmacsalt)
           s == NestedFields(c)
           s4 == Tlv(163, s)
           e == Len(OuterFields(c))
<1>1. /\ c.version \in Field(Strings) /\ c.hmac \in Field(Strings) /\ c.hmacsalt \in Field(Strings)
  BY DEF Contents
<1>2. s \in Seq(Bytes)
  BY NestedType
<1>3. 128 \in Bytes /\ 129 \in Bytes /\ 130 \in Bytes /\ 163 \in Bytes
  BY ONLY DEF Bytes
<1>4. /\ s1 \in Seq(Bytes) /\ s2 \in Seq(Bytes) /\ s3 \in Seq(Bytes)
  BY ONLY <1>1, <1>3, FieldBytesType
<1>41. s4 \in Seq(Bytes) /\ Len(s4) = 1 + Len(LengthBytes(Len(s))) + Len(s) /\ s4[1] = 163
  BY <1>2, <1>3, TlvType
<1>42. Len(LengthBytes(Len(s))) \in 1..3 /\ Len(s) \in Nat /\ Short(Len(s))
  BY <1>2, LengthBytesType
<1>5. LiesAt(b, p, s1 \o s2 \o s3 \o s4) /\ e = Len(s1 \o s2 \o s3 \o s4)
  BY DEF OuterFields
<1> HIDE DEF s1, s2, s3, s, s4, e
<1> DEFINE t2 == s1 \o s2
           t3 == t2 \o s3
           t4 == t3 \o s4
<1>6. /\ t2 \in Seq(Bytes) /\ Len(t2) = Len(s1) + Len(s2)
  BY ONLY <1>4, ConcatProperties
<1>61. LiesAt(b, p, t4) /\ e = Len(t4)
  BY ONLY <1>5
<1> HIDE DEF t2
<1>7. t3 \in Seq(Bytes) /\ Len(t3) = Len(t2) + Len(s3)
  BY ONLY <1>4, <1>6, ConcatProperties
<1> HIDE DEF t3
<1>8. t4 \in Seq(Bytes) /\ Len(t4) = Len(t3) + Len(s4)
  BY ONLY <1>41, <1>7, ConcatProperties
<1>13. LiesAt(b, p, t3) /\ LiesAt(b, p + Len(t3), s4)
  BY ONLY <1>41, <1>7, <1>61, AtBoth, b \in Seq(Bytes)
<1> HIDE DEF t4
<1>14. LiesAt(b, p, t2) /\ LiesAt(b, p + Len(t2), s3)
  BY ONLY <1>4, <1>6, <1>13, AtBoth, b \in Seq(Bytes) DEF t3
<1>15. LiesAt(b, p, s1) /\ LiesAt(b, p + Len(s1), s2)
  BY ONLY <1>4, <1>14, AtBoth, b \in Seq(Bytes) DEF t2
<1> DEFINE p2 == p + Len(s1)
           p3 == p + Len(t2)
           p4 == p + Len(t3)
           end == p + e
           o == end - Len(s)
<1>16. p \in Nat /\ p4 \in Nat \ {0}
  BY ONLY <1>13, <1>15 DEF LiesAt
<1>17. /\ Len(s1) \in Nat /\ Len(s2) \in Nat /\ Len(s3) \in Nat /\ Len(s4) \in Nat
  BY ONLY <1>4, <1>41
<1>18. /\ p2 \in Nat /\ p3 \in Nat /\ end \in Nat
       /\ p3 = p2 + Len(s2) /\ p4 = p3 + Len(s3) /\ end = p4 + Len(s4)
       /\ p2 <= end /\ p3 <= end /\ p4 <= end
       /\ o = p4 + Len(s4) - Len(s) /\ o \in Nat /\ end = o + Len(s) /\ o # 0
  BY ONLY SMTT(60), <1>6, <1>61, <1>7, <1>8, <1>16, <1>17, <1>41, <1>42
<1>19. LiesAt(b, p, s1) /\ LiesAt(b, p2, s2) /\ LiesAt(b, p3, s3) /\ LiesAt(b, p4, s4)
  BY ONLY <1>13, <1>14, <1>15
<1>20. p2 = p + Len(s1)
  OBVIOUS
<1>21. end = p + Len(OuterFields(c))
  BY DEF e
<1> HIDE DEF p2, p3, p4, end, o
<1>22. De!der_decode_tl(163, b, p4, end) = De!Result(o, Len(s)) /\ LiesAt(b, o, s)
  <2>1. LiesAt(b, p4, Tlv(163, s)) /\ p4 + Len(Tlv(163, s)) <= end
    BY ONLY <1>18, <1>19 DEF s4
  <2>2. /\ De!der_decode_tl(163, b, p4, end) = De!Result(p4 + Len(Tlv(163, s)) - Len(s), Len(s))
        /\ LiesAt(b, p4 + Len(Tlv(163, s)) - Len(s), s)
    <3>1. 163 \in Bytes /\ Short(Len(s)) /\ end \in Nat
      BY ONLY <1>3, <1>18, <1>42
    <3> QED BY ONLY <1>2, <2>1, <3>1, DecodeTlRight, b \in Seq(Bytes), Zenon
  <2>3. p4 + Len(Tlv(163, s)) - Len(s) = o
    BY ONLY <1>18 DEF s4
  <2> QED BY ONLY <2>2, <2>3
<1>23. Above(b, p4, end, 130)
  <2>1. 1 \in 1..Len(s4) /\ p4 + 1 - 1 = p4
    BY ONLY <1>16, <1>17, <1>41, <1>42
  <2>2. b[p4] = 163
    BY ONLY <1>19, <1>41, <2>1 DEF LiesAt
  <2> QED BY ONLY <2>2 DEF Above
<1>24. 129 < 130 /\ 128 < 129
  OBVIOUS
<1>25. Laid(b, p3, p4, end, 130, c.hmacsalt) /\ Above(b, p3, end, 129)
  <2>1. /\ LiesAt(b, p3, FieldBytes(130, c.hmacsalt)) /\ p4 = p3 + Len(FieldBytes(130, c.hmacsalt))
        /\ p4 <= end /\ Above(b, p4, end, 130)
    BY ONLY <1>18, <1>19, <1>23 DEF s3
  <2>2. /\ Laid(b, p3, p4, end, 130, c.hmacsalt)
        /\ \A t \in Bytes : t < 130 => Above(b, p3, end, t)
    BY ONLY <1>1, <1>3, <1>18, <2>1, FieldLaid, b \in Seq(Bytes)
  <2> QED BY ONLY <1>3, <1>24, <2>2
<1>26. Laid(b, p2, p3, end, 129, c.hmac) /\ Above(b, p2, end, 128)
  <2>1. /\ LiesAt(b, p2, FieldBytes(129, c.hmac)) /\ p3 = p2 + Len(FieldBytes(129, c.hmac))
        /\ p3 <= end /\ Above(b, p3, end, 129)
    BY ONLY <1>18, <1>19, <1>25 DEF s2
  <2>2. /\ Laid(b, p2, p3, end, 129, c.hmac)
        /\ \A t \in Bytes : t < 129 => Above(b, p2, end, t)
    BY ONLY <1>1, <1>3, <1>18, <2>1, FieldLaid, b \in Seq(Bytes)
  <2> QED BY ONLY <1>3, <1>24, <2>2
<1>27. Laid(b, p, p2, end, 128, c.version)
  BY ONLY <1>1, <1>3, <1>18, <1>19, <1>20, <1>26, FieldLaid, b \in Seq(Bytes) DEF s1
<1>28. o # 0 /\ p4 # 0
  BY ONLY <1>16, <1>18 DEF p4
<1>29. /\ end = p + Len(OuterFields(c)) /\ o # 0 /\ p4 # 0
       /\ Laid(b, p, p2, end, 128, c.version) /\ Laid(b, p2, p3, end, 129, c.hmac)
       /\ Laid(b, p3, p4, end, 130, c.hmacsalt)
       /\ De!der_decode_tl(163, b, p4, end) = De!Result(o, Len(NestedFields(c)))
       /\ LiesAt(b, o, NestedFields(c)) /\ end = o + Len(NestedFields(c))
  BY ONLY <1>18, <1>21, <1>22, <1>25, <1>26, <1>27, <1>28 DEF s
<1>30. p2 \in Nat /\ p3 \in Nat /\ p4 \in Nat /\ o \in Nat /\ end \in Nat
  BY ONLY <1>16, <1>18
<1> QED BY ONLY <1>29, <1>30, Zenon

(* Nothing is decoded behind a null pointer.                                 *)
LEMMA NullPassed ==
  ASSUME NEW b, NEW tag, NEW len, NEW end \in Nat
  PROVE  /\ De!der_decode_octet_string_copy(tag, len, b, 0, end).der = 0
         /\ De!der_decode_uint64(tag, b, 0, end).der = 0
         /\ De!der_decode_tl(tag, b, 0, end) = De!Result(0, -1)
<1> DEFINE r == De!der_decode_tl(tag, b, 0, end)
<1>1. r = De!Result(0, -1)
  BY DEF De!der_decode_tl, De!Null, De!Unset
<1>2. r.der = 0
  BY ONLY <1>1 DEF De!Result
<1> HIDE DEF r
<1>3. De!der_decode_octet_string_copy(tag, len, b, 0, end) = De!Result(0, <<>>)
  BY ONLY <1>2 DEF De!der_decode_octet_string_copy, De!Null, r
<1>4. De!der_decode_uint64(tag, b, 0, end) = De!Result(0, 0)
  BY ONLY <1>2 DEF De!der_decode_uint64, De!Null, r
<1> QED BY ONLY <1>1, <1>3, <1>4 DEF De!Result, r

(* DecodeField decodes a number or bytes.                                    *)
LEMMA FieldKinds ==
  ASSUME NEW b, NEW tag, NEW len \in Nat \ {0}, NEW der, NEW end
  PROVE  /\ De!DecodeField(De!Uint64(tag), b, der, end) = De!der_decode_uint64(tag, b, der, end)
         /\ De!DecodeField(De!Octets(tag, len), b, der, end) = De!der_decode_octet_string_copy(tag, len, b, der, end)
BY DEF De!DecodeField, De!Uint64, De!Octets, De!Null

(* Two fields in a row.                                                      *)
LEMMA TwoFields ==
  ASSUME NEW f, NEW g, NEW b, NEW der, NEW end
  PROVE  LET r1 == De!DecodeField(f, b, der, end)
             r2 == De!DecodeField(g, b, r1.der, end)
             r == De!DecodeFields(<<f, g>>, b, der, end)
         IN r.der = r2.der /\ r.val[1] = r1.val /\ r.val[2] = r2.val
<1> DEFINE fs == <<f, g>>
           r1 == De!DecodeField(f, b, der, end)
           r2 == De!DecodeField(g, b, r1.der, end)
           Step(x, i) == LET y == De!DecodeField(fs[i], b, x.der, end) IN De!Result(y.der, Append(x.val, y.val))
           v1 == Append(<<>>, r1.val)
           v2 == Append(v1, r2.val)
           h == [i \in 0..2 |-> IF i = 0 THEN De!Result(der, <<>>)
                                ELSE IF i = 1 THEN De!Result(r1.der, v1) ELSE De!Result(r2.der, v2)]
           Is(r) == r = [i \in 0..2 |-> IF i = 0 THEN De!Result(der, <<>>) ELSE Step(r[i - 1], i)]
           w == CHOOSE r : Is(r)
<1>1. fs[1] = f /\ fs[2] = g /\ Len(fs) = 2
  OBVIOUS
<1>2. h[0] = De!Result(der, <<>>) /\ h[1] = De!Result(r1.der, v1) /\ h[2] = De!Result(r2.der, v2)
  OBVIOUS
<1>3. De!DecodeFields(fs, b, der, end) = w[2]
  <2>1. De!DecodeFields(fs, b, der, end) =
          (CHOOSE r : r = [i \in 0..Len(fs) |-> IF i = 0 THEN De!Result(der, <<>>) ELSE Step(r[i - 1], i)])[Len(fs)]
    BY DEF De!DecodeFields
  <2> HIDE DEF fs, Step
  <2> QED BY ONLY <1>1, <2>1
<1>4. Step(De!Result(der, <<>>), 1) = De!Result(r1.der, v1)
  <2> HIDE DEF fs
  <2>1. De!Result(der, <<>>).der = der /\ De!Result(der, <<>>).val = <<>>
    BY ONLY DEF De!Result
  <2> QED BY ONLY <1>1, <2>1
<1>5. Step(De!Result(r1.der, v1), 2) = De!Result(r2.der, v2)
  <2> HIDE DEF fs, v1
  <2>1. De!Result(r1.der, v1).der = r1.der /\ De!Result(r1.der, v1).val = v1
    BY ONLY DEF De!Result
  <2> QED BY ONLY <1>1, <2>1
<1> HIDE DEF Step, fs
<1>6. Is(h)
  <2> HIDE DEF v1, v2, r1, r2
  <2>1. \A i \in 0..2 : h[i] = IF i = 0 THEN De!Result(der, <<>>) ELSE Step(h[i - 1], i)
    <3> HIDE DEF h
    <3>1. \A i \in 0..2 : i = 0 \/ (i = 1 /\ i # 0 /\ i - 1 = 0) \/ (i = 2 /\ i # 0 /\ i - 1 = 1)
      OBVIOUS
    <3> QED BY ONLY <1>2, <1>4, <1>5, <3>1
  <2>2. h = [i \in 0..2 |-> h[i]]
    OBVIOUS
  <2> HIDE DEF h
  <2> QED BY ONLY <2>1, <2>2
<1>7. Is(w)
  <2> HIDE DEF h, Is
  <2> QED BY ONLY <1>6
<1> HIDE DEF w
<1>8. w[0] = De!Result(der, <<>>) /\ w[1] = Step(w[0], 1) /\ w[2] = Step(w[1], 2)
  <2>1. \A i \in 0..2 : w[i] = IF i = 0 THEN De!Result(der, <<>>) ELSE Step(w[i - 1], i)
    BY ONLY <1>7
  <2>2. 0 \in 0..2 /\ 1 \in 0..2 /\ 2 \in 0..2 /\ 1 # 0 /\ 2 # 0 /\ 1 - 1 = 0 /\ 2 - 1 = 1
    OBVIOUS
  <2> QED BY ONLY <2>1, <2>2
<1>9. w[2] = De!Result(r2.der, v2)
  BY ONLY <1>4, <1>5, <1>8
<1>10. v2[1] = r1.val /\ v2[2] = r2.val
  <2> HIDE DEF r1, r2
  <2> QED OBVIOUS
<1> HIDE DEF v2
<1>11. w[2].der = r2.der /\ w[2].val = v2
  BY ONLY <1>9 DEF De!Result
<1> QED BY ONLY <1>3, <1>10, <1>11 DEF fs

(* Three fields in a row.                                                    *)
LEMMA ThreeFields ==
  ASSUME NEW f, NEW g, NEW k, NEW b, NEW der, NEW end
  PROVE  LET r1 == De!DecodeField(f, b, der, end)
             r2 == De!DecodeField(g, b, r1.der, end)
             r3 == De!DecodeField(k, b, r2.der, end)
             r == De!DecodeFields(<<f, g, k>>, b, der, end)
         IN r.der = r3.der /\ r.val[1] = r1.val /\ r.val[2] = r2.val /\ r.val[3] = r3.val
<1> DEFINE fs == <<f, g, k>>
           r1 == De!DecodeField(f, b, der, end)
           r2 == De!DecodeField(g, b, r1.der, end)
           r3 == De!DecodeField(k, b, r2.der, end)
           Step(x, i) == LET y == De!DecodeField(fs[i], b, x.der, end) IN De!Result(y.der, Append(x.val, y.val))
           v1 == Append(<<>>, r1.val)
           v2 == Append(v1, r2.val)
           v3 == Append(v2, r3.val)
           h == [i \in 0..3 |-> IF i = 0 THEN De!Result(der, <<>>)
                                ELSE IF i = 1 THEN De!Result(r1.der, v1)
                                ELSE IF i = 2 THEN De!Result(r2.der, v2) ELSE De!Result(r3.der, v3)]
           Is(r) == r = [i \in 0..3 |-> IF i = 0 THEN De!Result(der, <<>>) ELSE Step(r[i - 1], i)]
           w == CHOOSE r : Is(r)
<1>1. fs[1] = f /\ fs[2] = g /\ fs[3] = k /\ Len(fs) = 3
  OBVIOUS
<1>2. /\ h[0] = De!Result(der, <<>>) /\ h[1] = De!Result(r1.der, v1)
      /\ h[2] = De!Result(r2.der, v2) /\ h[3] = De!Result(r3.der, v3)
  OBVIOUS
<1>3. De!DecodeFields(fs, b, der, end) = w[3]
  <2>1. De!DecodeFields(fs, b, der, end) =
          (CHOOSE r : r = [i \in 0..Len(fs) |-> IF i = 0 THEN De!Result(der, <<>>) ELSE Step(r[i - 1], i)])[Len(fs)]
    BY DEF De!DecodeFields
  <2> HIDE DEF fs, Step
  <2> QED BY ONLY <1>1, <2>1
<1>4. Step(De!Result(der, <<>>), 1) = De!Result(r1.der, v1)
  <2> HIDE DEF fs
  <2>1. De!Result(der, <<>>).der = der /\ De!Result(der, <<>>).val = <<>>
    BY ONLY DEF De!Result
  <2> QED BY ONLY <1>1, <2>1
<1>5. Step(De!Result(r1.der, v1), 2) = De!Result(r2.der, v2)
  <2> HIDE DEF fs, v1
  <2>1. De!Result(r1.der, v1).der = r1.der /\ De!Result(r1.der, v1).val = v1
    BY ONLY DEF De!Result
  <2> QED BY ONLY <1>1, <2>1
<1>51. Step(De!Result(r2.der, v2), 3) = De!Result(r3.der, v3)
  <2> HIDE DEF fs, v2
  <2>1. De!Result(r2.der, v2).der = r2.der /\ De!Result(r2.der, v2).val = v2
    BY ONLY DEF De!Result
  <2> QED BY ONLY <1>1, <2>1
<1> HIDE DEF Step, fs
<1>6. Is(h)
  <2> HIDE DEF v1, v2, v3, r1, r2, r3
  <2>1. \A i \in 0..3 : h[i] = IF i = 0 THEN De!Result(der, <<>>) ELSE Step(h[i - 1], i)
    <3> HIDE DEF h
    <3>1. \A i \in 0..3 : \/ i = 0 \/ (i = 1 /\ i # 0 /\ i - 1 = 0)
                          \/ (i = 2 /\ i # 0 /\ i - 1 = 1) \/ (i = 3 /\ i # 0 /\ i - 1 = 2)
      OBVIOUS
    <3> QED BY ONLY <1>2, <1>4, <1>5, <1>51, <3>1
  <2>2. h = [i \in 0..3 |-> h[i]]
    OBVIOUS
  <2> HIDE DEF h
  <2> QED BY ONLY <2>1, <2>2
<1>7. Is(w)
  <2> HIDE DEF h, Is
  <2> QED BY ONLY <1>6
<1> HIDE DEF w
<1>8. w[0] = De!Result(der, <<>>) /\ w[1] = Step(w[0], 1) /\ w[2] = Step(w[1], 2) /\ w[3] = Step(w[2], 3)
  <2>1. \A i \in 0..3 : w[i] = IF i = 0 THEN De!Result(der, <<>>) ELSE Step(w[i - 1], i)
    BY ONLY <1>7
  <2>2. /\ 0 \in 0..3 /\ 1 \in 0..3 /\ 2 \in 0..3 /\ 3 \in 0..3
        /\ 1 # 0 /\ 2 # 0 /\ 3 # 0 /\ 1 - 1 = 0 /\ 2 - 1 = 1 /\ 3 - 1 = 2
    OBVIOUS
  <2> QED BY ONLY <2>1, <2>2
<1>9. w[3] = De!Result(r3.der, v3)
  BY ONLY <1>4, <1>5, <1>51, <1>8
<1>10. v3[1] = r1.val /\ v3[2] = r2.val /\ v3[3] = r3.val
  <2> HIDE DEF r1, r2, r3
  <2> QED OBVIOUS
<1> HIDE DEF v3
<1>11. w[3].der = r3.der /\ w[3].val = v3
  BY ONLY <1>9 DEF De!Result
<1> QED BY ONLY <1>3, <1>10, <1>11 DEF fs

(* What becomes of the type of a key.                                        *)
LEMMA HeaderOfIs ==
  ASSUME InfoMax \in Nat, NEW b, NEW end, NEW uuid, NEW o \in Nat, NEW n \in Nat \cup {-1}
  PROVE  LET H == De!HeaderOf(b, end, uuid, De!Result(o, n))
         IN /\ o = 0 /\ n = -1 => H = {De!Header(0, end, uuid, <<>>), De!Crashed}
            /\ o # 0 /\ n \in Nat /\ n <= InfoMax =>
                 H = {De!Header(o + n, end, uuid, SubSeq(b, o, o + n - 1))}
            /\ o # 0 /\ n \in Nat /\ ~(n <= InfoMax) => H = {De!Header(0, end, uuid, <<>>)}
<1> DEFINE r == De!Result(o, n)
           A == {De!Header(o + n, end, uuid, SubSeq(b, o, o + n - 1))}
           B == {De!Header(0, end, uuid, <<>>)}
           C == {De!Header(0, end, uuid, <<>>), De!Crashed}
           H == De!HeaderOf(b, end, uuid, r)
<1>1. r.der = o /\ r.val = n
  BY DEF De!Result
<1>2. H = IF r.der # 0 /\ r.val <= InfoMax
            THEN {De!Header(r.der + r.val, end, uuid, SubSeq(b, r.der, r.der + r.val - 1))}
          ELSE IF r.val > InfoMax \/ r.val = 0 THEN B
          ELSE IF r.val = -1 THEN C
          ELSE {De!Crashed}
  BY DEF De!HeaderOf, De!Null, De!Unset
<1> HIDE DEF r
<1>3. H = IF o # 0 /\ n <= InfoMax THEN A ELSE IF n > InfoMax \/ n = 0 THEN B ELSE IF n = -1 THEN C ELSE {De!Crashed}
  BY ONLY <1>1, <1>2
<1> HIDE DEF A, B, C, H
<1>4. /\ o = 0 /\ n = -1 => H = C
      /\ o # 0 /\ n \in Nat /\ n <= InfoMax => H = A
      /\ o # 0 /\ n \in Nat /\ ~(n <= InfoMax) => H = B
  BY ONLY <1>3, InfoMax \in Nat, n \in Nat \cup {-1}
<1> QED BY ONLY <1>4 DEF A, B, C, H, r

(* Where the next field is, behind a number and behind bytes.                *)
LEMMA NumberPassed ==
  ASSUME NEW b \in Seq(Bytes), NEW p, NEW q, NEW end \in Nat, NEW tag \in Bytes, NEW f,
         Laid(b, p, q, end, tag, f)
  PROVE  LET r == De!der_decode_uint64(tag, b, p, end)
         IN (HasUpTo(f, 8) => r.der = q /\ q # 0) /\ (~HasUpTo(f, 8) => r.der = 0)
<1> DEFINE r == De!der_decode_uint64(tag, b, p, end)
           v == Horner(b, q - Len(f[1]), Len(f[1]))
<1>1. (HasUpTo(f, 8) => r = De!Result(q, v) /\ q # 0) /\ (~HasUpTo(f, 8) => r = De!Result(0, 0))
  BY NumberFound
<1> HIDE DEF r, v
<1>2. (HasUpTo(f, 8) => r.der = q /\ q # 0) /\ (~HasUpTo(f, 8) => r.der = 0)
  BY ONLY <1>1 DEF De!Result
<1> QED BY ONLY <1>2 DEF r

LEMMA OctetsPassed ==
  ASSUME NEW b \in Seq(Bytes), NEW p, NEW q, NEW end \in Nat, NEW tag \in Bytes, NEW f,
         Laid(b, p, q, end, tag, f), NEW len \in Nat
  PROVE  LET r == De!der_decode_octet_string_copy(tag, len, b, p, end)
         IN /\ Has(f, len) => r.der = q /\ q # 0 /\ r.val = f[1]
            /\ ~Has(f, len) => r.der = 0
<1> DEFINE r == De!der_decode_octet_string_copy(tag, len, b, p, end)
<1>1. (Has(f, len) => r = De!Result(q, f[1]) /\ q # 0) /\ (~Has(f, len) => r = De!Result(0, <<>>))
  BY OctetsFound
<1> HIDE DEF r
<1>2. (Has(f, len) => r.der = q /\ q # 0 /\ r.val = f[1]) /\ (~Has(f, len) => r.der = 0)
  BY ONLY <1>1 DEF De!Result
<1> QED BY ONLY <1>2 DEF r

(* An element within which there are others.                                 *)
LEMMA ConstructedIs ==
  ASSUME NEW b, NEW tag, NEW p, NEW end, NEW o \in Nat, NEW n \in Nat, o # 0,
         De!der_decode_tl(tag, b, p, end) = De!Result(o, n)
  PROVE  De!der_decode_constructed_tl(tag, b, p, end) = De!Result(o, o + n)
BY DEF De!der_decode_constructed_tl, De!Result, De!Null

(* The nested fields of a header.                                            *)
LEMMA NestedDecoded ==
  ASSUME NEW b \in Seq(Bytes), NEW c \in Contents, NEW o \in Nat, NEW end \in Nat,
         LiesAt(b, o, NestedFields(c)), end = o + Len(NestedFields(c)), Short(Len(NestedFields(c)))
  PROVE  LET H == De!HeaderBody(b, De!Result(o, end))
         IN /\ NestedWhole(c) =>
                 \E p4, p5, p6 \in Nat :
                   /\ H = {De!Header(p4, end, c.uuid[1], c.info[1])} /\ p4 # 0
                   /\ Laid(b, p4, p5, end, 131, c.wrapped) /\ Laid(b, p5, p6, end, 132, Digits(c.iterations))
                   /\ Laid(b, p6, end, end, 133, c.salt)
            /\ ~NestedWhole(c) =>
                 \E uuid : \/ H = {De!Header(0, end, uuid, <<>>)}
                           \/ H = {De!Header(0, end, uuid, <<>>), De!Crashed}
<1> DEFINE fields == De!DecodeFields(<<De!Uint64(De!Tag(0)), De!Octets(De!Tag(1), UuidLen)>>, b, o, end)
           info == De!der_decode_tl(De!Tag(2), b, fields.der, end)
           H == De!HeaderBody(b, De!Result(o, end))
<1>1. UuidLen \in Nat \ {0} /\ InfoMax \in Nat
  BY KeybagAssumption
<1>2. 128 \in Bytes /\ 129 \in Bytes /\ 130 \in Bytes /\ De!Tag(0) = 128 /\ De!Tag(1) = 129 /\ De!Tag(2) = 130
  BY ONLY DEF Bytes, De!Tag
<1>3. H = De!HeaderOf(b, end, fields.val[2], info)
  <2>1. De!Result(o, end).der = o /\ De!Result(o, end).val = end
    BY ONLY DEF De!Result
  <2> DEFINE body == De!Result(o, end)
  <2>2. H = De!HeaderOf(b, body.val,
                De!DecodeFields(<<De!Uint64(De!Tag(0)), De!Octets(De!Tag(1), UuidLen)>>, b, body.der, body.val).val[2],
                De!der_decode_tl(De!Tag(2), b,
                  De!DecodeFields(<<De!Uint64(De!Tag(0)), De!Octets(De!Tag(1), UuidLen)>>, b, body.der, body.val).der,
                  body.val))
    BY DEF De!HeaderBody
  <2> HIDE DEF body, H
  <2> QED BY ONLY <2>1, <2>2 DEF body
<1>4. PICK p2, p3, p4, p5, p6 \in Nat :
         /\ Laid(b, o, p2, end, 128, c.number) /\ Laid(b, p2, p3, end, 129, c.uuid)
         /\ Laid(b, p3, p4, end, 130, c.info) /\ Laid(b, p4, p5, end, 131, c.wrapped)
         /\ Laid(b, p5, p6, end, 132, Digits(c.iterations)) /\ Laid(b, p6, end, end, 133, c.salt)
  <2>1. \E x2, x3, x4, x5, x6, e \in Nat :
           /\ e = o + Len(NestedFields(c))
           /\ Laid(b, o, x2, e, 128, c.number) /\ Laid(b, x2, x3, e, 129, c.uuid)
           /\ Laid(b, x3, x4, e, 130, c.info) /\ Laid(b, x4, x5, e, 131, c.wrapped)
           /\ Laid(b, x5, x6, e, 132, Digits(c.iterations)) /\ Laid(b, x6, e, e, 133, c.salt)
    BY NestedLaid
  <2> QED BY ONLY <2>1, end = o + Len(NestedFields(c))
<1> DEFINE r1 == De!der_decode_uint64(128, b, o, end)
           r2 == De!der_decode_octet_string_copy(129, UuidLen, b, r1.der, end)
<1>5. fields.der = r2.der /\ fields.val[2] = r2.val
  <2> DEFINE f == De!Uint64(128)
             g == De!Octets(129, UuidLen)
  <2>1. De!DecodeField(f, b, o, end) = r1
    BY ONLY <1>1, FieldKinds
  <2>2. De!DecodeField(g, b, r1.der, end) = r2
    BY ONLY <1>1, FieldKinds
  <2> HIDE DEF f, g, r1, r2
  <2>3. LET x1 == De!DecodeField(f, b, o, end)
            x2 == De!DecodeField(g, b, x1.der, end)
            r == De!DecodeFields(<<f, g>>, b, o, end)
        IN r.der = x2.der /\ r.val[1] = x1.val /\ r.val[2] = x2.val
    BY ONLY TwoFields
  <2>4. De!DecodeFields(<<f, g>>, b, o, end).der = r2.der /\ De!DecodeFields(<<f, g>>, b, o, end).val[2] = r2.val
    BY ONLY <2>1, <2>2, <2>3
  <2> QED BY ONLY <1>2, <2>4 DEF f, g
<1>41. Laid(b, o, p2, end, 128, c.number)
  BY ONLY <1>4
<1>42. Laid(b, p2, p3, end, 129, c.uuid)
  BY ONLY <1>4
<1>43. Laid(b, p3, p4, end, 130, c.info)
  BY ONLY <1>4
<1>6. (HasUpTo(c.number, 8) => r1.der = p2 /\ p2 # 0) /\ (~HasUpTo(c.number, 8) => r1.der = 0)
  BY ONLY <1>2, <1>41, NumberPassed, b \in Seq(Bytes), end \in Nat
<1> HIDE DEF r1
<1>8. HasUpTo(c.number, 8) /\ Has(c.uuid, UuidLen) => r2.der = p3 /\ r2.val = c.uuid[1]
  BY ONLY <1>1, <1>2, <1>42, <1>6, OctetsPassed, b \in Seq(Bytes), end \in Nat
<1>9. ~(HasUpTo(c.number, 8) /\ Has(c.uuid, UuidLen)) => r2.der = 0
  <2>1. CASE HasUpTo(c.number, 8)
    BY ONLY <1>1, <1>2, <1>42, <1>6, <2>1, OctetsPassed, b \in Seq(Bytes), end \in Nat
  <2>2. CASE ~HasUpTo(c.number, 8)
    BY ONLY <1>6, <2>2, NullPassed, end \in Nat
  <2> QED BY ONLY <2>1, <2>2
<1> HIDE DEF r2, fields, H
<1>10. CASE HasUpTo(c.number, 8) /\ Has(c.uuid, UuidLen) /\ Present(c.info)
  <2> DEFINE n == Len(c.info[1])
  <2>1. info = De!der_decode_tl(130, b, p3, end)
    BY ONLY <1>2, <1>5, <1>8, <1>10
  <2>2. /\ De!der_decode_tl(130, b, p3, end) = De!Result(p4 - n, n) /\ LiesAt(b, p4 - n, c.info[1])
        /\ p4 - n \in Nat \ {0} /\ p4 \in Nat \ {0} /\ n \in Nat
    BY ONLY SMTT(30), <1>2, <1>43, <1>10, FieldFound, b \in Seq(Bytes), end \in Nat
  <2>3. c.info[1] \in Seq(Bytes)
    BY ONLY <1>43, <1>10 DEF Laid
  <2>4. SubSeq(b, p4 - n, (p4 - n) + n - 1) = c.info[1]
    BY ONLY <2>2, <2>3, AtSubSeq, b \in Seq(Bytes)
  <2>5. NestedWhole(c) <=> n <= InfoMax
    BY ONLY <1>10 DEF NestedWhole, HasUpTo
  <2>6. H = De!HeaderOf(b, end, c.uuid[1], De!Result(p4 - n, n))
    BY ONLY <1>3, <1>5, <1>8, <1>10, <2>1, <2>2
  <2> HIDE DEF n
  <2>7. (p4 - n) + n = p4
    BY ONLY <2>2
  <2>8. n <= InfoMax => H = {De!Header((p4 - n) + n, end, c.uuid[1], SubSeq(b, p4 - n, (p4 - n) + n - 1))}
    BY ONLY <1>1, <2>2, <2>6, HeaderOfIs
  <2>9. ~(n <= InfoMax) => H = {De!Header(0, end, c.uuid[1], <<>>)}
    BY ONLY <1>1, <2>2, <2>6, HeaderOfIs
  <2>10. n <= InfoMax => H = {De!Header(p4, end, c.uuid[1], c.info[1])} /\ p4 # 0
    BY ONLY <2>2, <2>4, <2>7, <2>8
  <2> QED BY ONLY <1>4, <2>5, <2>9, <2>10 DEF H
<1>11. CASE ~(HasUpTo(c.number, 8) /\ Has(c.uuid, UuidLen) /\ Present(c.info))
  <2>1. info = De!Result(0, -1)
    <3>1. CASE HasUpTo(c.number, 8) /\ Has(c.uuid, UuidLen)
      <4>1. info = De!der_decode_tl(130, b, p3, end) /\ ~Present(c.info)
        BY ONLY <1>2, <1>5, <1>8, <1>11, <3>1
      <4> QED BY ONLY <1>2, <1>43, <4>1, FieldFound, b \in Seq(Bytes), end \in Nat
    <3>2. CASE ~(HasUpTo(c.number, 8) /\ Has(c.uuid, UuidLen))
      <4>1. info = De!der_decode_tl(130, b, 0, end)
        BY ONLY <1>2, <1>5, <1>9, <3>2
      <4> QED BY ONLY SMTT(30), <4>1, NullPassed, end \in Nat
    <3> QED BY ONLY <3>1, <3>2
  <2>2. ~NestedWhole(c)
    BY ONLY <1>11 DEF NestedWhole, HasUpTo
  <2>3. H = De!HeaderOf(b, end, fields.val[2], De!Result(0, -1))
    BY ONLY <1>3, <2>1
  <2>4. H = {De!Header(0, end, fields.val[2], <<>>), De!Crashed}
    BY ONLY <1>1, <2>3, HeaderOfIs
  <2> QED BY ONLY <2>2, <2>4 DEF H
<1> QED BY ONLY <1>10, <1>11

(* A blob is bytes.                                                          *)
LEMMA BlobType ==
  ASSUME NEW c \in Contents, Short(Len(NestedFields(c))), Short(Len(OuterFields(c)))
  PROVE  /\ OuterFields(c) \in Seq(Bytes) /\ Blob(c) \in Seq(Bytes)
         /\ Len(Blob(c)) = 1 + Len(LengthBytes(Len(OuterFields(c)))) + Len(OuterFields(c))
<1>1. /\ c.version \in Field(Strings) /\ c.hmac \in Field(Strings) /\ c.hmacsalt \in Field(Strings)
  BY DEF Contents
<1>2. NestedFields(c) \in Seq(Bytes)
  BY NestedType
<1>3. 48 \in Bytes /\ 128 \in Bytes /\ 129 \in Bytes /\ 130 \in Bytes /\ 163 \in Bytes
  BY ONLY DEF Bytes
<1>4. /\ FieldBytes(128, c.version) \in Seq(Bytes) /\ FieldBytes(129, c.hmac) \in Seq(Bytes)
      /\ FieldBytes(130, c.hmacsalt) \in Seq(Bytes)
  BY ONLY <1>1, <1>3, FieldBytesType
<1>5. Tlv(163, NestedFields(c)) \in Seq(Bytes)
  BY <1>2, <1>3, TlvType
<1>6. OuterFields(c) \in Seq(Bytes)
  <2> HIDE DEF Bytes
  <2> QED BY ONLY <1>4, <1>5 DEF OuterFields
<1>7. Tlv(48, OuterFields(c)) \in Seq(Bytes)
      /\ Len(Tlv(48, OuterFields(c))) = 1 + Len(LengthBytes(Len(OuterFields(c)))) + Len(OuterFields(c))
  BY ONLY <1>3, <1>6, TlvType, Short(Len(OuterFields(c)))
<1> QED BY ONLY <1>6, <1>7 DEF Blob

(* The header of a blob that is not cut off.                                 *)
LEMMA HeaderDecoded ==
  ASSUME NEW c \in Contents, Short(Len(NestedFields(c))), Short(Len(OuterFields(c)))
  PROVE  LET b == Blob(c)
             end == Len(b) + 1
             H == De!DecodeKeyHeader(b, 1, end)
         IN /\ ~HeaderWhole(c) => H = {De!Header(0, end, <<>>, <<>>)}
            /\ HeaderWhole(c) /\ NestedWhole(c) =>
                 \E p4, p5, p6 \in Nat :
                   /\ H = {De!Header(p4, end, c.uuid[1], c.info[1])} /\ p4 # 0
                   /\ Laid(b, p4, p5, end, 131, c.wrapped) /\ Laid(b, p5, p6, end, 132, Digits(c.iterations))
                   /\ Laid(b, p6, end, end, 133, c.salt)
            /\ HeaderWhole(c) /\ ~NestedWhole(c) =>
                 \E uuid : \/ H = {De!Header(0, end, uuid, <<>>)}
                           \/ H = {De!Header(0, end, uuid, <<>>), De!Crashed}
<1> DEFINE b == Blob(c)
           end == Len(b) + 1
           H == De!DecodeKeyHeader(b, 1, end)
           m == Len(OuterFields(c))
           seq == De!der_decode_constructed_tl(De!Sequence, b, 1, end)
           fields == De!DecodeFields(<<De!Uint64(De!Tag(0)), De!Octets(De!Tag(1), HmacLen),
                                       De!Octets(De!Tag(2), HmacSaltLen)>>, b, seq.der, seq.val)
<1>1. HmacLen \in Nat \ {0} /\ HmacSaltLen \in Nat \ {0}
  BY KeybagAssumption
<1>2. /\ 48 \in Bytes /\ 128 \in Bytes /\ 129 \in Bytes /\ 130 \in Bytes /\ 163 \in Bytes
      /\ De!Tag(0) = 128 /\ De!Tag(1) = 129 /\ De!Tag(2) = 130 /\ De!Sequence = 48 /\ De!Nested = 163
  BY ONLY DEF Bytes, De!Tag, De!Sequence, De!Nested
<1>3. b \in Seq(Bytes) /\ OuterFields(c) \in Seq(Bytes) /\ Len(b) = 1 + Len(LengthBytes(m)) + m
  BY BlobType
<1>4. Len(LengthBytes(m)) \in 1..3 /\ m \in Nat /\ Len(b) \in Nat /\ end \in Nat
  BY <1>3, LengthBytesType DEF Short
<1>5. H = IF fields.der = 0 THEN {De!Header(0, end, <<>>, <<>>)}
          ELSE De!HeaderBody(b, De!der_decode_constructed_tl(163, b, fields.der, seq.val))
  BY <1>2 DEF De!DecodeKeyHeader, De!Null
<1>6. b = Tlv(48, OuterFields(c))
  BY DEF Blob
<1>7. LiesAt(b, 1, b)
  <2> HIDE DEF b
  <2> QED BY ONLY <1>3, <1>4 DEF LiesAt
<1> DEFINE o == end - m
<1>8. De!der_decode_tl(48, b, 1, end) = De!Result(o, m) /\ LiesAt(b, o, OuterFields(c)) /\ o \in Nat \ {0}
  <2> HIDE DEF b
  <2>1. LiesAt(b, 1, Tlv(48, OuterFields(c))) /\ 1 + Len(Tlv(48, OuterFields(c))) <= end
    <3>1. LiesAt(b, 1, Tlv(48, OuterFields(c))) /\ Len(Tlv(48, OuterFields(c))) = Len(b)
      BY ONLY <1>6, <1>7
    <3>2. 1 + Len(b) <= end
      BY ONLY <1>4
    <3> QED BY ONLY <3>1, <3>2
  <2>2. /\ De!der_decode_tl(48, b, 1, end) =
             De!Result(1 + Len(Tlv(48, OuterFields(c))) - Len(OuterFields(c)), Len(OuterFields(c)))
        /\ LiesAt(b, 1 + Len(Tlv(48, OuterFields(c))) - Len(OuterFields(c)), OuterFields(c))
    <3>1. 48 \in Bytes /\ b \in Seq(Bytes) /\ OuterFields(c) \in Seq(Bytes) /\ end \in Nat
      BY ONLY <1>2, <1>3, <1>4
    <3> HIDE DEF end
    <3> QED BY ONLY <3>1, <2>1, Short(Len(OuterFields(c))), DecodeTlRight, Zenon
  <2>3. 1 + Len(Tlv(48, OuterFields(c))) - Len(OuterFields(c)) = o /\ o \in Nat \ {0}
    <3>1. Len(Tlv(48, OuterFields(c))) = Len(b)
      BY ONLY <1>6
    <3> HIDE DEF m
    <3>2. 1 + Len(b) - m = end - m /\ end - m \in Nat \ {0}
      BY ONLY <1>3, <1>4
    <3> QED BY ONLY <3>1, <3>2 DEF m
  <2> QED BY ONLY <2>2, <2>3
<1>9. seq.der = o /\ seq.val = end /\ o \in Nat \ {0}
  <2> HIDE DEF b, o, m, end
  <2>1. seq = De!Result(o, o + m)
    BY ONLY <1>2, <1>4, <1>8, ConstructedIs
  <2>2. o + m = end
    BY ONLY <1>4 DEF o
  <2> HIDE DEF seq
  <2> QED BY ONLY <1>8, <2>1, <2>2 DEF De!Result
<1>10. PICK p2, p3, p4, x \in Nat :
          /\ x # 0 /\ p4 # 0
          /\ Laid(b, o, p2, end, 128, c.version) /\ Laid(b, p2, p3, end, 129, c.hmac)
          /\ Laid(b, p3, p4, end, 130, c.hmacsalt)
          /\ De!der_decode_tl(163, b, p4, end) = De!Result(x, Len(NestedFields(c)))
          /\ LiesAt(b, x, NestedFields(c)) /\ end = x + Len(NestedFields(c))
  <2> HIDE DEF b, o
  <2>1. \E y2, y3, y4, y, e \in Nat :
           /\ e = o + Len(OuterFields(c)) /\ y # 0 /\ y4 # 0
           /\ Laid(b, o, y2, e, 128, c.version) /\ Laid(b, y2, y3, e, 129, c.hmac)
           /\ Laid(b, y3, y4, e, 130, c.hmacsalt)
           /\ De!der_decode_tl(163, b, y4, e) = De!Result(y, Len(NestedFields(c)))
           /\ LiesAt(b, y, NestedFields(c)) /\ e = y + Len(NestedFields(c))
    <3>1. LiesAt(b, o, OuterFields(c))
      BY ONLY <1>8
    <3>2. b \in Seq(Bytes)
      BY ONLY <1>3
    <3> QED BY ONLY <3>1, <3>2, c \in Contents, Short(Len(NestedFields(c))), OuterLaid, Zenon
  <2>2. o + Len(OuterFields(c)) = end
    BY ONLY <1>4 DEF o
  <2> HIDE DEF end
  <2> QED BY ONLY <2>1, <2>2
<1> HIDE DEF b, o, seq, m, end
<1> DEFINE r1 == De!der_decode_uint64(128, b, o, end)
           r2 == De!der_decode_octet_string_copy(129, HmacLen, b, r1.der, end)
           r3 == De!der_decode_octet_string_copy(130, HmacSaltLen, b, r2.der, end)
<1>11. fields.der = r3.der
  <2> DEFINE f == De!Uint64(128)
             g == De!Octets(129, HmacLen)
             k == De!Octets(130, HmacSaltLen)
  <2>1. De!DecodeField(f, b, o, end) = r1
    BY ONLY <1>1, FieldKinds
  <2>2. De!DecodeField(g, b, r1.der, end) = r2
    BY ONLY <1>1, FieldKinds
  <2>3. De!DecodeField(k, b, r2.der, end) = r3
    BY ONLY <1>1, FieldKinds
  <2> HIDE DEF f, g, k, r1, r2, r3
  <2>4. LET x1 == De!DecodeField(f, b, o, end)
            x2 == De!DecodeField(g, b, x1.der, end)
            x3 == De!DecodeField(k, b, x2.der, end)
            r == De!DecodeFields(<<f, g, k>>, b, o, end)
        IN r.der = x3.der /\ r.val[1] = x1.val /\ r.val[2] = x2.val /\ r.val[3] = x3.val
    BY ONLY ThreeFields
  <2>5. De!DecodeFields(<<f, g, k>>, b, o, end).der = r3.der
    BY ONLY <2>1, <2>2, <2>3, <2>4
  <2> QED BY ONLY <1>2, <1>9, <2>5 DEF f, g, k
<1>12. Laid(b, o, p2, end, 128, c.version)
  BY ONLY <1>10
<1>13. Laid(b, p2, p3, end, 129, c.hmac)
  BY ONLY <1>10
<1>14. Laid(b, p3, p4, end, 130, c.hmacsalt)
  BY ONLY <1>10
<1>15. (HasUpTo(c.version, 8) => r1.der = p2) /\ (~HasUpTo(c.version, 8) => r1.der = 0)
  BY ONLY <1>2, <1>3, <1>4, <1>12, NumberPassed
<1> HIDE DEF r1
<1>16. /\ HasUpTo(c.version, 8) /\ Has(c.hmac, HmacLen) => r2.der = p3
       /\ ~(HasUpTo(c.version, 8) /\ Has(c.hmac, HmacLen)) => r2.der = 0
  <2>1. CASE HasUpTo(c.version, 8)
    BY ONLY <1>1, <1>2, <1>3, <1>4, <1>13, <1>15, <2>1, OctetsPassed
  <2>2. CASE ~HasUpTo(c.version, 8)
    BY ONLY <1>4, <1>15, <2>2, NullPassed
  <2> QED BY ONLY <2>1, <2>2
<1> HIDE DEF r2
<1>17. (HeaderWhole(c) => r3.der = p4) /\ (~HeaderWhole(c) => r3.der = 0)
  <2>1. CASE HasUpTo(c.version, 8) /\ Has(c.hmac, HmacLen)
    <3>1. (Has(c.hmacsalt, HmacSaltLen) => r3.der = p4) /\ (~Has(c.hmacsalt, HmacSaltLen) => r3.der = 0)
      BY ONLY <1>1, <1>2, <1>3, <1>4, <1>14, <1>16, <2>1, OctetsPassed
    <3> QED BY ONLY <2>1, <3>1 DEF HeaderWhole
  <2>2. CASE ~(HasUpTo(c.version, 8) /\ Has(c.hmac, HmacLen))
    <3>1. r3.der = 0
      BY ONLY <1>4, <1>16, <2>2, NullPassed
    <3> QED BY ONLY <2>2, <3>1 DEF HeaderWhole
  <2> QED BY ONLY <2>1, <2>2
<1> HIDE DEF r3, fields, H
<1>18. CASE ~HeaderWhole(c)
  BY ONLY <1>5, <1>11, <1>17, <1>18 DEF b, end, H
<1>19. CASE HeaderWhole(c)
  <2>1. H = De!HeaderBody(b, De!der_decode_constructed_tl(163, b, p4, end))
    BY ONLY <1>5, <1>9, <1>10, <1>11, <1>17, <1>19
  <2>2. De!der_decode_constructed_tl(163, b, p4, end) = De!Result(x, end)
    <3>1. Len(NestedFields(c)) \in Nat
      BY NestedType
    <3> QED BY ONLY <1>10, <3>1, ConstructedIs
  <2>3. H = De!HeaderBody(b, De!Result(x, end))
    BY ONLY <2>1, <2>2
  <2>4. /\ NestedWhole(c) =>
             \E q4, q5, q6 \in Nat :
               /\ H = {De!Header(q4, end, c.uuid[1], c.info[1])} /\ q4 # 0
               /\ Laid(b, q4, q5, end, 131, c.wrapped) /\ Laid(b, q5, q6, end, 132, Digits(c.iterations))
               /\ Laid(b, q6, end, end, 133, c.salt)
        /\ ~NestedWhole(c) =>
             \E uuid : \/ H = {De!Header(0, end, uuid, <<>>)}
                       \/ H = {De!Header(0, end, uuid, <<>>), De!Crashed}
    <3>1. LiesAt(b, x, NestedFields(c)) /\ end = x + Len(NestedFields(c))
      BY ONLY <1>10
    <3>2. b \in Seq(Bytes)
      BY ONLY <1>3
    <3>3. end \in Nat
      BY ONLY <1>4
    <3> DEFINE G == De!HeaderBody(b, De!Result(x, end))
    <3>4. /\ NestedWhole(c) =>
               \E q4, q5, q6 \in Nat :
                 /\ G = {De!Header(q4, end, c.uuid[1], c.info[1])} /\ q4 # 0
                 /\ Laid(b, q4, q5, end, 131, c.wrapped) /\ Laid(b, q5, q6, end, 132, Digits(c.iterations))
                 /\ Laid(b, q6, end, end, 133, c.salt)
          /\ ~NestedWhole(c) =>
               \E uuid : \/ G = {De!Header(0, end, uuid, <<>>)}
                         \/ G = {De!Header(0, end, uuid, <<>>), De!Crashed}
      BY ONLY <3>1, <3>2, <3>3, c \in Contents, x \in Nat, Short(Len(NestedFields(c))),
              NestedDecoded, SMTT(60)
    <3>5. H = G
      BY ONLY <2>3
    <3> HIDE DEF G
    <3> QED BY ONLY <3>4, <3>5, Zenon
  <2> QED BY ONLY <1>19, <2>4 DEF b, end, H
<1> QED BY ONLY <1>18, <1>19

(* It finds nothing where the element is cut off.                            *)
LEMMA DecodeTlCut ==
  ASSUME NEW tag \in Bytes, NEW s \in Seq(Bytes), Short(Len(s)), NEW k \in Nat, k < Len(Tlv(tag, s)),
         NEW b, \A i \in 1..k : b[i] = Tlv(tag, s)[i]
  PROVE  De!der_decode_tl(tag, b, 1, k + 1).der = 0
<1> DEFINE n == Len(s)
           l == LengthBytes(n)
           L == Len(l)
           T == Tlv(tag, s)
           r == De!der_decode_len(b, 2, k + 1)
<1>1. n \in Nat /\ Short(n)
  OBVIOUS
<1>2. l \in Seq(Bytes) /\ L \in 1..3
  BY LengthBytesType
<1>3. Len(T) = 1 + L + n /\ k < 1 + L + n /\ T[1] = tag
  BY TlvType
<1>4. \A i \in 1..k : b[i] = T[i]
  OBVIOUS
<1>5. T = <<tag>> \o l \o s
  BY DEF Tlv
<1>6. k + 1 \in Nat
  OBVIOUS
<1> HIDE DEF l, T
<1>7. /\ n < 128 => l = <<n>>
      /\ n \in 128..255 => l = <<129, n>>
      /\ n >= 256 => l = <<130, HighByte(n), LowByte(n)>>
  BY ONLY <1>1, LengthBytesIs DEF l
<1>8. \A i \in 1..L : T[i + 1] = l[i]
  <2> TAKE i \in 1..L
  <2>1. <<tag>> \o l \in Seq(Bytes) /\ Len(<<tag>> \o l) = 1 + L /\ (<<tag>> \o l)[i + 1] = l[i]
    BY ONLY <1>2, tag \in Bytes, i \in 1..L
  <2>2. i + 1 \in 1..Len(<<tag>> \o l)
    BY ONLY <1>2, <2>1, i \in 1..L
  <2>3. (<<tag>> \o l \o s)[i + 1] = (<<tag>> \o l)[i + 1]
    <3> DEFINE t == <<tag>> \o l
    <3> HIDE DEF t
    <3>1. t \in Seq(Bytes) /\ i + 1 \in 1..Len(t)
      BY ONLY <2>1, <2>2 DEF t
    <3>2. (t \o s)[i + 1] = t[i + 1]
      BY ONLY <3>1, s \in Seq(Bytes)
    <3> QED BY ONLY <3>2 DEF t
  <2> QED BY ONLY <1>5, <2>1, <2>3
<1> HIDE DEF n, L, r
<1>9. CASE k = 0
  <2>1. De!der_decode_tl(tag, b, 1, k + 1) = De!Result(0, -1)
    BY ONLY <1>6, <1>9, DecodeTlOther
  <2> QED BY ONLY <2>1 DEF De!Result
<1>10. CASE k > 0
  <2>1. b[1] = tag /\ ~(1 >= k + 1)
    <3>1. 1 \in 1..k /\ ~(1 >= k + 1)
      BY ONLY <1>10, k \in Nat
    <3> QED BY ONLY <1>3, <1>4, <3>1
  <2>2. De!der_decode_tl(tag, b, 1, k + 1) = IF r.der + r.val > k + 1 THEN De!Result(0, r.val) ELSE r
    BY ONLY <2>1 DEF De!der_decode_tl, De!Null, r
  <2>3. CASE 1 + L <= k /\ (n >= 128 => 1 + L < k)
    <3>1. 2 + L <= k + 1 /\ (n >= 128 => 2 + L < k + 1) /\ 2 + L + n > k + 1 /\ 2 \in Nat \ {0}
      BY ONLY <1>1, <1>2, <1>3, <2>3, k \in Nat
    <3>2. \A i \in 1..L : b[2 + i - 1] = l[i]
      <4> TAKE i \in 1..L
      <4>1. i + 1 \in 1..k /\ 2 + i - 1 = i + 1
        BY ONLY <1>2, <2>3, k \in Nat, i \in 1..L
      <4> QED BY ONLY <1>4, <1>8, <4>1, i \in 1..L
    <3>3. r = De!Result(2 + L, n)
      <4>1. 2 + L <= k + 1 /\ (n >= De!LongForm => 2 + L < k + 1) /\ 2 \in Nat \ {0}
        BY ONLY <3>1 DEF De!LongForm
      <4> DEFINE o == 2
                 e == k + 1
      <4>2. \A i \in 1..Len(LengthBytes(n)) : b[o + i - 1] = LengthBytes(n)[i]
        BY ONLY <3>2 DEF l, L
      <4>3. /\ o + Len(LengthBytes(n)) <= e /\ o \in Nat \ {0}
            /\ n >= De!LongForm => o + Len(LengthBytes(n)) < e
        BY ONLY <4>1 DEF l, L
      <4>4. e \in Nat
        BY ONLY <1>6
      <4> HIDE DEF o, e
      <4>5. De!der_decode_len(b, o, e) = De!Result(o + Len(LengthBytes(n)), n)
        BY ONLY <1>1, <4>2, <4>3, <4>4, DecodeLenRight
      <4> QED BY ONLY <4>5 DEF r, l, L, o, e
    <3>4. De!der_decode_tl(tag, b, 1, k + 1) = De!Result(0, n)
      BY ONLY <2>2, <3>1, <3>3 DEF De!Result
    <3> QED BY ONLY <3>4 DEF De!Result
  <2>4. CASE ~(1 + L <= k /\ (n >= 128 => 1 + L < k))
    <3>1. r = De!Result(0, 0)
      <4>1. CASE k = 1
        <5>1. 2 >= k + 1
          BY ONLY <4>1
        <5> QED BY ONLY <5>1 DEF r, De!der_decode_len, De!Null
      <4>2. CASE k # 1
        <5>1. b[2] = l[1] /\ ~(2 >= k + 1)
          <6>1. 1 \in 1..L /\ 1 + 1 = 2 /\ 2 \in 1..k /\ ~(2 >= k + 1)
            BY ONLY <1>2, <1>10, <4>2, k \in Nat
          <6> QED BY ONLY <1>4, <1>8, <6>1
        <5>2. CASE n < 128
          <6>1. L = 1
            BY ONLY <1>7, <5>2 DEF L
          <6> QED BY ONLY <1>1, <1>10, <2>4, <4>2, <5>2, <6>1, k \in Nat
        <5>3. CASE n \in 128..255
          <6>1. L = 2 /\ l[1] = 129
            BY ONLY <1>7, <5>3 DEF L
          <6>2. ~(129 < 128) /\ 2 + 1 + (129 - 128) >= k + 1
            BY ONLY <2>4, <5>3, <6>1, k \in Nat
          <6> QED BY ONLY <5>1, <6>1, <6>2 DEF r, De!der_decode_len, De!Null, De!LongForm
        <5>4. CASE n >= 256
          <6>1. L = 3 /\ l[1] = 130
            BY ONLY <1>7, <5>4 DEF L
          <6>2. ~(130 < 128) /\ 2 + 1 + (130 - 128) >= k + 1
            BY ONLY <2>4, <5>4, <6>1, k \in Nat
          <6> QED BY ONLY <5>1, <6>1, <6>2 DEF r, De!der_decode_len, De!Null, De!LongForm
        <5> QED BY ONLY <1>1, <5>2, <5>3, <5>4
      <4> QED BY ONLY <4>1, <4>2
    <3>2. ~(0 + 0 > k + 1)
      BY ONLY k \in Nat
    <3> QED BY ONLY <2>2, <3>1, <3>2 DEF De!Result
  <2> QED BY ONLY <2>3, <2>4
<1> QED BY ONLY <1>9, <1>10, k \in Nat

(* What is returned of a header that is refused, or that may crash.          *)
LEMMA HeaderRefused ==
  ASSUME NEW b, NEW end, NEW uuid
  PROVE  LET H == De!DecodeKeyHeader(b, 1, Len(b) + 1)
             R == De!Header(0, end, uuid, <<>>)
         IN /\ H = {R} => De!DecodeKEK(b) = {De!Rejected} /\ De!DecodeVEK(b) = {De!Rejected}
            /\ H = {R, De!Crashed} => /\ De!DecodeKEK(b) = {De!Rejected, De!Crashed}
                                      /\ De!DecodeVEK(b) = {De!Rejected, De!Crashed}
<1> DEFINE H == De!DecodeKeyHeader(b, 1, Len(b) + 1)
           R == De!Header(0, end, uuid, <<>>)
           C == De!Crashed
           J == De!Rejected
           A == De!AfterHeader(b)
           F == De!Refused(b)
<1>1. R.der = 0 /\ R # C
  BY DEF De!Header, De!Crashed
<1>2. A = {h \in H : h # C /\ h.der # 0} /\ F = {IF h = C THEN C ELSE J : h \in H \ A}
  BY DEF De!AfterHeader, De!Refused, De!Null
<1>3. A = {} => De!DecodeKEK(b) = F /\ De!DecodeVEK(b) = F
  BY DEF De!DecodeKEK, De!DecodeVEK
<1> HIDE DEF H, R, C, J, A, F
<1>4. H = {R} => A = {} /\ F = {J}
  <2> SUFFICES ASSUME H = {R} PROVE A = {} /\ F = {J}
    OBVIOUS
  <2>1. A = {}
    BY ONLY <1>1, <1>2, H = {R}
  <2> QED BY ONLY <1>1, <1>2, <2>1, H = {R}
<1>5. H = {R, C} => A = {} /\ F = {J, C}
  <2> SUFFICES ASSUME H = {R, C} PROVE A = {} /\ F = {J, C}
    OBVIOUS
  <2>1. A = {}
    BY ONLY <1>1, <1>2, H = {R, C}
  <2>2. H \ A = {R, C}
    BY ONLY <2>1, H = {R, C}
  <2>3. F = {IF h = C THEN C ELSE J : h \in {R, C}}
    BY ONLY <1>2, <2>2
  <2> QED BY ONLY <1>1, <2>1, <2>3
<1> QED BY ONLY <1>3, <1>4, <1>5 DEF H, R, C, J

(* What follows a header that was read.                                      *)
LEMMA HeaderRead ==
  ASSUME NEW b, NEW p \in Nat \ {0}, NEW end, NEW uuid, NEW info,
         De!DecodeKeyHeader(b, 1, Len(b) + 1) = {De!Header(p, end, uuid, info)}
  PROVE  LET r == De!DecodeFields(<<De!Octets(De!Tag(3), WrappedLen), De!Uint64(De!Tag(4)),
                                    De!Octets(De!Tag(5), KdfSaltLen)>>, b, p, end)
             v == De!der_decode_octet_string_copy(De!Tag(3), WrappedLen, b, p, Len(b) + 1)
         IN /\ De!DecodeKEK(b) =
                 {IF r.der = 0 THEN De!Rejected
                  ELSE [uuid |-> uuid, info |-> info, wrapped |-> r.val[1],
                        iterations |-> r.val[2], salt |-> r.val[3]]}
            /\ De!DecodeVEK(b) =
                 {IF v.der = 0 THEN De!Rejected ELSE [uuid |-> uuid, info |-> info, wrapped |-> v.val]}
<1> DEFINE G == De!Header(p, end, uuid, info)
           C == De!Crashed
           A == De!AfterHeader(b)
           F == De!Refused(b)
<1>1. G.der = p /\ G.end = end /\ G.uuid = uuid /\ G.info = info /\ G # C
  BY DEF De!Header, De!Crashed
<1>2. A = {h \in {G} : h # C /\ h.der # 0}
  BY DEF De!AfterHeader, De!Null
<1>3. F = {IF h = C THEN C ELSE De!Rejected : h \in {G} \ A}
  BY DEF De!Refused
<1>4. A = {G} /\ F = {}
  <2> HIDE DEF G, C, A, F
  <2>1. A = {G}
    BY ONLY <1>1, <1>2, p \in Nat \ {0}
  <2> QED BY ONLY <1>3, <2>1
<1> DEFINE kek(h) == LET r == De!DecodeFields(<<De!Octets(De!Tag(3), WrappedLen), De!Uint64(De!Tag(4)),
                                    De!Octets(De!Tag(5), KdfSaltLen)>>, b, h.der, h.end)
                     IN IF r.der = 0 THEN De!Rejected
                        ELSE [uuid |-> h.uuid, info |-> h.info, wrapped |-> r.val[1],
                              iterations |-> r.val[2], salt |-> r.val[3]]
           vek(h) == LET r == De!der_decode_octet_string_copy(De!Tag(3), WrappedLen, b, h.der, Len(b) + 1)
                     IN IF r.der = 0 THEN De!Rejected
                        ELSE [uuid |-> h.uuid, info |-> h.info, wrapped |-> r.val]
<1>5. De!DecodeKEK(b) = F \cup {kek(h) : h \in A}
  BY DEF De!DecodeKEK, De!Null
<1>6. De!DecodeVEK(b) = F \cup {vek(h) : h \in A}
  BY DEF De!DecodeVEK, De!Null
<1>7. De!DecodeKEK(b) = {kek(G)} /\ De!DecodeVEK(b) = {vek(G)}
  <2> HIDE DEF G, A, F, kek, vek
  <2> QED BY ONLY <1>4, <1>5, <1>6
<1> HIDE DEF G
<1> QED BY ONLY <1>1, <1>7

(* A number that was put in up to eight bytes is read again.                 *)
LEMMA DigitsRead ==
  ASSUME NEW b \in Seq(Bytes), NEW p, NEW q, NEW end \in Nat, NEW tag \in Bytes, NEW f \in Field(Numbers),
         Laid(b, p, q, end, tag, Digits(f))
  PROVE  LET r == De!der_decode_uint64(tag, b, p, end)
         IN /\ Present(f) /\ f[1][2] <= 8 => r.der = q /\ q # 0 /\ r.val = f[1][1]
            /\ ~(Present(f) /\ f[1][2] <= 8) => r.der = 0
<1> DEFINE r == De!der_decode_uint64(tag, b, p, end)
           g == Digits(f)
<1>1. /\ HasUpTo(g, 8) => r = De!Result(q, Horner(b, q - Len(g[1]), Len(g[1]))) /\ q # 0
      /\ ~HasUpTo(g, 8) => r = De!Result(0, 0)
  BY NumberFound
<1>2. Present(g) => LiesAt(b, q - Len(g[1]), g[1]) /\ q - Len(g[1]) \in Nat
  BY FieldFound
<1>3. /\ Present(g) <=> Present(f)
      /\ Present(f) => /\ f[1][1] \in Nat /\ f[1][2] \in Nat /\ g[1] = BigEndian(f[1][1], f[1][2])
                       /\ Len(g[1]) = f[1][2] /\ Quotients(f[1][1], f[1][2])[f[1][2]] = 0
  BY DigitsType
<1> HIDE DEF r, g
<1>4. HasUpTo(g, 8) <=> Present(f) /\ f[1][2] <= 8
  BY ONLY <1>3 DEF HasUpTo
<1>5. CASE Present(f) /\ f[1][2] <= 8
  <2> DEFINE n == f[1][1]
             w == f[1][2]
             o == q - Len(g[1])
  <2>1. /\ n \in Nat /\ w \in Nat /\ g[1] = BigEndian(n, w) /\ Len(g[1]) = w
        /\ Quotients(n, w)[w] = 0 /\ LiesAt(b, o, g[1]) /\ o \in Nat
    BY ONLY <1>2, <1>3, <1>5
  <2> HIDE DEF n, w, o
  <2>2. \A i \in 1..w : b[o + i - 1] = BigEndian(n, w)[i]
    BY ONLY <2>1 DEF LiesAt
  <2>3. Horner(b, o, w) = n
    BY ONLY <2>1, <2>2, NumberRead
  <2>4. r = De!Result(q, Horner(b, o, w)) /\ q # 0
    BY ONLY <1>1, <1>4, <1>5, <2>1 DEF o
  <2>5. r.der = q /\ r.val = n
    BY ONLY <2>3, <2>4 DEF De!Result
  <2> QED BY ONLY <1>5, <2>4, <2>5 DEF n, r
<1>6. CASE ~(Present(f) /\ f[1][2] <= 8)
  <2>1. r.der = 0
    BY ONLY <1>1, <1>4, <1>6 DEF De!Result
  <2> QED BY ONLY <1>6, <2>1 DEF r
<1> QED BY ONLY <1>5, <1>6

\* What was read of the fields of a key, as a key encryption key and as a volume encryption key.
KeyRead(r, v, c) ==
  /\ KeyWhole(c, TRUE) => /\ r.der # 0 /\ r.val[1] = c.wrapped[1]
                          /\ r.val[2] = c.iterations[1][1] /\ r.val[3] = c.salt[1]
  /\ ~KeyWhole(c, TRUE) => r.der = 0
  /\ KeyWhole(c, FALSE) => v.der # 0 /\ v.val = c.wrapped[1]
  /\ ~KeyWhole(c, FALSE) => v.der = 0

(* The fields of a key behind its header.                                    *)
LEMMA KeyFields ==
  ASSUME NEW b \in Seq(Bytes), NEW c \in Contents, NEW end \in Nat, NEW p4, NEW p5, NEW p6,
         Laid(b, p4, p5, end, 131, c.wrapped), Laid(b, p5, p6, end, 132, Digits(c.iterations)),
         Laid(b, p6, end, end, 133, c.salt)
  PROVE  KeyRead(De!DecodeFields(<<De!Octets(De!Tag(3), WrappedLen), De!Uint64(De!Tag(4)),
                                   De!Octets(De!Tag(5), KdfSaltLen)>>, b, p4, end),
                 De!der_decode_octet_string_copy(De!Tag(3), WrappedLen, b, p4, end), c)
<1>1. WrappedLen \in Nat \ {0} /\ KdfSaltLen \in Nat \ {0}
  BY KeybagAssumption
<1>2. /\ 131 \in Bytes /\ 132 \in Bytes /\ 133 \in Bytes
      /\ De!Tag(3) = 131 /\ De!Tag(4) = 132 /\ De!Tag(5) = 133
  BY ONLY DEF Bytes, De!Tag
<1>3. c.iterations \in Field(Numbers)
  BY DEF Contents
<1> DEFINE f == De!Octets(131, WrappedLen)
           g == De!Uint64(132)
           k == De!Octets(133, KdfSaltLen)
           r1 == De!der_decode_octet_string_copy(131, WrappedLen, b, p4, end)
           r2 == De!der_decode_uint64(132, b, r1.der, end)
           r3 == De!der_decode_octet_string_copy(133, KdfSaltLen, b, r2.der, end)
           r == De!DecodeFields(<<f, g, k>>, b, p4, end)
           W == Has(c.wrapped, WrappedLen)
           I == Present(c.iterations) /\ c.iterations[1][2] <= 8
           S == Has(c.salt, KdfSaltLen)
<1>4. De!DecodeField(f, b, p4, end) = r1
  BY ONLY <1>1, FieldKinds
<1>5. De!DecodeField(g, b, r1.der, end) = r2
  BY ONLY <1>1, FieldKinds
<1>6. De!DecodeField(k, b, r2.der, end) = r3
  BY ONLY <1>1, FieldKinds
<1>7. r.der = r3.der /\ r.val[1] = r1.val /\ r.val[2] = r2.val /\ r.val[3] = r3.val
  <2> DEFINE fields == De!DecodeFields(<<f, g, k>>, b, p4, end)
  <2> HIDE DEF f, g, k, r1, r2, r3
  <2>1. LET x1 == De!DecodeField(f, b, p4, end)
            x2 == De!DecodeField(g, b, x1.der, end)
            x3 == De!DecodeField(k, b, x2.der, end)
            x == De!DecodeFields(<<f, g, k>>, b, p4, end)
        IN x.der = x3.der /\ x.val[1] = x1.val /\ x.val[2] = x2.val /\ x.val[3] = x3.val
    BY ONLY ThreeFields
  <2> QED BY ONLY <1>4, <1>5, <1>6, <2>1
<1>8. (W => r1.der = p5 /\ p5 # 0 /\ r1.val = c.wrapped[1]) /\ (~W => r1.der = 0)
  <2>1. Laid(b, p4, p5, end, 131, c.wrapped)
    OBVIOUS
  <2> QED BY ONLY <1>1, <1>2, <2>1, b \in Seq(Bytes), end \in Nat, OctetsPassed
<1>9. /\ KeyWhole(c, FALSE) <=> W
      /\ KeyWhole(c, TRUE) <=> W /\ I /\ S
  BY ONLY DEF KeyWhole
<1>10. /\ W /\ I => r2.der = p6 /\ p6 # 0 /\ r2.val = c.iterations[1][1]
       /\ ~(W /\ I) => r2.der = 0
  <2>1. Laid(b, p5, p6, end, 132, Digits(c.iterations))
    OBVIOUS
  <2>2. CASE W
    <3>1. r1.der = p5
      BY ONLY <1>8, <2>2
    <3> HIDE DEF r1
    <3>2. (I => r2.der = p6 /\ p6 # 0 /\ r2.val = c.iterations[1][1]) /\ (~I => r2.der = 0)
      BY ONLY <1>2, <1>3, <2>1, <3>1, b \in Seq(Bytes), end \in Nat, DigitsRead
    <3> HIDE DEF r2, W, I
    <3> QED BY ONLY <2>2, <3>2
  <2>3. CASE ~W
    <3>1. r1.der = 0
      BY ONLY <1>8, <2>3
    <3> HIDE DEF r1, W, I
    <3>2. r2.der = 0
      <4>1. De!der_decode_uint64(132, b, 0, end).der = 0
        BY ONLY ZenonT(30), end \in Nat, NullPassed
      <4> QED BY ONLY <3>1, <4>1
    <3> QED BY ONLY <2>3, <3>2
  <2> QED BY ONLY <2>2, <2>3
<1>11. /\ W /\ I /\ S => r3.der = end /\ end # 0 /\ r3.val = c.salt[1]
       /\ ~(W /\ I /\ S) => r3.der = 0
  <2>1. Laid(b, p6, end, end, 133, c.salt)
    OBVIOUS
  <2> HIDE DEF r1, W, I
  <2>2. CASE W /\ I
    <3>1. r2.der = p6
      BY ONLY <1>10, <2>2
    <3> HIDE DEF r2
    <3>2. (S => r3.der = end /\ end # 0 /\ r3.val = c.salt[1]) /\ (~S => r3.der = 0)
      BY ONLY <1>1, <1>2, <2>1, <3>1, b \in Seq(Bytes), end \in Nat, OctetsPassed
    <3> HIDE DEF r3, S
    <3> QED BY ONLY <2>2, <3>2
  <2>3. CASE ~(W /\ I)
    <3>1. r2.der = 0
      BY ONLY <1>10, <2>3
    <3> HIDE DEF r2, S
    <3>2. r3.der = 0
      <4>1. De!der_decode_octet_string_copy(133, KdfSaltLen, b, 0, end).der = 0
        BY ONLY end \in Nat, NullPassed
      <4> QED BY ONLY <3>1, <4>1
    <3> QED BY ONLY <2>3, <3>2
  <2> QED BY ONLY <2>2, <2>3
<1>12. /\ De!DecodeFields(<<De!Octets(De!Tag(3), WrappedLen), De!Uint64(De!Tag(4)),
                            De!Octets(De!Tag(5), KdfSaltLen)>>, b, p4, end) = r
       /\ De!der_decode_octet_string_copy(De!Tag(3), WrappedLen, b, p4, end) = r1
  BY ONLY <1>2
<1> HIDE DEF r, r1, r2, r3, W, I, S
<1>13. KeyRead(r, r1, c)
  BY ONLY <1>7, <1>8, <1>9, <1>10, <1>11 DEF KeyRead
<1> QED BY ONLY <1>12, <1>13

(* What is decoded of a blob that is not cut off.                            *)
LEMMA DecodeWhole ==
  ASSUME NEW c \in Contents, Short(Len(NestedFields(c))), Short(Len(OuterFields(c))), NEW kek \in BOOLEAN
  PROVE  LET d == IF kek THEN De!DecodeKEK(Blob(c)) ELSE De!DecodeVEK(Blob(c))
         IN /\ ~HeaderWhole(c) => d = {De!Rejected}
            /\ HeaderWhole(c) /\ ~NestedWhole(c) => d # {} /\ d \subseteq {De!Rejected, De!Crashed}
            /\ HeaderWhole(c) /\ NestedWhole(c) /\ ~KeyWhole(c, kek) => d = {De!Rejected}
            /\ HeaderWhole(c) /\ NestedWhole(c) /\ KeyWhole(c, kek) => d = {KeyIn(c, kek)}
<1> DEFINE b == Blob(c)
           end == Len(b) + 1
           H == De!DecodeKeyHeader(b, 1, end)
           K == De!DecodeKEK(b)
           V == De!DecodeVEK(b)
           J == De!Rejected
           C == De!Crashed
<1>1. /\ ~HeaderWhole(c) => H = {De!Header(0, end, <<>>, <<>>)}
      /\ HeaderWhole(c) /\ NestedWhole(c) =>
           \E p4, p5, p6 \in Nat :
             /\ H = {De!Header(p4, end, c.uuid[1], c.info[1])} /\ p4 # 0
             /\ Laid(b, p4, p5, end, 131, c.wrapped) /\ Laid(b, p5, p6, end, 132, Digits(c.iterations))
             /\ Laid(b, p6, end, end, 133, c.salt)
      /\ HeaderWhole(c) /\ ~NestedWhole(c) =>
           \E uuid : H = {De!Header(0, end, uuid, <<>>)} \/ H = {De!Header(0, end, uuid, <<>>), C}
  BY HeaderDecoded
<1>2. b \in Seq(Bytes)
  BY BlobType
<1>3. end \in Nat
  <2> HIDE DEF b
  <2> QED BY ONLY <1>2
<1> HIDE DEF b, end, H
<1>4. ASSUME NEW uuid
      PROVE  /\ H = {De!Header(0, end, uuid, <<>>)} => K = {J} /\ V = {J}
             /\ H = {De!Header(0, end, uuid, <<>>), C} => K = {J, C} /\ V = {J, C}
  BY ONLY HeaderRefused DEF H, end
<1> HIDE DEF K, V, J, C
<1>5. CASE ~HeaderWhole(c)
  <2>1. K = {J} /\ V = {J}
    BY ONLY <1>1, <1>4, <1>5
  <2> QED BY ONLY <1>5, <2>1 DEF b, K, V, J
<1>6. CASE HeaderWhole(c) /\ ~NestedWhole(c)
  <2>1. PICK uuid : H = {De!Header(0, end, uuid, <<>>)} \/ H = {De!Header(0, end, uuid, <<>>), C}
    BY ONLY <1>1, <1>6
  <2>2. (K = {J} /\ V = {J}) \/ (K = {J, C} /\ V = {J, C})
    BY ONLY <1>4, <2>1
  <2>3. K # {} /\ K \subseteq {J, C} /\ V # {} /\ V \subseteq {J, C}
    BY ONLY <2>2
  <2> QED BY ONLY <1>6, <2>3 DEF b, K, V, J, C
<1>7. CASE HeaderWhole(c) /\ NestedWhole(c)
  <2>1. PICK p4, p5, p6 \in Nat :
          /\ H = {De!Header(p4, end, c.uuid[1], c.info[1])} /\ p4 # 0
          /\ Laid(b, p4, p5, end, 131, c.wrapped) /\ Laid(b, p5, p6, end, 132, Digits(c.iterations))
          /\ Laid(b, p6, end, end, 133, c.salt)
    BY ONLY <1>1, <1>7
  <2> DEFINE r == De!DecodeFields(<<De!Octets(De!Tag(3), WrappedLen), De!Uint64(De!Tag(4)),
                                    De!Octets(De!Tag(5), KdfSaltLen)>>, b, p4, end)
             v == De!der_decode_octet_string_copy(De!Tag(3), WrappedLen, b, p4, end)
  <2>2. /\ K = {IF r.der = 0 THEN J
                ELSE [uuid |-> c.uuid[1], info |-> c.info[1], wrapped |-> r.val[1],
                      iterations |-> r.val[2], salt |-> r.val[3]]}
        /\ V = {IF v.der = 0 THEN J ELSE [uuid |-> c.uuid[1], info |-> c.info[1], wrapped |-> v.val]}
    <3>1. p4 \in Nat \ {0} /\ De!DecodeKeyHeader(b, 1, Len(b) + 1) = {De!Header(p4, end, c.uuid[1], c.info[1])}
      BY ONLY <2>1, p4 \in Nat DEF H, end
    <3> QED BY ONLY <3>1, HeaderRead DEF K, V, J, end
  <2>3. KeyRead(r, v, c)
    <3>1. Laid(b, p4, p5, end, 131, c.wrapped)
      BY ONLY <2>1
    <3>2. Laid(b, p5, p6, end, 132, Digits(c.iterations))
      BY ONLY <2>1
    <3>3. Laid(b, p6, end, end, 133, c.salt)
      BY ONLY <2>1
    <3> QED BY ONLY <1>2, <1>3, <3>1, <3>2, <3>3, c \in Contents, KeyFields, Zenon
  <2> HIDE DEF r, v
  <2>4. (KeyWhole(c, TRUE) => K = {KeyIn(c, TRUE)}) /\ (~KeyWhole(c, TRUE) => K = {J})
    BY ONLY <2>2, <2>3 DEF KeyIn, KeyRead
  <2>5. (KeyWhole(c, FALSE) => V = {KeyIn(c, FALSE)}) /\ (~KeyWhole(c, FALSE) => V = {J})
    BY ONLY <2>2, <2>3 DEF KeyIn, KeyRead
  <2>6. CASE kek = TRUE
    BY ONLY <1>7, <2>4, <2>6 DEF b, K, J
  <2>7. CASE kek = FALSE
    BY ONLY <1>7, <2>5, <2>7 DEF b, V, J
  <2> QED BY ONLY <2>6, <2>7, kek \in BOOLEAN
<1> QED BY ONLY <1>5, <1>6, <1>7

(* What is decoded of a blob that is cut off: nothing.                       *)
LEMMA DecodeCut ==
  ASSUME NEW c \in Contents, Short(Len(NestedFields(c))), Short(Len(OuterFields(c))),
         NEW k \in Nat, k < Len(Blob(c)), NEW kek \in BOOLEAN
  PROVE  LET b == SubSeq(Blob(c), 1, k)
         IN (IF kek THEN De!DecodeKEK(b) ELSE De!DecodeVEK(b)) = {De!Rejected}
<1> DEFINE T == Blob(c)
           b == SubSeq(T, 1, k)
           s == OuterFields(c)
           H == De!DecodeKeyHeader(b, 1, Len(b) + 1)
           seq == De!der_decode_constructed_tl(De!Sequence, b, 1, Len(b) + 1)
           f == De!Uint64(De!Tag(0))
           g == De!Octets(De!Tag(1), HmacLen)
           h == De!Octets(De!Tag(2), HmacSaltLen)
           fields == De!DecodeFields(<<f, g, h>>, b, seq.der, seq.val)
<1>1. T \in Seq(Bytes) /\ s \in Seq(Bytes) /\ T = Tlv(48, s) /\ k < Len(T) /\ Short(Len(s))
  BY BlobType DEF Blob
<1>2. 48 \in Bytes /\ De!Sequence = 48
  BY ONLY DEF Bytes, De!Sequence
<1>3. HmacLen \in Nat \ {0} /\ HmacSaltLen \in Nat \ {0}
  BY KeybagAssumption
<1> HIDE DEF T, s
<1>4. Len(b) = k /\ \A i \in 1..k : b[i] = T[i]
  BY ONLY <1>1, k \in Nat
<1> HIDE DEF b
<1>5. De!der_decode_tl(48, b, 1, k + 1).der = 0
  <2>1. k < Len(Tlv(48, s)) /\ \A i \in 1..k : b[i] = Tlv(48, s)[i]
    BY ONLY <1>1, <1>4
  <2>2. s \in Seq(Bytes) /\ Short(Len(s))
    BY ONLY <1>1
  <2> QED BY ONLY <1>2, <2>1, <2>2, k \in Nat, DecodeTlCut
<1>6. seq = De!Result(0, 0)
  BY ONLY <1>2, <1>4, <1>5 DEF De!der_decode_constructed_tl, De!Null
<1>7. seq.der = 0 /\ seq.val = 0
  BY ONLY <1>6 DEF De!Result
<1> HIDE DEF seq
<1> DEFINE r1 == De!der_decode_uint64(De!Tag(0), b, 0, 0)
           r2 == De!der_decode_octet_string_copy(De!Tag(1), HmacLen, b, r1.der, 0)
           r3 == De!der_decode_octet_string_copy(De!Tag(2), HmacSaltLen, b, r2.der, 0)
<1>8. fields.der = r3.der
  <2>1. De!DecodeField(f, b, 0, 0) = r1
    BY ONLY <1>3, FieldKinds
  <2>2. De!DecodeField(g, b, r1.der, 0) = r2
    BY ONLY <1>3, FieldKinds
  <2>3. De!DecodeField(h, b, r2.der, 0) = r3
    BY ONLY <1>3, FieldKinds
  <2> HIDE DEF f, g, h, r1, r2, r3
  <2>4. LET x1 == De!DecodeField(f, b, 0, 0)
            x2 == De!DecodeField(g, b, x1.der, 0)
            x3 == De!DecodeField(h, b, x2.der, 0)
            x == De!DecodeFields(<<f, g, h>>, b, 0, 0)
        IN x.der = x3.der /\ x.val[1] = x1.val /\ x.val[2] = x2.val /\ x.val[3] = x3.val
    BY ONLY ThreeFields
  <2>5. De!DecodeFields(<<f, g, h>>, b, 0, 0).der = r3.der
    BY ONLY <2>1, <2>2, <2>3, <2>4
  <2> QED BY ONLY <1>7, <2>5
<1>9. 0 \in Nat
  OBVIOUS
<1>10. r1.der = 0
  BY ONLY <1>9, NullPassed
<1> HIDE DEF r1
<1>11. r2.der = 0
  <2>1. De!der_decode_octet_string_copy(De!Tag(1), HmacLen, b, 0, 0).der = 0
    BY ONLY <1>9, NullPassed
  <2> QED BY ONLY <1>10, <2>1
<1> HIDE DEF r2
<1>12. r3.der = 0
  <2>1. De!der_decode_octet_string_copy(De!Tag(2), HmacSaltLen, b, 0, 0).der = 0
    BY ONLY <1>9, NullPassed
  <2> QED BY ONLY <1>11, <2>1
<1> HIDE DEF r3
<1>13. H = {De!Header(0, Len(b) + 1, <<>>, <<>>)}
  <2>1. fields.der = 0
    BY ONLY <1>8, <1>12
  <2>2. H = IF fields.der = 0 THEN {De!Header(0, Len(b) + 1, <<>>, <<>>)}
            ELSE De!HeaderBody(b, De!der_decode_constructed_tl(De!Nested, b, fields.der, seq.val))
    BY ONLY DEF De!DecodeKeyHeader, De!Null, seq
  <2> QED BY ONLY <2>1, <2>2
<1>14. De!DecodeKEK(b) = {De!Rejected} /\ De!DecodeVEK(b) = {De!Rejected}
  BY ONLY <1>13, HeaderRefused
<1> QED BY ONLY <1>14 DEF b, T

(* A call of DecodeKEK or DecodeVEK.                                         *)
LEMMA DecodeKeyRight ==
  ASSUME CallDecodeKey
  PROVE  HeadersWhole'
<1>1. PICK c \in Keybag, kek \in BOOLEAN : \E k \in 0..Len(Blob(c)) :
        /\ call' = [op |-> "DecodeKey", kek |-> kek, contents |-> c, cut |-> Len(Blob(c)) - k]
        /\ result' = LET b == SubSeq(Blob(c), 1, k) IN IF kek THEN De!DecodeKEK(b) ELSE De!DecodeVEK(b)
  BY DEF CallDecodeKey
<1> DEFINE T == Blob(c)
           d(b) == IF kek THEN De!DecodeKEK(b) ELSE De!DecodeVEK(b)
           J == De!Rejected
           C == De!Crashed
<1>2. PICK k \in 0..Len(T) :
        /\ call' = [op |-> "DecodeKey", kek |-> kek, contents |-> c, cut |-> Len(T) - k]
        /\ result' = d(SubSeq(T, 1, k))
  BY <1>1
<1>3. c \in Contents /\ Short(Len(NestedFields(c))) /\ Short(Len(OuterFields(c)))
  BY KeybagAssumption
<1>4. T \in Seq(Bytes)
  BY ONLY <1>3, BlobType
<1>5. /\ ~HeaderWhole(c) => d(T) = {J}
      /\ HeaderWhole(c) /\ ~NestedWhole(c) => d(T) # {} /\ d(T) \subseteq {J, C}
      /\ HeaderWhole(c) /\ NestedWhole(c) /\ ~KeyWhole(c, kek) => d(T) = {J}
      /\ HeaderWhole(c) /\ NestedWhole(c) /\ KeyWhole(c, kek) => d(T) = {KeyIn(c, kek)}
  BY ONLY <1>3, kek \in BOOLEAN, DecodeWhole
<1>6. k < Len(T) => d(SubSeq(T, 1, k)) = {J}
  <2>1. k \in Nat
    BY ONLY k \in 0..Len(T)
  <2> QED BY ONLY <1>3, <2>1, kek \in BOOLEAN, DecodeCut
<1> HIDE DEF T, d
<1>7. Len(T) - k > 0 \/ (Len(T) - k = 0 /\ SubSeq(T, 1, k) = T)
  <2>1. Len(T) \in Nat
    BY ONLY <1>4
  <2>2. CASE k = Len(T)
    BY ONLY <1>4, <2>1, <2>2
  <2> QED BY ONLY <2>1, <2>2, k \in 0..Len(T)
<1>8. Len(T) - k > 0 => k < Len(T)
  BY ONLY <1>4, k \in 0..Len(T)
<1> DEFINE cut == Len(T) - k
<1>9. /\ call'.op = "DecodeKey" /\ call'.kek = kek /\ call'.contents = c /\ call'.cut = cut
      /\ result' = d(SubSeq(T, 1, k))
  BY ONLY <1>2
<1>10. /\ cut > 0 => result' = {J}
       /\ cut = 0 => result' = d(T)
       /\ cut > 0 \/ cut = 0
       /\ ~(cut > 0 /\ cut = 0)
  <2> HIDE DEF J
  <2>1. ~(cut > 0 /\ cut = 0)
    BY ONLY <1>4, k \in 0..Len(T)
  <2> HIDE DEF cut
  <2> QED BY ONLY <1>6, <1>7, <1>8, <1>9, <2>1 DEF cut
<1> HIDE DEF cut
<1> DEFINE P == HeaderWhole(c)
           Q == NestedWhole(c)
           R == KeyWhole(c, kek)
           I == KeyIn(c, kek)
<1>11. HeadersWhole' <=>
         CASE cut > 0 \/ ~P -> result' = {J}
           [] cut = 0 /\ P /\ ~Q -> result' # {} /\ result' \subseteq {J, C}
           [] cut = 0 /\ P /\ Q /\ ~R -> result' = {J}
           [] OTHER -> result' = {I}
  BY ONLY <1>9 DEF HeadersWhole
<1> HIDE DEF P, Q, R, I, J, C
<1>12. CASE cut > 0
  BY ONLY <1>10, <1>11, <1>12
<1>13. CASE cut = 0
  <2>1. /\ ~P => result' = {J}
        /\ P /\ ~Q => result' # {} /\ result' \subseteq {J, C}
        /\ P /\ Q /\ ~R => result' = {J}
        /\ P /\ Q /\ R => result' = {I}
    BY ONLY <1>5, <1>10, <1>13 DEF P, Q, R, I
  <2>2. CASE ~P
    BY ONLY <1>11, <2>1, <2>2
  <2>3. CASE P /\ ~Q
    BY ONLY <1>10, <1>11, <1>13, <2>1, <2>3
  <2>4. CASE P /\ Q /\ ~R
    BY ONLY <1>10, <1>11, <1>13, <2>1, <2>4
  <2>5. CASE P /\ Q /\ R
    BY ONLY <1>10, <1>11, <1>13, <2>1, <2>5
  <2> QED BY ONLY <2>2, <2>3, <2>4, <2>5
<1> QED BY ONLY <1>10, <1>12, <1>13

(* DecodeKEK and DecodeVEK give the key that was encoded, for fields of       *)
(* every length that two bytes hold and every number of iterations; a blob   *)
(* that is cut off anywhere, that lacks a field or has one of another length *)
(* is refused.  Only a header whose own fields are wrong may crash.          *)
THEOREM HeadersAreWhole == CodecsSpec => []HeadersWhole
<1>1. CodecsInit => HeadersWhole
  BY DEF CodecsInit, HeadersWhole, Nothing
<1>2. HeadersWhole /\ [CodecsNext]_vars => HeadersWhole'
  <2> SUFFICES ASSUME HeadersWhole, [CodecsNext]_vars PROVE HeadersWhole'
    OBVIOUS
  <2>1. CASE CallDecodeKey
    BY <2>1, DecodeKeyRight
  <2>2. CASE \/ CallUpdate \/ CallPBKDF2 \/ CallUnwrap \/ CallDecryptBlocks \/ CallVerifyBlock
             \/ CallDecompressADC \/ Return
    <3>1. call'.op # "DecodeKey"
      BY <2>2, OtherCalls
    <3> QED BY <3>1 DEF HeadersWhole
  <2>3. CASE UNCHANGED vars
    BY <2>3 DEF vars, HeadersWhole
  <2> QED BY <2>1, <2>2, <2>3 DEF CodecsNext
<1> QED BY <1>1, <1>2, PTL DEF CodecsSpec
=============================================================================
