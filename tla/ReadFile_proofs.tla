--------------------------- MODULE ReadFile_proofs ---------------------------
(***************************************************************************)
(* Proof that a reply has the bytes of the file, for every block size and   *)
(* every volume that maps its files from start to end.                      *)
(***************************************************************************)
EXTENDS ReadFile, WellFoundedInduction, TLAPS

-----------------------------------------------------------------------------
(* Blocks and parts of them.                                                *)

(* Division by the size of a block.                                         *)
LEMMA Euclid ==
  ASSUME NEW a \in Nat
  PROVE  /\ a \div BlkSize \in Nat /\ a % BlkSize \in 0..(BlkSize - 1)
         /\ a = BlkSize * (a \div BlkSize) + (a % BlkSize)
         /\ BlkSize * (a \div BlkSize) \in Nat
<1>1. BlkSize \in Nat /\ BlkSize > 0
  BY BlkSizeAssumption
<1> DEFINE q == a \div BlkSize
           r == a % BlkSize
<1>2. q \in Nat /\ r \in 0..(BlkSize - 1) /\ a = BlkSize * q + r
  BY <1>1
<1> HIDE DEF q, r
<1>3. BlkSize * q \in Nat
  BY <1>1, <1>2
<1> QED BY <1>2, <1>3 DEF q, r

(* Blocks are ordered like their first bytes.                               *)
LEMMA Times ==
  ASSUME NEW p \in Int, NEW q \in Int
  PROVE  /\ BlkSize * p \in Int /\ BlkSize * q \in Int
         /\ p < q => BlkSize * p + BlkSize <= BlkSize * q
         /\ BlkSize * (p + q) = BlkSize * p + BlkSize * q
         /\ BlkSize * q = q * BlkSize
<1>1. BlkSize \in Nat
  BY BlkSizeAssumption
<1>2. BlkSize * p \in Int /\ BlkSize * q \in Int /\ BlkSize * q = q * BlkSize
  BY <1>1
<1>3. BlkSize * (p + q) = BlkSize * p + BlkSize * q
  BY <1>1
<1>4. ASSUME p < q PROVE BlkSize * p + BlkSize <= BlkSize * q
  <2> DEFINE d == q - p - 1
  <2>1. d \in Nat /\ q = p + d + 1
    BY <1>4
  <2> HIDE DEF d
  <2>2. BlkSize * d \in Nat
    BY <1>1, <2>1
  <2>3. BlkSize * (p + d + 1) = BlkSize * p + BlkSize * d + BlkSize
    BY <1>1, <2>1
  <2> QED BY <1>1, <1>2, <2>1, <2>2, <2>3
<1> QED BY <1>2, <1>3, <1>4

(* A byte is in one place of one block.                                     *)
LEMMA Unique ==
  ASSUME NEW a \in Nat, NEW q \in Int, NEW r \in 0..(BlkSize - 1), a = BlkSize * q + r
  PROVE  a \div BlkSize = q /\ a % BlkSize = r
<1> DEFINE p == a \div BlkSize
           s == a % BlkSize
<1>1. BlkSize \in Nat /\ BlkSize > 0
  BY BlkSizeAssumption
<1>2. p \in Nat /\ s \in 0..(BlkSize - 1) /\ a = BlkSize * p + s
  BY Euclid
<1> HIDE DEF p, s
<1>3. BlkSize * p \in Int /\ BlkSize * q \in Int
  BY <1>2, Times
<1>4. ~(p < q)
  BY <1>1, <1>2, <1>3, Times
<1>5. ~(q < p)
  BY <1>1, <1>2, <1>3, Times
<1>6. p = q
  BY <1>2, <1>4, <1>5
<1> QED BY <1>2, <1>3, <1>6 DEF p, s

(* The bytes behind a byte in its block.                                    *)
LEMMA SameBlock ==
  ASSUME NEW x \in Nat, NEW n \in Nat, (x % BlkSize) + n < BlkSize
  PROVE  (x + n) \div BlkSize = x \div BlkSize /\ (x + n) % BlkSize = (x % BlkSize) + n
<1> DEFINE q == x \div BlkSize
           r == x % BlkSize
<1>1. q \in Nat /\ r \in 0..(BlkSize - 1) /\ x = BlkSize * q + r /\ BlkSize * q \in Nat
  BY Euclid
<1>2. r + n \in 0..(BlkSize - 1)
  BY <1>1, BlkSizeAssumption
<1> HIDE DEF q, r
<1>3. x + n \in Nat /\ x + n = BlkSize * q + (r + n)
  BY <1>1
<1>4. (x + n) \div BlkSize = q /\ (x + n) % BlkSize = r + n
  BY <1>1, <1>2, <1>3, Unique
<1> QED BY <1>4 DEF q, r

(* The bytes behind the start of a block.                                   *)
LEMMA NextBlocks ==
  ASSUME NEW x \in Nat, NEW n \in Nat, x % BlkSize = 0
  PROVE  /\ (x + n) \div BlkSize = x \div BlkSize + n \div BlkSize
         /\ (x + n) % BlkSize = n % BlkSize
<1> DEFINE q == x \div BlkSize
           p == n \div BlkSize
           r == n % BlkSize
<1>1. q \in Nat /\ x = BlkSize * q /\ BlkSize * q \in Nat
  BY Euclid
<1>2. p \in Nat /\ r \in 0..(BlkSize - 1) /\ n = BlkSize * p + r /\ BlkSize * p \in Nat
  BY Euclid
<1> HIDE DEF q, p, r
<1>3. BlkSize * (q + p) = BlkSize * q + BlkSize * p
  BY <1>1, <1>2, Times
<1>4. x + n \in Nat /\ x + n = BlkSize * (q + p) + r /\ q + p \in Int
  BY <1>1, <1>2, <1>3
<1>5. (x + n) \div BlkSize = q + p /\ (x + n) % BlkSize = r
  BY <1>2, <1>4, Unique
<1> QED BY <1>5 DEF q, p, r

(* A byte of some blocks is in one of them.                                 *)
LEMMA WithinBlocks ==
  ASSUME NEW x \in Nat, NEW b \in Nat, x < b * BlkSize
  PROVE  x \div BlkSize < b
<1> DEFINE q == x \div BlkSize
<1>1. q \in Nat /\ BlkSize * q \in Nat /\ BlkSize * q <= x
  BY Euclid, BlkSizeAssumption
<1> HIDE DEF q
<1>2. BlkSize \in Nat /\ b * BlkSize = BlkSize * b /\ BlkSize * b \in Int
  BY Times, BlkSizeAssumption
<1>3. ASSUME b <= q PROVE FALSE
  <2>1. CASE b = q
    BY <1>1, <1>2, <2>1
  <2>2. CASE b < q
    <3>1. BlkSize * b + BlkSize <= BlkSize * q
      BY <1>1, <2>2, Times
    <3> QED BY <1>1, <1>2, <3>1
  <2> QED BY <1>1, <1>3, <2>1, <2>2
<1>4. q < b
  BY <1>1, <1>3
<1> QED BY <1>4 DEF q

-----------------------------------------------------------------------------
(* The inductive invariant.                                                 *)

TypeInv ==
  /\ vol \in Volumes
  /\ pc \in {"idle", "loop", "done"}
  /\ start \in Nat /\ want \in Nat /\ offs \in Nat /\ size \in Nat
  /\ DOMAIN tmp = 0..(BlkSize - 1)

\* The loop is within its request.
LoopInv ==
  pc = "loop" =>
    /\ DOMAIN buf = 0..(want - 1)
    /\ start <= offs
    /\ offs + size = start + want
    /\ vol.sealed => Own # {}

\* What the reply may have at a position.
Right(o, b) == Damaged(o) \/ IsByte(o, b)

\* What has been read is right, and the rest is zeros.
SoFar ==
  pc = "loop" =>
    \A i \in DOMAIN buf :
      IF start + i < offs THEN Right(start + i, buf[i]) ELSE buf[i] = Zero

Inv == TypeInv /\ LoopInv /\ SoFar /\ BytesRight

-----------------------------------------------------------------------------
(* The extents of the file.                                                 *)

(* What the assumption says of the mounted volume.                          *)
LEMMA VolumeFacts ==
  ASSUME vol \in Volumes
  PROVE  /\ \A e \in vol.extents :
              /\ e.ino \in Nat /\ e.addr \in Nat /\ e.blocks \in Nat \ {0}
              /\ e.paddr \in Nat /\ e.crypto \in Nat
         /\ \A e \in Own :
              /\ e \in vol.extents /\ e.ino = Ino
              /\ Bytes(e) \in Nat \ {0}
              /\ vol.encrypted /\ e.paddr # 0 => e.crypto # 0
              /\ \A f \in Own :
                   /\ f = e \/ f.addr + Bytes(f) <= e.addr \/ e.addr + Bytes(e) <= f.addr
                   /\ f.addr > e.addr => \E g \in Own : g.addr = e.addr + Bytes(e)
         /\ Own # {} =>
              /\ \E e \in Own : e.addr = 0
              /\ \E e \in Own : \A f \in Own : f.addr <= e.addr
<1>1. \A e \in vol.extents :
        /\ e.ino \in Nat /\ e.addr \in Nat /\ e.blocks \in Nat \ {0}
        /\ e.paddr \in Nat /\ e.crypto \in Nat
  <2>1. vol.extents \subseteq
          [ino : Nat, addr : Nat, blocks : Nat \ {0}, paddr : Nat, crypto : Nat]
    BY VolumeAssumption
  <2> QED BY <2>1
<1>2. ASSUME NEW e \in Own PROVE Bytes(e) \in Nat \ {0}
  <2>1. e.blocks \in Nat \ {0}
    BY <1>1, <1>2 DEF Own
  <2> DEFINE b == e.blocks
  <2> HIDE DEF b
  <2>2. BlkSize \in Nat \ {0}
    BY BlkSizeAssumption
  <2>3. b \in Nat \ {0} => b * BlkSize \in Nat \ {0}
    BY <2>2
  <2> QED BY <2>1, <2>3 DEF Bytes, b
<1>3. \A e \in Own :
        /\ vol.encrypted /\ e.paddr # 0 => e.crypto # 0
        /\ \A f \in Own :
             /\ f = e \/ f.addr + Bytes(f) <= e.addr \/ e.addr + Bytes(e) <= f.addr
             /\ f.addr > e.addr => \E g \in Own : g.addr = e.addr + Bytes(e)
  BY VolumeAssumption DEF Own, Bytes
<1>4. Own # {} =>
        /\ \E e \in Own : e.addr = 0
        /\ \E e \in Own : \A f \in Own : f.addr <= e.addr
  BY VolumeAssumption DEF Own
<1>5. \A e \in Own : e \in vol.extents /\ e.ino = Ino
  BY DEF Own
<1> QED BY <1>1, <1>2, <1>3, <1>4, <1>5

(* The lookup finds an extent of the file, at or before the offset.         *)
LEMMA ExtentOwn ==
  ASSUME TypeInv, LoopInv, pc = "loop", NEW e, Extent(e)
  PROVE  e \in Own /\ e.addr <= offs /\ \A f \in Own : f.addr <= offs => f.addr <= e.addr
<1>1. e \in vol.extents /\ e.ino \in Nat /\ e.addr \in Nat /\ Ino \in Nat /\ offs \in Nat
  BY VolumeFacts, BlkSizeAssumption DEF Extent, Found, TypeInv
<1>2. e.ino = Ino
  <2>1. CASE ~vol.sealed
    BY <2>1 DEF Extent
  <2>2. CASE vol.sealed
    <3>1. PICK z \in Own : z.addr = 0
      BY <2>2, VolumeFacts DEF LoopInv, TypeInv
    <3>2. z \in vol.extents /\ z.ino = Ino
      BY <3>1, VolumeFacts DEF TypeInv
    <3>3. AtOrBefore(z)
      BY <1>1, <3>1, <3>2 DEF AtOrBefore
    <3>4. Ino < e.ino \/ Ino = e.ino
      BY <3>2, <3>3 DEF Extent, Found
    <3>5. e.ino < Ino \/ e.ino = Ino
      BY DEF Extent, Found, AtOrBefore
    <3> QED BY <1>1, <3>4, <3>5
  <2> QED BY <2>1, <2>2
<1>3. e.addr <= offs
  BY <1>1, <1>2 DEF Extent, Found, AtOrBefore
<1>4. ASSUME NEW f \in Own, f.addr <= offs PROVE f.addr <= e.addr
  <2>1. f \in vol.extents /\ f.ino = Ino
    BY VolumeFacts DEF TypeInv
  <2>2. AtOrBefore(f)
    BY <1>4, <2>1 DEF AtOrBefore
  <2> QED BY <1>1, <1>2, <2>1, <2>2 DEF Extent, Found
<1> QED BY <1>1, <1>2, <1>3, <1>4 DEF Own

(* The lookup finds something in a file that has extents.                   *)
LEMMA ExtentThere ==
  ASSUME TypeInv, Own # {}
  PROVE  \E e \in vol.extents : Extent(e)
<1> DEFINE Before == {e \in Own : e.addr <= offs}
           Back == {offs - e.addr : e \in Before}
<1>1. \A e \in Own : e.addr \in Nat /\ e.ino = Ino /\ e \in vol.extents
  BY VolumeFacts DEF TypeInv
<1>2. Before # {}
  BY VolumeFacts DEF TypeInv
<1>3. Back # {} /\ Back \subseteq Nat
  <2>1. Back # {}
    BY <1>2
  <2>2. ASSUME NEW e \in Before PROVE offs - e.addr \in Nat
    BY <1>1 DEF TypeInv
  <2> QED BY <2>1, <2>2
<1>4. PICK m \in Back : \A n \in Back : ~(<<n, m>> \in OpToRel(<, Nat))
  <2> HIDE DEF Back
  <2> QED BY <1>3, NatLessThanWellFounded, WFMin
<1>5. ASSUME NEW n \in Back PROVE m <= n
  <2>1. n \in Nat /\ m \in Nat
    BY <1>3
  <2>2. n < m => <<n, m>> \in OpToRel(<, Nat)
    BY <2>1 DEF OpToRel
  <2>3. ~(<<n, m>> \in OpToRel(<, Nat))
    BY <1>4, Zenon
  <2>4. ~(n < m)
    BY <2>2, <2>3, Zenon
  <2> QED BY <2>1, <2>4
<1>6. PICK e \in Before : m = offs - e.addr
  OBVIOUS
<1>7. ASSUME NEW f \in Own, f.addr <= offs PROVE f.addr <= e.addr
  <2>1. m <= offs - f.addr
    BY <1>5, <1>7
  <2> QED BY <1>1, <1>6, <2>1 DEF TypeInv
<1>8. ASSUME NEW f \in vol.extents, AtOrBefore(f)
      PROVE  f.ino < e.ino \/ (f.ino = e.ino /\ f.addr <= e.addr)
  BY <1>1, <1>7, <1>8 DEF AtOrBefore, Own
<1>9. Extent(e) /\ e \in vol.extents
  BY <1>1, <1>8 DEF Extent, Found, AtOrBefore
<1> QED BY <1>9

(* Where the extent found ends, the file ends.                              *)
LEMMA NothingBehind ==
  ASSUME TypeInv, NEW e \in Own, e.addr + Bytes(e) = offs,
         \A f \in Own : f.addr <= offs => f.addr <= e.addr,
         NEW o \in Nat, o >= offs
  PROVE  ~\E f \in Own : Covers(f, o)
<1> SUFFICES ASSUME NEW f \in Own, f.addr <= o, o < f.addr + Bytes(f) PROVE FALSE
  BY DEF Covers
<1>1. /\ e.addr \in Nat /\ f.addr \in Nat /\ Bytes(e) \in Nat \ {0} /\ Bytes(f) \in Nat \ {0}
      /\ f = e \/ f.addr + Bytes(f) <= e.addr \/ e.addr + Bytes(e) <= f.addr
      /\ f.addr > e.addr => \E g \in Own : g.addr = e.addr + Bytes(e)
  BY VolumeFacts DEF TypeInv
<1>2. ~(f.addr > e.addr)
  <2> SUFFICES ASSUME f.addr > e.addr PROVE FALSE
    OBVIOUS
  <2>1. PICK g \in Own : g.addr = e.addr + Bytes(e)
    BY <1>1
  <2>2. g.addr <= e.addr
    BY <2>1 DEF TypeInv
  <2> QED BY <1>1, <2>1, <2>2
<1> QED BY <1>1, <1>2 DEF TypeInv

-----------------------------------------------------------------------------
(* What a round reads.                                                      *)

(* Whole blocks of n bytes.                                                 *)
LEMMA WholeBlocks ==
  ASSUME NEW n \in Nat, n > BlkSize
  PROVE  (n \div BlkSize) * BlkSize \in 1..n
<1> DEFINE q == n \div BlkSize
           r == n % BlkSize
<1>1. q \in Nat /\ r \in 0..(BlkSize - 1) /\ n = BlkSize * q + r /\ BlkSize * q \in Nat
  BY Euclid
<1> HIDE DEF q, r
<1>2. BlkSize \in Nat /\ BlkSize > 0
  BY BlkSizeAssumption
<1>3. q * BlkSize = BlkSize * q
  BY <1>1, Times
<1>4. BlkSize * q > 0
  BY <1>1, <1>2
<1>5. q * BlkSize \in 1..n
  BY <1>1, <1>2, <1>3, <1>4
<1> QED BY <1>5 DEF q

(* A round reads something, within the request and within the extent.       *)
LEMMA RoundSize ==
  ASSUME TypeInv, LoopInv, pc = "loop", size > 0, NEW e, Extent(e), Left(e) > 0
  PROVE  /\ ExtentOffs(e) \in Nat
         /\ Left(e) \in 1..size
         /\ ExtentOffs(e) + Left(e) <= Bytes(e)
         /\ FullSize(e) \in 1..Left(e)
         /\ PartSize(e) \in 1..FullSize(e)
         /\ BlkOffs(e) + PartSize(e) <= BlkSize
<1>1. e \in Own /\ e.addr <= offs
  BY ExtentOwn
<1>2. e.addr \in Nat /\ Bytes(e) \in Nat /\ offs \in Nat /\ size \in Nat /\ e \in vol.extents
  BY <1>1, VolumeFacts DEF TypeInv
<1>3. ExtentOffs(e) \in Nat
  BY <1>1, <1>2 DEF ExtentOffs
<1>4. Left(e) \in 1..size /\ ExtentOffs(e) + Left(e) <= Bytes(e)
  BY <1>2, <1>3 DEF Left
<1>5. FullSize(e) \in 1..Left(e)
  <2>1. CASE BlkOffs(e) = 0 /\ Left(e) > BlkSize
    <3>1. (Left(e) \div BlkSize) * BlkSize \in 1..Left(e)
      BY <1>4, <2>1, WholeBlocks
    <3> QED BY <2>1, <3>1 DEF FullSize
  <2>2. CASE ~(BlkOffs(e) = 0 /\ Left(e) > BlkSize)
    <3>1. FullSize(e) = Left(e)
      BY <2>2 DEF FullSize
    <3> QED BY <1>4, <3>1
  <2> QED BY <2>1, <2>2
<1>6. BlkOffs(e) \in 0..(BlkSize - 1) /\ BlkSize \in Nat
  BY <1>3, Euclid, BlkSizeAssumption DEF BlkOffs
<1>7. PartSize(e) \in 1..FullSize(e) /\ BlkOffs(e) + PartSize(e) <= BlkSize
  BY <1>4, <1>5, <1>6 DEF PartSize
<1> QED BY <1>3, <1>4, <1>5, <1>7

(* A part of a read that stays right whatever it is.                        *)
LEMMA RightAt ==
  ASSUME vol \in Volumes, NEW e \in Own, NEW x \in Nat, x < Bytes(e), NEW b,
         \/ e.paddr = 0 /\ b = Zero
         \/ e.paddr # 0 /\ b = Byte(e.paddr + (x \div BlkSize), x % BlkSize)
         \/ Blocks(e) \cap unreadable # {}
  PROVE  Right(e.addr + x, b)
<1>1. e.addr \in Nat /\ Bytes(e) \in Nat
  BY VolumeFacts
<1>2. (e.addr + x) - e.addr = x
  BY <1>1
<1>3. Covers(e, e.addr + x)
  BY <1>1 DEF Covers
<1> QED BY <1>2, <1>3 DEF Right, Damaged, IsByte

(* A block is decrypted with its own tweak.                                 *)
LEMMA BlockRight ==
  ASSUME vol \in Volumes, NEW e \in Own, e.paddr # 0,
         NEW i \in Nat, NEW n \in Nat, i + (n \div BlkSize) < e.blocks
  PROVE  Block(e.paddr + i, n, e.crypto + i) =
           Byte(e.paddr + i + (n \div BlkSize), n % BlkSize)
<1> DEFINE m == n \div BlkSize
<1>1. m \in Nat
  BY Euclid
<1>2. /\ e.paddr \in Nat /\ e.crypto \in Nat /\ e.blocks \in Nat /\ e \in vol.extents
      /\ vol.encrypted => e.crypto # 0
  BY VolumeFacts
<1>3. CASE ~vol.encrypted
  BY <1>3 DEF Block, Plain
<1>4. CASE vol.encrypted
  <2> HIDE DEF m
  <2>1. e.paddr + i + m \in Blocks(e)
    BY <1>1, <1>2 DEF Blocks, m
  <2>2. e.crypto + i # 0 /\ e.crypto + i + m = e.crypto + ((e.paddr + i + m) - e.paddr)
    BY <1>1, <1>2, <1>4
  <2>3. Block(e.paddr + i, n, e.crypto + i) =
          Plain(e.paddr + i + m, n % BlkSize, e.crypto + i + m)
    BY <2>2 DEF Block, m
  <2>4. Plain(e.paddr + i + m, n % BlkSize, e.crypto + i + m) =
          Byte(e.paddr + i + m, n % BlkSize)
    BY <1>2, <2>1, <2>2 DEF Plain
  <2> QED BY <2>3, <2>4 DEF m
<1> QED BY <1>3, <1>4

-----------------------------------------------------------------------------
(* The steps.                                                               *)

(* A round that reads what is right gets on, and keeps the invariant.       *)
LEMMA AdvanceKeeps ==
  ASSUME Inv, pc = "loop", NEW n \in 1..size, NEW content, Advance(n, content),
         DOMAIN tmp' = 0..(BlkSize - 1),
         \A j \in 0..(n - 1) : Right(offs + j, content[j])
  PROVE  Inv' /\ size' \in 0..(size - 1)
<1>1. /\ UNCHANGED <<vol, unreadable, pc, start, want>>
      /\ offs' = offs + n /\ size' = size - n
      /\ DOMAIN buf' = DOMAIN buf
  BY DEF Advance, disk
<1>2. /\ start \in Nat /\ want \in Nat /\ offs \in Nat /\ size \in Nat /\ n \in Nat \ {0}
      /\ DOMAIN buf = 0..(want - 1) /\ start <= offs /\ offs + size = start + want
  BY DEF Inv, TypeInv, LoopInv
<1>0. ASSUME NEW i \in DOMAIN buf
      PROVE  /\ i \in (offs - start)..((offs - start + n) - 1) => buf'[i] = content[i - (offs - start)]
             /\ i \notin (offs - start)..((offs - start + n) - 1) => buf'[i] = buf[i]
  <2> DEFINE done == offs - start
  <2>1. done \in Nat
    BY <1>2
  <2>2. buf' = [k \in DOMAIN buf |->
                  IF k \in done..((done + n) - 1) THEN content[k - done] ELSE buf[k]]
    BY DEF Advance
  <2> HIDE DEF done
  <2>3. buf'[i] = IF i \in done..((done + n) - 1) THEN content[i - done] ELSE buf[i]
    BY <2>2
  <2> QED BY <2>3 DEF done
<1>3. size' \in 0..(size - 1)
  BY <1>1, <1>2
<1>4. TypeInv'
  BY <1>1, <1>2 DEF Inv, TypeInv
<1>5. LoopInv'
  BY <1>1, <1>2 DEF Inv, LoopInv, Own
<1>6. SoFar'
  <2> SUFFICES ASSUME NEW i \in DOMAIN buf
               PROVE  IF start + i < offs + n THEN Right(start + i, buf[i])'
                                              ELSE buf'[i] = Zero
    <3>1. DOMAIN buf' = DOMAIN buf /\ start' = start /\ offs' = offs + n
      BY <1>1
    <3> QED BY <3>1 DEF SoFar
  <2>1. i \in Nat
    BY <1>2
  <2>2. CASE start + i < offs
    <3>1. buf'[i] = buf[i]
      BY <1>0, <1>2, <2>1, <2>2
    <3>2. Right(start + i, buf[i])
      BY <2>2 DEF Inv, SoFar
    <3> QED BY <1>1, <1>2, <2>1, <2>2, <3>1, <3>2 DEF Right, Damaged, IsByte, Own, Covers
  <2>3. CASE start + i >= offs /\ start + i < offs + n
    <3>1. i - (offs - start) \in 0..(n - 1) /\ offs + (i - (offs - start)) = start + i
      BY <1>2, <2>1, <2>3
    <3>2. buf'[i] = content[i - (offs - start)]
      <4>1. i \in (offs - start)..((offs - start + n) - 1)
        BY <1>2, <2>1, <2>3
      <4> QED BY <1>0, <4>1
    <3>3. Right(start + i, buf'[i])
      BY <3>1, <3>2
    <3> QED BY <1>1, <2>3, <3>3 DEF Right, Damaged, IsByte, Own, Covers
  <2>4. CASE start + i >= offs + n
    <3>1. buf'[i] = buf[i] /\ ~(start + i < offs) /\ ~(start + i < offs + n)
      BY <1>0, <1>2, <2>1, <2>4
    <3> QED BY <3>1 DEF Inv, SoFar
  <2> QED BY <1>2, <2>1, <2>2, <2>3, <2>4
<1>7. BytesRight'
  BY <1>1 DEF BytesRight
<1> QED BY <1>3, <1>4, <1>5, <1>6, <1>7 DEF Inv

(* A hole reads as zeros.                                                   *)
LEMMA HoleKeeps ==
  ASSUME Inv, Hole
  PROVE  Inv' /\ size' \in 0..(size - 1)
<1>1. PICK e \in vol.extents :
        /\ Extent(e) /\ Left(e) > 0 /\ e.paddr = 0
        /\ Advance(Left(e), [n \in 0..(Left(e) - 1) |-> Zero])
        /\ UNCHANGED tmp
  BY DEF Hole
<1>2. pc = "loop" /\ size > 0 /\ TypeInv /\ LoopInv /\ vol \in Volumes
  BY DEF Hole, Inv, TypeInv
<1>3. e \in Own /\ e.addr \in Nat /\ Bytes(e) \in Nat /\ offs \in Nat
  BY <1>1, <1>2, ExtentOwn, VolumeFacts DEF TypeInv
<1>4. ExtentOffs(e) \in Nat /\ Left(e) \in 1..size /\ ExtentOffs(e) + Left(e) <= Bytes(e)
  BY <1>1, <1>2, RoundSize
<1>5. ASSUME NEW j \in 0..(Left(e) - 1) PROVE Right(offs + j, Zero)
  <2>1. ExtentOffs(e) + j \in Nat /\ ExtentOffs(e) + j < Bytes(e)
    BY <1>2, <1>3, <1>4 DEF TypeInv
  <2>2. e.addr + (ExtentOffs(e) + j) = offs + j
    BY <1>3, <1>4 DEF ExtentOffs
  <2>3. Right(e.addr + (ExtentOffs(e) + j), Zero)
    BY <1>1, <1>2, <1>3, <2>1, RightAt
  <2> QED BY <2>2, <2>3
<1>6. DOMAIN tmp' = 0..(BlkSize - 1)
  BY <1>1, <1>2 DEF TypeInv
<1>7. \A j \in 0..(Left(e) - 1) : Right(offs + j, [n \in 0..(Left(e) - 1) |-> Zero][j])
  BY <1>5
<1> QED BY <1>1, <1>2, <1>4, <1>6, <1>7, AdvanceKeeps

(* Whole blocks are read into the reply, or one of them cannot be read.     *)
LEMMA FullReadKeeps ==
  ASSUME Inv, FullRead
  PROVE  Inv' /\ size' \in 0..(size - 1)
<1>1. PICK e \in vol.extents :
        LET p == e.paddr + BlkIdx(e)
            blocks == FullSize(e) \div BlkSize
        IN /\ Extent(e) /\ Left(e) > 0 /\ e.paddr # 0 /\ IsFull(e)
           /\ IF p..(p + blocks - 1) \cap unreadable = {}
                THEN Advance(FullSize(e), [n \in 0..(FullSize(e) - 1) |->
                                             Block(p, n, e.crypto + BlkIdx(e))])
                ELSE \E k \in 0..(blocks - 1) :
                       Advance(FullSize(e), [n \in 0..(FullSize(e) - 1) |->
                         IF n < k * BlkSize THEN Raw(p, n) ELSE buf[offs - start + n]])
           /\ UNCHANGED tmp
  BY DEF FullRead
<1> DEFINE p == e.paddr + BlkIdx(e)
           blocks == FullSize(e) \div BlkSize
           x == ExtentOffs(e)
           full == FullSize(e)
<1>2. pc = "loop" /\ size > 0 /\ TypeInv /\ LoopInv /\ vol \in Volumes
  BY DEF FullRead, Inv, TypeInv
<1>3. /\ e \in Own /\ e.addr \in Nat /\ Bytes(e) \in Nat /\ offs \in Nat /\ size \in Nat
      /\ e.paddr \in Nat /\ e.blocks \in Nat
  BY <1>1, <1>2, ExtentOwn, VolumeFacts DEF TypeInv
<1>4. x \in Nat /\ full \in 1..size /\ x + full <= Bytes(e)
  <2>1. /\ x \in Nat /\ Left(e) \in 1..size /\ x + Left(e) <= Bytes(e) /\ full \in 1..Left(e)
    BY <1>1, <1>2, RoundSize
  <2> HIDE DEF x, full
  <2> QED BY <1>3, <2>1
<1>5. x % BlkSize = 0 /\ full % BlkSize = 0 /\ BlkIdx(e) = x \div BlkSize
  BY <1>1 DEF IsFull, BlkOffs, BlkIdx
<1> HIDE DEF x, full
<1>6. ASSUME NEW n \in 0..(full - 1)
      PROVE  /\ x + n \in Nat /\ x + n < Bytes(e) /\ e.addr + (x + n) = offs + n
             /\ (x + n) \div BlkSize = BlkIdx(e) + (n \div BlkSize)
             /\ (x + n) % BlkSize = n % BlkSize
             /\ (x + n) \div BlkSize < e.blocks
  <2>1. x + n \in Nat /\ x + n < Bytes(e) /\ n \in Nat
    BY <1>3, <1>4
  <2>2. e.addr + (x + n) = offs + n
    BY <1>3, <2>1 DEF x, ExtentOffs
  <2>3. /\ (x + n) \div BlkSize = BlkIdx(e) + (n \div BlkSize)
        /\ (x + n) % BlkSize = n % BlkSize
    BY <1>4, <1>5, <2>1, NextBlocks
  <2>4. (x + n) \div BlkSize < e.blocks
    BY <1>3, <2>1, WithinBlocks DEF Bytes
  <2> QED BY <2>1, <2>2, <2>3, <2>4
<1>7. DOMAIN tmp' = 0..(BlkSize - 1)
  BY <1>1, <1>2 DEF TypeInv
<1>8. BlkIdx(e) \in Nat
  BY <1>4, <1>5, Euclid
<1>9. CASE p..(p + blocks - 1) \cap unreadable = {}
  <2> DEFINE content == [n \in 0..(full - 1) |-> Block(p, n, e.crypto + BlkIdx(e))]
  <2>1. ASSUME NEW j \in 0..(full - 1) PROVE Right(offs + j, content[j])
    <3>1. content[j] = Byte(e.paddr + BlkIdx(e) + (j \div BlkSize), j % BlkSize)
      <4>1. j \in Nat /\ BlkIdx(e) + (j \div BlkSize) < e.blocks
        BY <1>4, <1>6
      <4> QED BY <1>1, <1>2, <1>3, <1>8, <4>1, BlockRight
    <3>2. e.paddr + BlkIdx(e) + (j \div BlkSize) = e.paddr + ((x + j) \div BlkSize)
      <4>1. j \in Nat
        BY <1>4
      <4>2. j \div BlkSize \in Nat
        BY <4>1, Euclid
      <4> QED BY <1>3, <1>6, <1>8, <4>2
    <3>3. content[j] = Byte(e.paddr + ((x + j) \div BlkSize), (x + j) % BlkSize)
      BY <1>6, <3>1, <3>2
    <3> HIDE DEF content
    <3>4. Right(e.addr + (x + j), content[j])
      BY <1>1, <1>2, <1>3, <1>6, <3>3, RightAt
    <3> QED BY <1>6, <3>4
  <2>2. Advance(full, content)
    BY <1>1, <1>9 DEF full
  <2> HIDE DEF content
  <2> QED BY <1>2, <1>4, <1>7, <2>1, <2>2, AdvanceKeeps
<1>10. CASE p..(p + blocks - 1) \cap unreadable # {}
  <2>1. PICK k \in 0..(blocks - 1) :
          Advance(full, [n \in 0..(full - 1) |->
            IF n < k * BlkSize THEN Raw(p, n) ELSE buf[offs - start + n]])
    BY <1>1, <1>10 DEF full
  <2> DEFINE content == [n \in 0..(full - 1) |->
               IF n < k * BlkSize THEN Raw(p, n) ELSE buf[offs - start + n]]
  <2>2. Blocks(e) \cap unreadable # {}
    <3>1. PICK b \in p..(p + blocks - 1) : b \in unreadable
      BY <1>10
    <3> DEFINE last == full - 1
    <3>2. BlkIdx(e) + (last \div BlkSize) < e.blocks /\ last \in Nat
      BY <1>4, <1>6
    <3>3. blocks \in Nat /\ blocks - 1 <= last \div BlkSize
      <4>1. full = BlkSize * blocks /\ blocks \in Nat /\ full \in Nat /\ BlkSize * blocks \in Nat
        BY <1>4, <1>5, Euclid DEF full
      <4> HIDE DEF blocks
      <4>2. BlkSize \in Nat \ {0}
        BY BlkSizeAssumption
      <4>3. BlkSize * (blocks - 1) = BlkSize * blocks - BlkSize
        BY <4>1, <4>2
      <4>4. last = BlkSize * (blocks - 1) + (BlkSize - 1) /\ last \in Nat
        BY <3>2, <4>1, <4>2, <4>3
      <4>5. last \div BlkSize = blocks - 1
        BY <4>1, <4>2, <4>4, Unique
      <4> QED BY <4>1, <4>5
    <3>4. last \div BlkSize \in Nat
      BY <3>2, Euclid
    <3> HIDE DEF last
    <3>5. b \in e.paddr..(e.paddr + e.blocks - 1)
      BY <1>3, <1>8, <3>1, <3>2, <3>3, <3>4
    <3> QED BY <1>1, <3>1, <3>5 DEF Blocks
  <2>3. ASSUME NEW j \in 0..(full - 1) PROVE Right(offs + j, content[j])
    <3> HIDE DEF content
    <3>1. Right(e.addr + (x + j), content[j])
      BY <1>2, <1>3, <1>6, <2>2, RightAt
    <3> QED BY <1>6, <3>1
  <2> HIDE DEF content
  <2>4. Advance(full, content)
    BY <2>1 DEF content
  <2> QED BY <1>2, <1>4, <1>7, <2>3, <2>4, AdvanceKeeps
<1> QED BY <1>9, <1>10

(* A part of a block is read through m_tmp_blk.                             *)
LEMMA PartialReadKeeps ==
  ASSUME Inv, PartialRead
  PROVE  Inv' /\ size' \in 0..(size - 1)
<1>1. PICK e \in vol.extents :
        LET p == e.paddr + BlkIdx(e)
        IN /\ Extent(e) /\ Left(e) > 0 /\ e.paddr # 0 /\ ~IsFull(e)
           /\ tmp' = IF p \in unreadable THEN tmp
                     ELSE [j \in DOMAIN tmp |-> Block(p, j, e.crypto + BlkIdx(e))]
           /\ Advance(PartSize(e), [n \in 0..(PartSize(e) - 1) |-> tmp'[BlkOffs(e) + n]])
  BY DEF PartialRead
<1> DEFINE p == e.paddr + BlkIdx(e)
           x == ExtentOffs(e)
           part == PartSize(e)
           content == [n \in 0..(part - 1) |-> tmp'[BlkOffs(e) + n]]
<1>2. pc = "loop" /\ size > 0 /\ TypeInv /\ LoopInv /\ vol \in Volumes
  BY DEF PartialRead, Inv, TypeInv
<1>3. /\ e \in Own /\ e.addr \in Nat /\ Bytes(e) \in Nat /\ offs \in Nat /\ size \in Nat
      /\ e.paddr \in Nat /\ e.blocks \in Nat
  BY <1>1, <1>2, ExtentOwn, VolumeFacts DEF TypeInv
<1>4. /\ x \in Nat /\ part \in 1..size /\ x + part <= Bytes(e)
      /\ BlkOffs(e) + part <= BlkSize
  <2>1. /\ x \in Nat /\ Left(e) \in 1..size /\ x + Left(e) <= Bytes(e)
        /\ FullSize(e) \in 1..Left(e) /\ part \in 1..FullSize(e)
        /\ BlkOffs(e) + part <= BlkSize
    BY <1>1, <1>2, RoundSize
  <2> HIDE DEF x, part
  <2> QED BY <1>3, <2>1
<1>5. BlkOffs(e) = x % BlkSize /\ BlkIdx(e) = x \div BlkSize
  BY DEF BlkOffs, BlkIdx
<1>6. BlkOffs(e) \in 0..(BlkSize - 1) /\ BlkIdx(e) \in Nat /\ BlkSize \in Nat
  BY <1>4, <1>5, Euclid, BlkSizeAssumption
<1> HIDE DEF x, part
<1>7. DOMAIN tmp = 0..(BlkSize - 1) /\ DOMAIN tmp' = 0..(BlkSize - 1)
  BY <1>1, <1>2 DEF TypeInv
<1>8. BlkIdx(e) < e.blocks
  <2>1. x < Bytes(e)
    BY <1>3, <1>4
  <2> QED BY <1>3, <1>4, <1>5, <2>1, WithinBlocks DEF Bytes
<1>9. ASSUME NEW n \in 0..(part - 1)
      PROVE  /\ x + n \in Nat /\ x + n < Bytes(e) /\ e.addr + (x + n) = offs + n
             /\ (x + n) \div BlkSize = BlkIdx(e)
             /\ (x + n) % BlkSize = BlkOffs(e) + n
             /\ BlkOffs(e) + n \in 0..(BlkSize - 1)
  <2>1. x + n \in Nat /\ x + n < Bytes(e) /\ n \in Nat
    BY <1>3, <1>4
  <2>2. e.addr + (x + n) = offs + n
    BY <1>3, <2>1 DEF x, ExtentOffs
  <2>3. BlkOffs(e) + n \in 0..(BlkSize - 1)
    BY <1>3, <1>4, <1>6
  <2>4. (x % BlkSize) + n < BlkSize
    BY <1>5, <1>6, <2>3
  <2>5. (x + n) \div BlkSize = BlkIdx(e) /\ (x + n) % BlkSize = BlkOffs(e) + n
    BY <1>4, <1>5, <2>1, <2>4, SameBlock
  <2> QED BY <2>1, <2>2, <2>3, <2>5
<1>10. ASSUME NEW j \in 0..(part - 1) PROVE Right(offs + j, content[j])
  <2>1. CASE p \in unreadable
    <3>1. p \in Blocks(e)
      BY SMTT(30), <1>1, <1>3, <1>6, <1>8 DEF Blocks
    <3> HIDE DEF content
    <3>2. Right(e.addr + (x + j), content[j])
      BY <1>2, <1>3, <1>9, <2>1, <3>1, RightAt
    <3> QED BY <1>9, <3>2
  <2>2. CASE p \notin unreadable
    <3> DEFINE i == BlkOffs(e) + j
    <3>1. i \in 0..(BlkSize - 1) /\ i \in Nat
      BY <1>6, <1>9
    <3>2. content[j] = Block(p, i, e.crypto + BlkIdx(e))
      BY <1>1, <1>7, <2>2, <3>1
    <3> HIDE DEF i, content
    <3>3. i \div BlkSize = 0 /\ i % BlkSize = i
      <4>1. i = BlkSize * 0 + i
        BY <1>6, <3>1
      <4> QED BY <3>1, <4>1, Unique
    <3>4. BlkIdx(e) + (i \div BlkSize) < e.blocks
      BY <1>6, <1>8, <3>3
    <3>5. content[j] = Byte(e.paddr + BlkIdx(e) + (i \div BlkSize), i % BlkSize)
      BY <1>1, <1>2, <1>3, <1>6, <3>1, <3>2, <3>4, BlockRight
    <3>6. e.paddr + BlkIdx(e) + (i \div BlkSize) = e.paddr + ((x + j) \div BlkSize)
      BY <1>3, <1>6, <1>9, <3>3
    <3>7. i % BlkSize = (x + j) % BlkSize
      BY <1>9, <3>3 DEF i
    <3>8. content[j] = Byte(e.paddr + ((x + j) \div BlkSize), (x + j) % BlkSize)
      BY <3>5, <3>6, <3>7
    <3>9. Right(e.addr + (x + j), content[j])
      BY <1>1, <1>2, <1>3, <1>9, <3>8, RightAt
    <3> QED BY <1>9, <3>9
  <2> QED BY <2>1, <2>2
<1>11. Advance(part, content)
  BY <1>1 DEF part
<1> HIDE DEF content
<1> QED BY <1>2, <1>4, <1>7, <1>10, <1>11, AdvanceKeeps

(* The loop ends: what has not been read is not in the file.                *)
LEMMA ReturnKeeps ==
  ASSUME Inv, pc = "loop", Return,
         \A o \in Nat : o >= offs /\ o < start + want => Right(o, Zero)
  PROVE  Inv'
<1>1. pc' = "done" /\ UNCHANGED <<vol, unreadable, start, want, offs, size, buf, tmp>>
  BY DEF Return, disk
<1>2. /\ start \in Nat /\ want \in Nat /\ offs \in Nat /\ DOMAIN buf = 0..(want - 1)
  BY DEF Inv, TypeInv, LoopInv
<1>3. BytesRight'
  <2> SUFFICES ASSUME NEW i \in DOMAIN buf PROVE Right(start + i, buf[i])
    BY <1>1 DEF BytesRight, Right, Damaged, IsByte, Own, Covers
  <2>1. i \in Nat /\ start + i \in Nat /\ start + i < start + want
    BY <1>2
  <2>2. CASE start + i < offs
    BY <2>2 DEF Inv, SoFar
  <2>3. CASE ~(start + i < offs)
    <3>1. buf[i] = Zero
      BY <2>3 DEF Inv, SoFar
    <3>2. start + i >= offs
      BY <1>2, <2>1, <2>3
    <3> QED BY <2>1, <3>1, <3>2
  <2> QED BY <2>2, <2>3
<1>4. TypeInv' /\ LoopInv' /\ SoFar'
  BY <1>1 DEF Inv, TypeInv, LoopInv, SoFar
<1> QED BY <1>3, <1>4 DEF Inv

(* The file has no extents.                                                 *)
LEMMA NoExtentKeeps ==
  ASSUME Inv, NoExtent
  PROVE  Inv'
<1>1. Own = {}
  BY ExtentThere DEF NoExtent, Inv
<1>2. \A o \in Nat : Right(o, Zero)
  BY <1>1 DEF Right, IsByte
<1> QED BY <1>2, ReturnKeeps DEF NoExtent

(* The file ends before the request.                                        *)
LEMMA PastExtentKeeps ==
  ASSUME Inv, PastExtent
  PROVE  Inv'
<1>1. PICK e \in vol.extents : Extent(e) /\ Left(e) = 0
  BY DEF PastExtent
<1>2. pc = "loop" /\ size > 0 /\ TypeInv /\ LoopInv /\ size \in Nat /\ offs \in Nat
  BY DEF PastExtent, Inv, TypeInv
<1>3. e \in Own /\ e.addr <= offs /\ \A f \in Own : f.addr <= offs => f.addr <= e.addr
  BY <1>1, <1>2, ExtentOwn
<1>4. e.addr \in Nat /\ Bytes(e) \in Nat
  BY <1>2, <1>3, VolumeFacts DEF TypeInv
<1>5. e.addr + Bytes(e) = offs
  BY <1>1, <1>2, <1>3, <1>4 DEF Left, ExtentOffs
<1>6. ASSUME NEW o \in Nat, o >= offs PROVE Right(o, Zero)
  BY <1>2, <1>3, <1>5, <1>6, NothingBehind DEF Right, IsByte
<1> QED BY <1>2, <1>6, ReturnKeeps DEF PastExtent

(* The request is done.                                                     *)
LEMMA FinishedKeeps ==
  ASSUME Inv, Finished
  PROVE  Inv'
<1>1. pc = "loop" /\ offs = start + want /\ start \in Nat /\ want \in Nat
  BY DEF Finished, Inv, TypeInv, LoopInv
<1>2. \A o \in Nat : o >= offs /\ o < start + want => Right(o, Zero)
  BY <1>1
<1> QED BY <1>1, <1>2, ReturnKeeps DEF Finished

(* The end of a file is where its last extent ends.                         *)
LEMMA EndNat ==
  ASSUME vol \in Volumes
  PROVE  End \in Nat
<1>1. CASE Own = {}
  BY <1>1 DEF End
<1>2. CASE Own # {}
  <2> DEFINE Ends == {f.addr + Bytes(f) : f \in Own}
             IsEnd(o) == \A f \in Own : f.addr + Bytes(f) <= o
  <2>1. \A f \in Own : f.addr \in Nat /\ Bytes(f) \in Nat \ {0}
    BY VolumeFacts
  <2>2. PICK e \in Own : \A f \in Own : f.addr <= e.addr
    BY <1>2, VolumeFacts
  <2>3. ASSUME NEW f \in Own PROVE f.addr + Bytes(f) <= e.addr + Bytes(e)
    <3>1. f = e \/ f.addr + Bytes(f) <= e.addr \/ e.addr + Bytes(e) <= f.addr
      BY <2>2, VolumeFacts
    <3> QED BY <2>1, <2>2, <3>1
  <2>4. e.addr + Bytes(e) \in Ends /\ IsEnd(e.addr + Bytes(e))
    BY <2>3
  <2>5. Ends \subseteq Nat
    BY <2>1
  <2>6. End = CHOOSE o \in Ends : IsEnd(o)
    BY <1>2 DEF End
  <2> HIDE DEF Ends, IsEnd
  <2>7. End \in Ends
    BY <2>4, <2>6
  <2> QED BY <2>5, <2>7
<1> QED BY <1>1, <1>2

(* A request starts with a reply of zeros.                                  *)
LEMMA CallKeeps ==
  ASSUME Inv, Call
  PROVE  Inv'
<1>1. PICK o \in 0..End : \E n \in 1..(End + BlkSize - o) :
        /\ start' = o /\ want' = n
        /\ offs' = o /\ size' = n
        /\ buf' = [i \in 0..(n - 1) |-> Zero]
  BY DEF Call
<1>2. PICK n \in 1..(End + BlkSize - o) :
        /\ start' = o /\ want' = n
        /\ offs' = o /\ size' = n
        /\ buf' = [i \in 0..(n - 1) |-> Zero]
  BY <1>1
<1>3. o \in Nat /\ n \in Nat
  BY EndNat, BlkSizeAssumption DEF Inv, TypeInv
<1>4. /\ pc' = "loop" /\ tmp' = [j \in 0..(BlkSize - 1) |-> Zero]
      /\ UNCHANGED <<vol, unreadable>>
      /\ vol.sealed => Own # {}
  <2>1. Own # {} \/ ~vol.sealed
    BY DEF Call
  <2> QED BY <2>1 DEF Call, disk
<1>5. TypeInv'
  BY <1>2, <1>3, <1>4 DEF Inv, TypeInv
<1>6. LoopInv'
  BY <1>2, <1>3, <1>4 DEF LoopInv, Own
<1>7. SoFar'
  <2>1. ASSUME NEW i \in DOMAIN buf' PROVE buf'[i] = Zero /\ ~(start' + i < offs')
    BY <1>2, <1>3
  <2> QED BY <2>1 DEF SoFar
<1>8. BytesRight'
  BY <1>4 DEF BytesRight
<1> QED BY <1>5, <1>6, <1>7, <1>8 DEF Inv

(* The reply is sent.                                                       *)
LEMMA ReplyKeeps ==
  ASSUME Inv, Reply
  PROVE  Inv'
  BY DEF Inv, Reply, TypeInv, LoopInv, SoFar, BytesRight, disk

-----------------------------------------------------------------------------
(* The theorems.                                                            *)

(* Before a read nothing is due.                                            *)
LEMMA InitInv ==
  Init => Inv
  BY DEF Init, Inv, TypeInv, LoopInv, SoFar, BytesRight

(* The invariant is inductive, and a round gets on.                         *)
LEMMA StepInv ==
  ASSUME Inv, [Next]_vars
  PROVE  Inv' /\ (pc = "loop" /\ pc' = "loop" => size' \in 0..(size - 1) \/ UNCHANGED vars)
<1>1. CASE Call
  BY <1>1, CallKeeps DEF Call
<1>2. CASE NoExtent \/ PastExtent \/ Finished
  <2>1. pc' = "done"
    BY <1>2 DEF NoExtent, PastExtent, Finished, Return
  <2> QED BY <1>2, <2>1, NoExtentKeeps, PastExtentKeeps, FinishedKeeps
<1>3. CASE Hole \/ FullRead \/ PartialRead
  BY <1>3, HoleKeeps, FullReadKeeps, PartialReadKeeps
<1>4. CASE Reply
  BY <1>4, ReplyKeeps DEF Reply
<1>5. CASE UNCHANGED vars
  BY <1>5 DEF vars, disk, Inv, TypeInv, LoopInv, SoFar, BytesRight, Right, Damaged, IsByte,
              Own, Covers
<1> QED BY <1>1, <1>2, <1>3, <1>4, <1>5 DEF Next, Step

(* A reply holds the bytes of the file, for every size of a block and every *)
(* volume: encrypted or not, sealed or not, with any extents and holes, any *)
(* range asked for, and any blocks that cannot be read.                     *)
THEOREM RepliesRight == Spec => []BytesRight
<1>1. Inv /\ [Next]_vars => Inv'
  BY StepInv
<1>2. Inv => BytesRight
  BY DEF Inv
<1> QED BY <1>1, <1>2, InitInv, PTL DEF Spec

(* No round of the loop is empty, and none reads past the request, for      *)
(* every size of a block and every volume.                                  *)
THEOREM AlwaysAdvances == Spec => RoundsAdvance
<1>1. Inv /\ [Next]_vars => Inv'
  BY StepInv
<1>2. Inv /\ [Next]_vars => [pc = "loop" /\ pc' = "loop" => size' \in 0..(size - 1)]_vars
  BY StepInv
<1> QED BY <1>1, <1>2, InitInv, PTL DEF Spec, RoundsAdvance
=============================================================================
