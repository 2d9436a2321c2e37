------------------------------- MODULE ReadFile -------------------------------
(***************************************************************************)
(* apfs_read of an uncompressed file, ApfsDir::ReadFile and                *)
(* ApfsVolume::ReadBlocks: a byte range of a file is gathered from the     *)
(* extents of the file system tree, whole blocks straight into the reply,  *)
(* parts of blocks through the buffer m_tmp_blk.                           *)
(*                                                                         *)
(* A byte of a block is a number that tells which byte of which block it   *)
(* is.  The driver asks the tree for the last extent at or before an       *)
(* offset (module BTree); the tree holds the extents of several files.     *)
(***************************************************************************)
EXTENDS Integers, FiniteSets

CONSTANTS
  BlkSize,  \* bytes of a block, a power of two
  Volumes,  \* volumes to read from
  Ino       \* the private_id of the file that is read

ASSUME BlkSizeAssumption == BlkSize \in Nat \ {0} /\ Ino \in Nat

\* A volume is a set of extents, and whether it is sealed and encrypted.
\* An extent has an owner and a logical_addr, a length in blocks, a physical
\* address (0 for a hole) and a crypto_id, which is not 0 where it matters.

\* The file system that wrote the disk maps a file from its start to its end,
\* every byte once, and encrypts with no tweak of 0 and no sealed volume.
ASSUME VolumeAssumption ==
  \A v \in Volumes :
    LET own == {e \in v.extents : e.ino = Ino}
        end(e) == e.addr + e.blocks * BlkSize
    IN /\ v.sealed \in BOOLEAN /\ v.encrypted \in BOOLEAN /\ ~(v.sealed /\ v.encrypted)
       /\ v.extents \subseteq
            [ino : Nat, addr : Nat, blocks : Nat \ {0}, paddr : Nat, crypto : Nat]
       /\ \A e \in own :
            /\ e.addr % BlkSize = 0
            /\ v.encrypted /\ e.paddr # 0 => e.crypto # 0
            /\ \A f \in own :
                 /\ f = e \/ end(f) <= e.addr \/ end(e) <= f.addr
                 /\ f.addr > e.addr => \E g \in own : g.addr = end(e)
       /\ own # {} =>
            /\ \E e \in own : e.addr = 0
            /\ \E e \in own : \A f \in own : f.addr <= e.addr

Zero == 0
Garbled == -1
Byte(p, j) == p * BlkSize + j + 1    \* byte j of block p, as the file has it

VARIABLES
  vol, unreadable,  \* the volume, and the blocks its device cannot read
  pc,               \* "idle", "loop", "done"
  start, want,      \* the request
  offs, size,       \* offs and size of the loop
  buf,              \* the reply
  tmp               \* m_tmp_blk

disk == <<vol, unreadable>>
vars == <<disk, pc, start, want, offs, size, buf, tmp>>

Bytes(e) == e.blocks * BlkSize
Own == {e \in vol.extents : e.ino = Ino}
Covers(e, o) == e.addr <= o /\ o < e.addr + Bytes(e)
End == IF Own = {} THEN 0
       ELSE CHOOSE o \in {e.addr + Bytes(e) : e \in Own} :
              \A e \in Own : e.addr + Bytes(e) <= o
Blocks(e) == IF e.paddr = 0 THEN {} ELSE e.paddr..(e.paddr + e.blocks - 1)

Init ==
  /\ vol \in Volumes
  /\ unreadable \in {u \in SUBSET UNION {Blocks(e) : e \in vol.extents} :
                       Cardinality(u) <= 1}
  /\ pc = "idle"
  /\ start = 0 /\ want = 0 /\ offs = 0 /\ size = 0
  /\ buf = [i \in {} |-> Zero]
  /\ tmp = [j \in 0..(BlkSize - 1) |-> Zero]

\* apfs_read: a reply of zeros and a new ApfsDir.  The kernel asks for bytes of
\* pages that belong to the file: it may ask for more than is left, by up to a
\* block here, and asks a file without extents for nothing (on an unsealed
\* volume the code would answer that, too).
Call ==
  /\ pc = "idle"
  /\ Own # {} \/ ~vol.sealed
  /\ pc' = "loop"
  /\ \E o \in 0..End :
       \E n \in 1..(End + BlkSize - o) :
         /\ start' = o /\ want' = n
         /\ offs' = o /\ size' = n
         /\ buf' = [i \in 0..(n - 1) |-> Zero]
  /\ tmp' = [j \in 0..(BlkSize - 1) |-> Zero]
  /\ UNCHANGED disk

\* The extent the lookup returns: the last one at or before (Ino, offs).
AtOrBefore(e) == e.ino < Ino \/ (e.ino = Ino /\ e.addr <= offs)
Found(e) ==
  /\ e \in vol.extents
  /\ AtOrBefore(e)
  /\ \A f \in vol.extents :
       AtOrBefore(f) => f.ino < e.ino \/ (f.ino = e.ino /\ f.addr <= e.addr)

\* Only the file system tree's key is checked to be one of this file.
Extent(e) == Found(e) /\ (vol.sealed \/ e.ino = Ino)

\* ReadFile returns; both its callers ignore the result.
Return ==
  /\ pc' = "done"
  /\ UNCHANGED <<disk, start, want, offs, size, buf, tmp>>

NoExtent ==
  /\ pc = "loop"
  /\ size > 0
  /\ ~\E e \in vol.extents : Extent(e)
  /\ Return

ExtentOffs(e) == offs - e.addr
BlkIdx(e) == ExtentOffs(e) \div BlkSize
BlkOffs(e) == ExtentOffs(e) % BlkSize

\* Mutant: the rest of the extent is read, however much is asked for.
LeftOfExtent(e) == Bytes(e) - ExtentOffs(e)

\* cur_size after it has been cut at the end of the extent.
Left(e) == IF ExtentOffs(e) + size > Bytes(e) THEN Bytes(e) - ExtentOffs(e) ELSE size

\* Mutant: less than one block is cut to whole blocks, too.
FullSizeOfAll(e) == IF BlkOffs(e) = 0 THEN (Left(e) \div BlkSize) * BlkSize ELSE Left(e)

\* and to whole blocks, where the read starts at a block and has more than one.
FullSize(e) ==
  IF BlkOffs(e) = 0 /\ Left(e) > BlkSize THEN (Left(e) \div BlkSize) * BlkSize ELSE Left(e)
IsFull(e) == BlkOffs(e) = 0 /\ FullSize(e) % BlkSize = 0

\* A partial read ends with its block.
PartSize(e) ==
  IF BlkOffs(e) + FullSize(e) > BlkSize THEN BlkSize - BlkOffs(e) ELSE FullSize(e)

\* A request that ends with the extents gets zeros for the rest.
PastExtent ==
  /\ pc = "loop"
  /\ size > 0
  /\ \E e \in vol.extents : Extent(e) /\ Left(e) = 0
  /\ Return

NoTweak == -1

\* Byte j of block p after decryption with tweak t; the extent that owns p
\* was encrypted block by block with its crypto_id and up.
Plain(p, j, t) ==
  IF ~vol.encrypted
    \/ \E e \in vol.extents : p \in Blocks(e) /\ t = e.crypto + (p - e.paddr)
    THEN Byte(p, j)
    ELSE Garbled

\* Mutant: every block of a read is decrypted with the tweak of the first.
BlockFirstTweak(p, n, t) ==
  IF t = 0 THEN Plain(p + n \div BlkSize, n % BlkSize, NoTweak)
           ELSE Plain(p + n \div BlkSize, n % BlkSize, t)

\* Byte n of the blocks from p on as ReadBlocks delivers them: a tweak of 0
\* leaves them as they are on the device.
Block(p, n, t) ==
  IF t = 0 THEN Plain(p + n \div BlkSize, n % BlkSize, NoTweak)
           ELSE Plain(p + n \div BlkSize, n % BlkSize, t + n \div BlkSize)

\* A failed read may have delivered some blocks, not yet decrypted.
Raw(p, n) == IF vol.encrypted THEN Garbled ELSE Byte(p + n \div BlkSize, n % BlkSize)

\* n bytes of the request are done, with the given contents.
Advance(n, content) ==
  /\ LET done == offs - start
         upto == done + n
     IN buf' = [i \in DOMAIN buf |->
                  IF i \in done..(upto - 1) THEN content[i - done] ELSE buf[i]]
  /\ offs' = offs + n
  /\ size' = size - n
  /\ UNCHANGED <<disk, pc, start, want>>

Hole ==
  /\ pc = "loop"
  /\ size > 0
  /\ \E e \in vol.extents :
       /\ Extent(e) /\ Left(e) > 0
       /\ e.paddr = 0
       /\ Advance(Left(e), [n \in 0..(Left(e) - 1) |-> Zero])
       /\ UNCHANGED tmp

FullRead ==
  /\ pc = "loop"
  /\ size > 0
  /\ \E e \in vol.extents :
       LET p == e.paddr + BlkIdx(e)
           blocks == FullSize(e) \div BlkSize
       IN /\ Extent(e) /\ Left(e) > 0
          /\ e.paddr # 0
          /\ IsFull(e)
          /\ IF p..(p + blocks - 1) \cap unreadable = {}
               THEN Advance(FullSize(e), [n \in 0..(FullSize(e) - 1) |->
                                            Block(p, n, e.crypto + BlkIdx(e))])
               ELSE \E k \in 0..(blocks - 1) :
                      Advance(FullSize(e), [n \in 0..(FullSize(e) - 1) |->
                        IF n < k * BlkSize THEN Raw(p, n) ELSE buf[offs - start + n]])
          /\ UNCHANGED tmp

\* After a failed read m_tmp_blk holds what it held before.
PartialRead ==
  /\ pc = "loop"
  /\ size > 0
  /\ \E e \in vol.extents :
       LET p == e.paddr + BlkIdx(e)
       IN /\ Extent(e) /\ Left(e) > 0
          /\ e.paddr # 0
          /\ ~IsFull(e)
          /\ tmp' = IF p \in unreadable THEN tmp
                    ELSE [j \in DOMAIN tmp |-> Block(p, j, e.crypto + BlkIdx(e))]
          /\ Advance(PartSize(e), [n \in 0..(PartSize(e) - 1) |-> tmp'[BlkOffs(e) + n]])

Finished ==
  /\ pc = "loop"
  /\ size = 0
  /\ Return

\* The whole buffer is sent, whatever ReadFile returned.
Reply ==
  /\ pc = "done"
  /\ pc' = "idle"
  /\ start' = 0 /\ want' = 0 /\ offs' = 0 /\ size' = 0
  /\ buf' = [i \in {} |-> Zero]
  /\ tmp' = [j \in 0..(BlkSize - 1) |-> Zero]
  /\ UNCHANGED disk

Step == NoExtent \/ PastExtent \/ Hole \/ FullRead \/ PartialRead \/ Finished \/ Reply

Next == Call \/ Step

Spec == Init /\ [][Next]_vars

\* The read runs in the thread that serves the kernel.
FairSpec == Spec /\ WF_vars(Step)

-----------------------------------------------------------------------------
\* Byte o of the file: of an extent, a hole, or nothing behind the extents.
IsByte(o, b) ==
  IF \E e \in Own : Covers(e, o)
    THEN \E e \in Own :
           /\ Covers(e, o)
           /\ b = IF e.paddr = 0 THEN Zero
                  ELSE Byte(e.paddr + (o - e.addr) \div BlkSize, (o - e.addr) % BlkSize)
    ELSE b = Zero

Damaged(o) == \E e \in Own : Covers(e, o) /\ Blocks(e) \cap unreadable # {}

(* A reply holds exactly the bytes of the file at every position, across    *)
(* extents, holes, and partial and full reads at either end of it, decrypted*)
(* with the tweak of their own block; an unreadable block spoils at most    *)
(* bytes of the extent it belongs to.                                       *)
BytesRight ==
  pc = "done" =>
    \A i \in DOMAIN buf : Damaged(start + i) \/ IsByte(start + i, buf[i])

(* Every round of the loop gets on and none reads past the request, so size,*)
(* which is unsigned, never wraps.                                          *)
RoundsAdvance == [][pc = "loop" /\ pc' = "loop" => size' \in 0..(size - 1)]_vars

(* Every read is answered.                                                  *)
Answered == (pc = "loop") ~> (pc = "idle")

(* "Allow driver to return potentially corrupt data instead of failing, if  *)
(* it can't handle something" is what the option -l is for                  *)
(* (ApfsFuse.cpp:647): without it a reply has the bytes of the file.  The   *)
(* code of apfs_read does not look at the option.                           *)
StrictReads ==
  pc = "done" => \A i \in DOMAIN buf : IsByte(start + i, buf[i])
=============================================================================
