------------------------------- MODULE MCMount -------------------------------
EXTENDS Mount, TLC

\* Partition maps.
Part(apfs, first, last) == [apfs |-> apfs, first |-> first, last |-> last]
Gpt(s, entries) == [sector |-> s, good |-> TRUE, entries |-> entries]
Small == Gpt(1, <<Part(FALSE, 3, 3), Part(TRUE, 4, 9), Part(FALSE, 0, 0)>>)
Second == Gpt(1, <<Part(TRUE, 3, 3), Part(TRUE, 4, 9)>>)
Gap == Gpt(1, <<Part(FALSE, 3, 3), Part(FALSE, 0, 0), Part(TRUE, 4, 9)>>)
Big == Gpt(BigSector, <<Part(TRUE, 3, 4)>>)
Foreign == Gpt(1, <<Part(FALSE, 3, 3)>>)
Damaged == [Small EXCEPT !.good = FALSE]

File(ext, form, crypt, locks, units, size, t, band, gpt, container) ==
  [ext |-> ext, form |-> form, crypt |-> crypt, locks |-> locks, units |-> units,
   size |-> size, table |-> t, band |-> band, bad |-> {}, gpt |-> gpt,
   container |-> container]

Disk(gpt, container, units) ==
  File("other", "flat", "no", <<>>, units, units, <<>>, 0, gpt, container)
Plain == Disk(<<>>, 0, 8)
Absent == File("other", "absent", "no", <<>>, 0, 0, <<>>, 0, <<>>, NoContainer)

\* A DMG: a raw section, packed ones with the container across them, zeros.
Sect(method, first, count, at, len) ==
  [method |-> method, first |-> first, count |-> count, at |-> at, len |-> len]
Sects(last) == <<Sect("raw", 0, 4, 0, 4), Sect("end", 4, 0, 0, 0),
           Sect("comment", 4, 0, 0, 0), Sect("zlib", 4, 3, 4, 1),
           Sect("adc", 7, 3, 5, 2), Sect(last, 10, 2, 7, 0)>>
Dmg(crypt, locks, last) ==
  File("dmg", "udif", crypt, locks, 10, 12, Sects(last), 0, Small, 4)
RawDmg(crypt, locks) == File("dmg", "flat", crypt, locks, 8, 8, <<>>, 0, <<>>, 0)

\* A sparse image with bands out of order, one of them never written.
Nodes == (0 :> [slots |-> <<2, 1>>, next |-> 9]) @@ (9 :> [slots |-> <<3>>, next |-> 14])
           @@ (14 :> [slots |-> <<0, 4>>, next |-> 0])
Sparse(crypt, locks) ==
  File("sparseimage", "sparse", crypt, locks, 24, 18, Nodes, 4, Small, 4)
OddNodes == 0 :> [slots |-> <<1>>, next |-> 0]
SmallBands == File("sparseimage", "sparse", "no", <<>>, 4, 12, OddNodes, 2, <<>>, 0)
LargeBands == File("sparseimage", "sparse", "no", <<>>, 10, 8, OddNodes, 8, <<>>, 0)

\* A DMG that ends within a block of the container.
Short ==
  File("dmg", "udif", "no", <<>>, 7, 9,
       <<Sect("raw", 0, 4, 0, 4), Sect("bzip2", 4, 5, 4, 1)>>, 0, Small, 4)
Unknown ==
  File("dmg", "udif", "no", <<>>, 8, 9,
       <<Sect("raw", 0, 6, 0, 6), Sect("unknown", 6, 3, 0, 0)>>, 0, Small, 4)

Bad(f) == {[f EXCEPT !.bad = {u}] : u \in 0..(FileLen(f) - 1)}

\* Any one sector of these is unreadable, or none.
Fragile == {Dmg("no", <<>>, "zero"), RawDmg("V1", <<"pw">>), Sparse("no", <<>>)}
Images ==
  UNION {{f} \cup Bad(f) : f \in Fragile} \cup
  {Plain, Absent, Disk(Small, 4, 10), Disk(Second, 4, 10), Disk(Big, 12, 20), Disk(Foreign, NoContainer, 10), Disk(Damaged, NoContainer, 10),
   Short, Unknown, Dmg("V2", <<NoPassword, "old", "pw">>, "ignore"),
   [Dmg("V2", <<NoPassword, "old", "pw">>, "ignore") EXCEPT !.bad = {1}],
   RawDmg("no", <<>>), Sparse("V2", <<"pw">>), SmallBands, LargeBands,
   [Plain EXCEPT !.ext = "sparseimage"], [Absent EXCEPT !.ext = "dmg"]}

MCSetups ==
  {(Main :> f) @@ (Tier2 :> Plain) : f \in Images} \cup
  {(Main :> Disk(Small, 4, 10)) @@ (Tier2 :> f) :
     f \in {Absent, Disk(Small, 4, 10), Disk(Foreign, NoContainer, 10), Dmg("no", <<>>, "zero"),
            [RawDmg("V1", <<"pw">>) EXCEPT !.bad = {1}]}}

\* An entry that is not in use is before that of the container.
MCGapSetups == {(Main :> Disk(Gap, 4, 10)) @@ (Tier2 :> Plain)}

Call(prog, offset, p, fusion, blksize) ==
  [prog |-> prog, offset |-> offset, part |-> p, fusion |-> fusion, blksize |-> blksize]
MCCalls ==
  {Call("apfs-fuse", 0, NoPartition, FALSE, 1), Call("apfs-fuse", 4, NoPartition, FALSE, 1),
   Call("apfs-fuse", 0, 1, FALSE, 1), Call("apfs-fuse", 0, NoPartition, FALSE, BigSector),
   Call("apfs-fuse", 0, NoPartition, TRUE, 1), Call("apfs-fuse", 4, NoPartition, TRUE, 1),
   Call("apfs-fuse", 40, NoPartition, FALSE, 1),
   Call("apfsutil", 0, NoPartition, FALSE, 1),
   Call("apfs-dump-quick", 0, NoPartition, TRUE, 1)}
=============================================================================
