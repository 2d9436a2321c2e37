-------------------------------- MODULE Mount --------------------------------
(***************************************************************************)
(* The mains of apfs-fuse, apfsutil and apfs-dump-quick from their options  *)
(* to the blocks of the container: the devices are opened, a partition map  *)
(* is looked for, the container is put on a partition and its blocks are    *)
(* read from one of two devices.  The rest of a mount is in the modules      *)
(* Container and Volume.                                                    *)
(***************************************************************************)
EXTENDS DiskImage

CONSTANTS
  Main, Tier2,  \* the two devices
  Block,        \* sectors of a block of the container
  BigSector,    \* 4096 bytes, in sectors of 512
  Calls,        \* programs and their options
  MaxPaddr      \* the last block of a container that is read

\* What is on the disk in an image file, too:
\*   gpt        the partition map: its sector size, whether its header is
\*              valid, and its entries; or Nothing
\*   container  the sector at which a container starts, or NoContainer
NoContainer == -1
NoPartition == -1

(***************************************************************************)
(* A disk has room for two sectors of a partition map, whatever their size. *)
(* A partition map that is good, and the container, are on it, and not      *)
(* where an image has zeros; no partition starts in sector 0.               *)
(***************************************************************************)
Entry == [apfs : BOOLEAN, first : Nat, last : Nat]
MapWhole(f) ==
  f.gpt # Nothing =>
    /\ f.gpt.sector \in Nat \ {0} /\ f.gpt.good \in BOOLEAN /\ f.gpt.entries \in Seq(Entry)
    /\ \A i \in DOMAIN f.gpt.entries : f.gpt.entries[i].apfs => f.gpt.entries[i].first > 0
    /\ f.gpt.good => Kept(f, f.gpt.sector) /\ Kept(f, 2 * f.gpt.sector)
ContainerWhole(f) ==
  /\ f.container \in Nat \cup {NoContainer}
  /\ f.container # NoContainer => \A i \in 1..Block : Kept(f, f.container + i - 1)

ASSUME MountAssumption ==
  /\ Main # Tier2 /\ Devices = {Main, Tier2}
  /\ Block \in Nat \ {0} /\ BigSector \in Nat \ {0} /\ MaxPaddr \in Nat
  /\ \A c \in Calls :
       /\ c.fusion \in BOOLEAN /\ c.offset \in Nat /\ c.part \in Nat \cup {NoPartition}
       /\ c.blksize \in Nat \ {0}
  /\ \A s \in Setups, d \in Devices :
       /\ MapWhole(s[d]) /\ ContainerWhole(s[d])
       /\ s[d].form # "absent" =>
            2 * BigSector <= s[d].size /\ \A c \in Calls : 2 * c.blksize <= s[d].size

VARIABLES
  call,    \* the program and its options
  pc,      \* where main is
  gptDev,  \* the device whose partition map is looked for
  sector,  \* m_sector_size of the partition map
  part,    \* partition_id
  start,   \* m_main_part_start and m_tier2_part_start
  paddr,   \* the block that is read
  code     \* what main returned

main == <<call, pc, gptDev, sector, part, start, paddr, code>>
vars == <<devVars, main>>

MountInit ==
  /\ Init
  /\ call \in Calls
  /\ pc = "args"
  /\ gptDev = Main
  /\ sector = 0
  /\ part = NoPartition
  /\ start = [d \in Devices |-> 0]
  /\ paddr = 0
  /\ code = 0

Fuse == call.prog = "apfs-fuse"
Quick == call.prog = "apfs-dump-quick"

\* What a program returns when it gives up.
Error(fuse, quick, util) == IF Fuse THEN fuse ELSE IF Quick THEN quick ELSE util
EINVAL == 22
EIO == 5

Exit(c) == pc' = "exit" /\ code' = c /\ UNCHANGED <<call, gptDev, sector, part, start, paddr>>
Continue(p) == pc' = p /\ UNCHANGED <<call, gptDev, sector, part, start, paddr, code>>

\* The options of a call are the program, the offset (-s), the partition (-p),
\* whether there is a second device (-f) and the sector size (-o blksize=).
ParseOptions ==
  /\ pc = "args"
  /\ pc' = "main"
  /\ part' = call.part
  /\ start' = [start EXCEPT ![Main] = call.offset]
  /\ UNCHANGED <<devVars, call, gptDev, sector, paddr, code>>

OpenMain ==
  /\ pc = "main"
  /\ OpenDevice(Main)
  /\ Continue(IF call.fusion THEN "tier2" ELSE "devices")

OpenTier2 ==
  /\ pc = "tier2"
  /\ phase[Main] \in {"open", "failed"}
  /\ OpenDevice(Tier2)
  /\ Continue("devices")

Given == IF call.fusion THEN {Main, Tier2} ELSE {Main}
Opened == \A d \in Given : phase[d] = "open"

NoDevice ==
  /\ pc = "devices"
  /\ \A d \in Given : phase[d] \in {"open", "failed"}
  /\ ~Opened
  /\ Exit(Error(1, -1, EIO))
  /\ UNCHANGED devVars

\* Only apfs-fuse has an offset, and with one looks for no partition map.
CheckDevices ==
  /\ pc = "devices"
  /\ Opened
  /\ UNCHANGED devVars
  /\ IF start[Main] >= GetSize(Main) THEN Exit(1)
     ELSE IF start[Main] = 0 THEN Continue("gpt")
     ELSE IF call.fusion THEN
       pc' = "gpt" /\ gptDev' = Tier2 /\ UNCHANGED <<call, sector, part, start, paddr, code>>
     ELSE Continue("container")

\* GptPartitionMap::LoadAndVerify: the header is looked for at the sector size
\* of the device, then at 4096 bytes.
ReadHeader ==
  /\ pc = "gpt"
  /\ Read(gptDev, call.blksize, call.blksize)
  /\ pc' = "header"
  /\ sector' = call.blksize
  /\ UNCHANGED <<call, gptDev, part, start, paddr, code>>

Got == asked = Nothing /\ answer # Nothing

\* The results of these reads are not looked at, what they delivered is.
Signature ==
  /\ image[gptDev].gpt # Nothing
  /\ image[gptDev].gpt.sector = sector
  /\ answer.data # <<>>
  /\ answer.data[1] = sector

RetryHeader ==
  /\ pc = "header"
  /\ Got
  /\ ~Signature
  /\ sector # BigSector
  /\ Read(gptDev, BigSector, BigSector)
  /\ sector' = BigSector
  /\ UNCHANGED <<call, pc, gptDev, part, start, paddr, code>>

\* The map starts behind the header.
MapSectors == 1
ReadMap ==
  /\ pc = "header"
  /\ Got
  /\ Signature
  /\ image[gptDev].gpt.good
  /\ Read(gptDev, 2 * sector, MapSectors)
  /\ pc' = "map"
  /\ UNCHANGED <<call, gptDev, sector, part, start, paddr, code>>

\* After the map of a device, that of the next, then the container.
Proceed ==
  IF gptDev = Main /\ call.fusion
    THEN pc' = "gpt" /\ gptDev' = Tier2
    ELSE pc' = "container" /\ UNCHANGED gptDev

NoGpt ==
  /\ \/ pc = "header" /\ Got /\ ~Signature /\ sector = BigSector
     \/ pc = "header" /\ Got /\ Signature /\ ~image[gptDev].gpt.good
     \/ pc = "map" /\ Got /\ answer.data # <<2 * sector>>
  /\ Proceed
  /\ UNCHANGED <<devVars, call, sector, part, start, paddr, code>>

Entries(d) == image[d].gpt.entries
IsEmpty(e) == e.first = 0 /\ e.last = 0

\* The search ends at the first entry that is not in use.
FindFirstAPFSPartition(d) ==
  LET e == Entries(d)
      found == {i \in DOMAIN e : e[i].apfs /\ \A j \in 1..i : ~IsEmpty(e[j])}
  IN IF found = {} THEN NoPartition
     ELSE (CHOOSE i \in found : \A j \in found : i <= j) - 1

\* The entry is taken unseen.
PartitionStart(d, p) ==
  IF p + 1 \in DOMAIN Entries(d) THEN Entries(d)[p + 1].first * sector ELSE 0

\* partition_id is that of the user for the main device, and used again for tier 2.
UseMap ==
  /\ pc = "map"
  /\ Got
  /\ answer.data = <<2 * sector>>
  /\ LET p == IF gptDev = Main /\ part # NoPartition THEN part
              ELSE FindFirstAPFSPartition(gptDev)
     IN /\ part' = p
        /\ start' = IF p = NoPartition THEN start
                    ELSE [start EXCEPT ![gptDev] = PartitionStart(gptDev, p)]
  /\ Proceed
  /\ UNCHANGED <<devVars, call, sector, paddr, code>>

InitContainer ==
  /\ pc = "container"
  /\ Read(Main, start[Main], Block)
  /\ Continue("superblock")

\* The magic number of block 0; what else Init does is in module Container.
Superblock ==
  /\ image[Main].container # NoContainer
  /\ answer.ok
  /\ answer.data[1] = image[Main].container

NoSuperblock ==
  /\ pc = "superblock"
  /\ Got
  /\ ~Superblock
  /\ Exit(Error(EINVAL, -1, 0))
  /\ UNCHANGED devVars

LoadContainer ==
  /\ pc = "superblock"
  /\ Got
  /\ Superblock
  /\ answer' = Nothing
  /\ Continue("volume")
  /\ UNCHANGED <<opening, cache, asked>>

\* GetVolume, as module Volume has it; the other programs go on without volumes.
GetVolume ==
  /\ pc = "volume"
  /\ \/ Continue("session")
     \/ Fuse /\ Exit(1)
  /\ UNCHANGED devVars

\* ApfsContainer::ReadBlocks: the address tells the device.  Nobody keeps an
\* address from being that of tier 2 where there is none.
PartStart(tier2) == IF tier2 THEN start[Tier2] ELSE start[Main]

\* Mutant: the block is looked for from the start of the disk.
FromDiskStart(tier2, p) == Block * p

BlockAddr(tier2, p) == PartStart(tier2) + Block * p

ReadBlock(tier2, p) ==
  /\ pc = "session"
  /\ tier2 => call.fusion
  /\ Read(IF tier2 THEN Tier2 ELSE Main, BlockAddr(tier2, p), Block)
  /\ paddr' = p
  /\ UNCHANGED <<call, pc, gptDev, sector, part, start, code>>

\* The session ends: both devices are closed.
Unmount ==
  /\ pc = "session"
  /\ asked = Nothing
  /\ Exit(0)
  /\ phase' = [d \in Devices |-> IF phase[d] = "open" THEN "closed" ELSE phase[d]]
  /\ answer' = Nothing
  /\ UNCHANGED <<image, kind, key, failed, table, next, node, cache, asked>>

Starting ==
  \/ ParseOptions \/ OpenMain \/ OpenTier2 \/ NoDevice \/ CheckDevices
  \/ ReadHeader \/ RetryHeader \/ ReadMap \/ NoGpt \/ UseMap
  \/ InitContainer \/ NoSuperblock \/ LoadContainer \/ GetVolume

\* A device acts for the program that opened it or reads from it.
DeviceStep == ((\E d \in Devices : Opening(d)) \/ Serving) /\ UNCHANGED main

Next ==
  \/ Starting
  \/ DeviceStep
  \/ \E tier2 \in BOOLEAN : \E p \in 0..MaxPaddr : ReadBlock(tier2, p)
  \/ Unmount

Spec == MountInit /\ [][Next]_vars

\* The user types a password when asked; whether anything is read later, or
\* the file system ever unmounted, is left open.
FairSpec == Spec /\ WF_vars(Starting) /\ WF_vars(DeviceStep)

-----------------------------------------------------------------------------
\* The bands of the image have not the size that the code takes for given.
Odd(d) == image[d].form = "sparse" /\ image[d].band # Chunk
Broken(d) == Odd(d) \/ (kind[d] # "linux" /\ failed[d])

\* An image that could not be opened as what it is, and is taken as it is.
Misread(d) == kind[d] = "linux" /\ image[d].form \in {"udif", "sparse"}

HasMap(d) == image[d].gpt # Nothing /\ image[d].gpt.good

\* Where the user and the partition map say that the container starts.
APFSEntries(d) == {i \in DOMAIN Entries(d) : Entries(d)[i].apfs}
FirstSector(d, i) == Entries(d)[i].first * image[d].gpt.sector
Meant(d) ==
  IF d = Main /\ call.offset # 0 THEN call.offset
  ELSE IF ~HasMap(d) THEN 0
  ELSE IF d = Main /\ call.part # NoPartition THEN
    IF call.part + 1 \in DOMAIN Entries(d) THEN FirstSector(d, call.part + 1) ELSE NoContainer
  ELSE IF APFSEntries(d) = {} THEN 0
  ELSE FirstSector(d, CHOOSE i \in APFSEntries(d) : \A j \in APFSEntries(d) : i <= j)

\* The causes for which the container of a device is not found: the device is
\* damaged, locked or odd, its map has another sector size, or there is no
\* container where options and map say.
Lost(d) ==
  \/ image[d].bad # {} \/ Odd(d)
  \/ image[d].crypt # "no" /\ key[d] # "right"
  \/ HasMap(d) /\ image[d].gpt.sector \notin {call.blksize, BigSector}
  \/ image[d].container \notin {Meant(d)} \ {NoContainer}

(* Whatever kind of image a device is, and through whatever sequence of     *)
(* reads, it behaves as a flat disk: what it delivers with success is what   *)
(* is in the image, until its stream failed or where the bands of a sparse   *)
(* image are not of 1 MB.                                                   *)
Ready(d) == kind[d] # "none"
Contents(d) ==
  LET f == image[d] IN
  CASE kind[d] = "linux" -> [u \in 0..(FileLen(f) - 1) |-> Stored(f, u)]
    [] kind[d] = "rawdmg" -> [u \in 0..(f.units - 1) |->
                                IF key[d] = "right" \/ f.crypt = "no" THEN Body(f, u) ELSE Garbage]
    [] kind[d] = "dmg" -> [u \in 0..(f.size - 1) |->
         IF \E i \in DOMAIN Sections(f) :
              Sections(f)[i].method \in {"zero", "ignore"} /\ Holds(Sections(f)[i], u)
           THEN Zero ELSE u]
    [] kind[d] = "sparse" -> [u \in 0..(f.size - 1) |->
         IF \E b \in Used(f) : SlotOf(f, b) - 1 = u \div f.band THEN u ELSE Zero]

OfMain(x) == IF x = Nothing \/ x.dev # Main THEN Nothing ELSE x
MainDisk == INSTANCE FlatDisk WITH
  disk <- IF Ready(Main) THEN Contents(Main) ELSE Nothing,
  asked <- IF OfMain(asked) = Nothing THEN Nothing ELSE [offs |-> asked.offs, len |-> asked.len],
  answer <- OfMain(answer),
  broken <- Broken(Main)
MainIsFlat == MainDisk!FlatSpec

(* A block of the container that is read with success, from either device,  *)
(* is the block with that number of the container the user meant, however    *)
(* images, encryption, sector sizes and partitions are nested around it.     *)
(* Where the main container is was seen in its superblock; that of tier 2 is *)
(* taken unseen.                                                            *)
RightBlock(d) ==
  LET at == image[d].container + Block * paddr
  IN /\ Len(answer.data) = Block
     /\ \A i \in 1..Block :
          at + i - 1 \in DOMAIN Contents(d) => answer.data[i] = Contents(d)[at + i - 1]
BlocksRight ==
  pc = "session" /\ answer # Nothing /\ answer.ok =>
    \/ Broken(answer.dev)
    \/ IF answer.dev = Main THEN Misread(Main) ELSE Lost(answer.dev)
    \/ RightBlock(answer.dev)

(* A program gives up on the way to the container only for a cause: a        *)
(* device that is missing, or what makes it lose the container of the main   *)
(* device.  An image with an APFS partition behind an entry that is not in   *)
(* use has none of these causes: README.md:83-85 has the first APFS          *)
(* partition looked for.                                                    *)
MayFail == Lost(Main) \/ \E d \in Given : image[d].form = "absent"
OpensIfItCan ==
  [][pc' = "exit" /\ pc \in {"devices", "superblock"} => MayFail]_vars

\* An entry that is not in use is before one of APFS.
HasGap(d) ==
  HasMap(d) /\ \E i, j \in DOMAIN Entries(d) : i < j /\ IsEmpty(Entries(d)[i]) /\ Entries(d)[j].apfs

(* Every program reaches its session or its end, and every read its answer,  *)
(* for every image, unless the program comes to stay where it is: it crashed, *)
(* inflate comes to no end (Util.cpp:452), or idx is read again and again     *)
(* (DeviceSparseImage.cpp:121).  That takes a stream that has failed, or      *)
(* bands that are not of 1 MB.                                              *)
Circles(d) == phase[d] = "index" /\ next[d] # 0 /\ node[d] # Nothing /\ next[d] = node[d].next
Stays(d) ==
  /\ phase[d] \in {"crashed", "hung"} \/ Circles(d)
  /\ failed[d] \/ Odd(d)
Lingers == \E d \in Devices : Stays(d)
Ends ==
  /\ <>(pc \in {"session", "exit"} \/ Lingers)
  /\ (asked # Nothing) ~> (asked = Nothing \/ Lingers)
=============================================================================
