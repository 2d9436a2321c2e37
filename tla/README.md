# A verification of apfs-fuse in TLA+

apfs-fuse is a read-only FUSE driver for Apple's file system APFS. This
directory holds TLA+ models of its core, the configurations with which TLC
checks them on small instances, and proofs, checked by TLAPS, that the most
important properties hold for instances of every size. Everything is
translated from the code under `src/`; `PROJECT.json` names, for every
definition, the lines it stands for.

The driver never writes, and it runs in one thread (`fuse_session_loop`). What
makes it hard is not concurrency but the state it meets and keeps:

* it reads a disk that *another* program wrote, and that program may have lost
  power at any moment, taken and deleted snapshots, and laid trees, extents and
  checkpoints out in ways a test image hardly has;
* any block may be unreadable, and every caller of a read has to notice;
* it keeps caches (tree nodes, block buffers, listings, keys) whose content
  must still be right when it is used again after any sequence of calls;
* the kernel calls it in sequences nobody wrote down (directory offsets of
  earlier replies, reads across extents).

## Inventory

| Part (source) | State | Operations | Hard behaviour | Right means | Module |
|---|---|---|---|---|---|
| Container mount (`ApfsContainer.cpp` Init, `CheckPointMap.cpp`) | `m_nx`, checkpoint maps, spaceman, key manager | read block 0, scan the descriptor ring, load maps, object map, spaceman, keys | power loss of the writer, torn blocks, ring wrap-around, failing reads | one complete checkpoint, the newest or the requested one, is used, and no other | `Container` |
| B-tree search (`BTree.cpp` FindBin) | locals | five modes of search | ends beside the entry, both ends of the node | right entry, halving | `FindBin` |
| B-tree (`BTree.cpp`) | `m_nodes`, shared pointers held by operations, clients and nodes | Init, Lookup, GetIterator, GetIteratorBegin, next, GetNode with eviction | eviction during operations, climbing to a parent after it, empty leaves, unreadable nodes | it is an ordered map; the cache is bounded | `OrderedMap`, `BTree` |
| Object maps (`ApfsNodeMapperBTree.cpp`, `ApfsVolume.cpp`) | `m_xid` of each tree | Lookup(oid, xid) | snapshots, gaps, deleted objects, neighbours | every object in the version of what is mounted | `ObjectMap` |
| Volume mount (`ApfsVolume.cpp`, `ApfsContainer::GetVolume`) | `m_is_encrypted`, cipher, trees | Init, MountSnapshot, ReadBlocks | snapshots, failures between the phases | right key or none | `Volume`, `ReadFile` |
| Key manager (`KeyMgmt.cpp`) | key bags, `m_is_unencrypted` | GetVolumeKey, GetPasswordHint, LoadKeybag | several unlock records, damaged ones, passwords typed | any record may open, nobody is asked in vain | `Volume` |
| Directory tree (`ApfsDir.cpp`) | `m_tmp_blk` | ReadFile, LookupName, ListDirectory, GetInode, ListAttributes, GetAttribute | extents, holes, partial blocks, hash collisions, extended fields of any order | the bytes, names and attributes of the disk | `ReadFile`, `Directory`, `OpenFile` |
| FUSE operations (`ApfsFuse.cpp`) | open files, `Directory::dirbuf` per handle | lookup, getattr, open, read, release, opendir, readdir, releasedir, readlink, xattrs, main | offsets, replies cut anywhere, handles in parallel, sizes the kernel keeps | listings complete, reads right, sizes true | `ReadFile`, `Directory`, `OpenFile`, `Mount` |
| Transparent compression (`Decmpfs.cpp`, `Util.cpp`) | decompressed data of an open file | DecompressFile | damaged streams, strict and lax mode, a shorter last block | data or an error | `OpenFile`; `Adc` |
| Disk images (`Device.cpp`, `DeviceDMG`, `DeviceSparseImage`, `DiskImageFile`) | section cache, band table, stream state, image key | OpenDevice, Open, Read | reads across sections, failures that stick, wrong passwords, band sizes | a flat disk | `FlatDisk`, `DiskImage`; `Adc` for sections |
| Partition map, opening (`GptPartitionMap.cpp`, `main` of three programs) | header and entries, starts of both devices | LoadAndVerify, FindFirstAPFSPartition | two sector sizes, damaged headers, gaps, Fusion drives | the container meant | `Mount` |
| Names (`Unicode.cpp`, `Util.cpp`) | tables | HashFilename, normalisation | marks in any order, names cut in a character | equal names, equal hashes | `Names`; a given function in `Directory` |
| Cryptography (`src/Crypto`) | digest buffers, keys | SHA, HMAC, PBKDF2, RFC 3394, XTS, Fletcher-64 | messages that end near a block's end, tweaks across units | what the standards say | `Digests`, `Ciphers`, `Checksums`, `Codecs`; a lock with one key in `Volume` |
| Property lists, Base64, DER (`PList.cpp`, `Asn1Der.cpp`, `KeyMgmt.cpp`) | an index into the text | Parse, DecodeKEK, DecodeVEK | documents that are cut off, fields missing | the whole document or nothing | `PList`, `Codings`, `Der`, `Codecs` |
| Dump tools, apfsutil | - | - | only printing, once a container is open | - | opening in `Mount` |

How they interact: a FUSE call makes an `ApfsDir` on the one `ApfsVolume`, which
searches the file system tree (`BTree`); the tree asks its node mapper (an
object map, itself a `BTree`) where a node is, and the container for the block;
the container asks the device. All of these are plain calls that return before
the caller goes on; results travel back as `bool`s, which is where failures get
lost.

## The modules

`EXTENDS` and `INSTANCE`: `BTree` implements `OrderedMap` (INSTANCE with a
refinement mapping); each `X_proofs` and `MCX` extends `X`, `BTree_proofs` also
`FindBin`, and `Volume_proofs` also `ObjectMap`. The modules compose by
promise: `BTree` takes for an answer of `FindBin` any index that `FindBin`'s
`ResultCorrect` allows (that this is right is the theorem `SearchFinds`), `ObjectMap`, `ReadFile` and
`Directory` rely on `OrderedMap` (the last record at or before a key, the
records in order), and `ReadFile` and `Volume` rely on `Container` for a volume of
one checkpoint. `Mount` EXTENDS `DiskImage` and composes devices, partition map and
the programs' `main`; its main device implements `FlatDisk` (INSTANCE with a
refinement mapping), which is what `Container` takes a device for. `Codecs`
EXTENDS the algorithms that are proved about (`Digests`, `Ciphers`, `Checksums`, `Adc`),
and `Algorithms` EXTENDS it and has an INSTANCE of each of the others. `MCAlgorithms` EXTENDS
`Algorithms` and `FindBin`: its steps are calls of an algorithm, or those of a search.

**FindBin**: `BTree::FindBin`, a comparison at a time. The keys of a node
appear as the results of comparing them, all a search can see. `beg`, `end`, `mid`
and `rc` are the locals, `stage` names the part of the function.

**OrderedMap**: what a B-tree promises: one question at a time; the answer is
right, `Failed` (a block could not be read) or the program crashes; a walk visits
the records in order.

**BTree**: `m_nodes` is the function `nodes` from cached nodes to parent and
index; what shared pointers keep alive is `Pinned` (the operation's node, the
client's entry and iterator). One action per descent step: `GetNode` of a cached
or an uncached node, the eviction loop as part of the insertion (it drops what
only the map holds), the answer in the leaf, the climb and descent to the
next leaf. A node is read or fails to be read at every `GetNode`. The tree on disk
is constant, and `TreeNested` and its neighbours state its shape.

**ObjectMap**: the environment is the writing file system, which runs
transactions that write and delete objects, takes and deletes snapshots and keeps
an entry exactly as long as a snapshot needs it. `MountLive` and `MountSnapshot` choose
the transaction the tree is read as of, `GetNode` finds the last entry at or
before `(oid, xid)` in the order of `CompareOMapKey`.

**Container**: the environment writes checkpoints (spaceman, map blocks, superblock, now
and then block 0) and loses power between any two writes or in the middle of one.
Then `Init` runs block by block: `ReadBlockZero`, `ScanBlock`, `Reread`,
`CheckFusion`, `ReadMap`, `InitOmap`, `LoadSpaceman`, `InitKeys`, each with the
read that may fail and with what the code does then, which in three places is
nothing.

**ReadFile**: `apfs_read` of an uncompressed file, one round of the loop of
`ApfsDir::ReadFile` per step; `ApfsVolume::ReadBlocks` decrypts block by block or
through the extent's tweak. A byte is a number that names which byte of which
block it is, garbled by the wrong tweak.

**Directory**: `LookupName` and `ListDirectory` under four FUSE calls. The kernel
is the environment: it chooses the size of every reply, drops what did not fit,
continues at the last offset, rewinds and seeks, on two handles at a time.
`apfs_readdir` takes a step for the iterator's start (`ListFrom`), one per record
(`ListRecord`, each with its `DirbufAdd`), one at the first record that is none of
the directory's (`ListEnd`) and one for the reply; a buffer once filled is used again.
A node that cannot be read crashes a listing (`Crash` in `BTree`), so no listing is
cut short by one. Names are compared as the three kinds of volumes do: bytes, hash of the normalised or of
the folded name and then bytes.

**Volume**: `GetVolume`, phase by phase, for live volumes and snapshots: the
superblock, the snapshot's metadata, the object map, the search for the key
through the unlock records of the key bag (an entry per step), the password asked
for once, the unwrapping of the volume's key. A wrap is a lock that one password
opens.

**FlatDisk**, **DiskImage**, **Mount**: a device is what `OpenDevice` makes of an
image file. Opening goes through the phases of the code: a signature of encryption
at the end or the start, a password, the trailer and list of a DMG, the index
nodes of a sparse image, and the plain file if all else fails. A read goes on
section by section or band by band, one per step, so that what an earlier read
left in the section cache or in the stream (`failed`, its failbit) meets the next. A device
may also come to an end of its own, at which it stays: `crashed`, or `hung` in a loop of a
decompressor (`AfterUnpacking`).
Sectors are numbers: sector u of the disk is u, an undecrypted or a stale one is
something else. The search for the section of a DMG is a step per round, as in the code.
`DiskAssumption` and `MountAssumption` say what images hdiutil writes and where a
partition map and a container can lie. `Mount` is `main` of apfs-fuse, apfs-dump-quick and apfsutil from
the options to the container, and then `ApfsContainer::ReadBlocks` on either
device, through one partition map or two.

**OpenFile**: what the kernel is told about one file. `Stat` finds the size
in one of three places; `known` is what the kernel then keeps. `OpenToWrite` is refused; `Open` of a
compressed file runs `DecompressFile` a block per step, with a `loss`, the point
up to which the resource fork can be read, and replies; `lax` is the option `-l`.
What zlib and the other decoders return for damaged data is every outcome they
allow, two of which are a loop that never ends and a crash.

**Digests**, **Ciphers**, **Checksums**, **Adc**, **Der** and **Names**, **PList**,
**Codings**: pure algorithms as operators. The actions of **Codecs** call the first five
with inputs of sets that are constants, those of **Algorithms** the others with every input
of a small set; beside each action stands what the result should be, written from the
standard or from the encoder and not from the code. The loops of the first five are
recursive functions over the rounds, so that they can be proved about. A key of a keybag
is the contents of its fields, each there or left out and of any length that two bytes hold
(`ke_keylen` has two, `DiskStruct.h:1321`); `Blob` encodes it as X.690 has it, and the
calls get it cut off anywhere. The compression
function of a digest is a symbol, so two digests are equal only if the same blocks went
into them in the same order; a block cipher is any permutation, `XTS` has one for each of its two keys, and
`bswap_be` of the step counter of a key wrap is any map of words (a real swap in the run); the width of words, the
length of blocks and the modulus of a checksum are constants. The code keeps keys of up
to six words and blocks of up to 64 KiB, where no counter or sum overflows, so
the models have none that do.

Conventions: `pc` (in `FindBin` and `Directory` `stage`) is the place in the function; a variable named after a C++
variable has its value; operators marked `Mutant` are wrong versions of a
definition with which each property is tested (`PROJECT.json`, "mutants"): the
property must fail when the mutant replaces its original.

## What the runs check

| Run | Shows | Bounds, and why they are enough |
|---|---|---|
| `btree` | `BTree` implements `OrderedMap`; parents of cached nodes are cached; what is in use stays cached; the cache stays within one of its limit; lookups survive unreadable nodes; every operation ends | three levels, 8 nodes, room for 5, so eviction happens under every operation and next to every pinned node; keys before, on, between and after the records; a limit smaller than the nodes a single operation pins would break `CacheBounded`, the code's 8192 is far from it |
| `container` | newest complete checkpoint, or the requested one if it is there; its own maps and spaceman; no failure without a cause; the mount ends | ring of 7 for checkpoints of 2 or 3 blocks: reuse of the ring after three checkpoints, 6 checkpoints, so every block and data slot is overwritten; power loss at every write; any one block unreadable for good and every read failing at times; the proofs cover every ring |
| `object_map` | every object in the version of what is mounted | 2 objects (own and neighbour), 5 transactions: two snapshots with versions before, between and after, deletion of objects and of snapshots; the proof covers every size |
| `read_file` | every byte right; every round advances; every read is answered | 4-byte blocks, so each combination of start and end within a block; data, hole, data out of order, neighbours before and after, empty file; plain, encrypted, sealed; every range up to a block past the end; any one block unreadable |
| `directory` | listings complete and without doubles; listings agree with lookups | three kinds of volume, a hash collision, names equal but for case or composition; two handles, replies of 1 or 2 entries, so a listing is cut at every place; the proofs cover every directory and size |
| `volume` | right key or none; mounts if it can; asks only if needed | bags of up to 4 entries: the right record first, behind another, behind a hint and behind a damaged one; right, wrong and no password; a missing snapshot; snapshots of volumes whose device decrypts; any one part unreadable; the proofs cover every bag |
| `mount` | a block read with success is the block meant; the main device is a flat disk; no program gives up without a cause; a program that comes to no end was in one of the loops or crashes of the code named below, over a stream that had failed or bands of another size | a DMG with raw, packed and empty sections, a sparse image of three nodes with bands out of order and one missing, an encrypted image, each with any one sector unreadable, and one with its key records unreadable; maps of both sector sizes, damaged, without APFS, without gaps; offset, partition and Fusion options; blocks of two sectors, so that every read may cross a section or band; up to any number of reads |
| `mount_gap` | (must fail) the first APFS partition is found | a map whose entry before that of APFS is not in use |
| `open_file` | replies of read are the contents up to the first damage; the kernel's size is that of the data; what is undamaged opens; an open is answered | blocks of 2 units, files of 0 to 7 with a last block full or not, stored and compressed blocks, every algorithm, inline and in a fork; the loss at every point of the fork; files that lack a header or a fork; two handles; a 32-bit range of three blocks, beyond which the sizes wrap |
| `algorithms` | the binary search gives the right entry in every mode and its interval halves; names, digests, derived keys, unwrapped keys, blocks decrypted, checksums, keys in DER, property lists, ADC sections | nodes of 0 to 7 entries and every key position, which has all four ways the halving can round (the proofs cover every size); all names of up to 2 of 18 characters and up to 4 marks, whole or cut in a character; messages up to two blocks and one, cut in two at every place; all single damages of wrapped keys and of blocks of three words; every key cut at every byte, each field missing, shorter or longer; property lists three levels deep cut at every tag; every ADC encoding of every text of up to 6 of two letters, and a copy from afar |

`CHECK_DEADLOCK FALSE` is set where the system does stop: mounted, failed,
crashed or hung for the mounts, a crash for the tree (`BTree`) and the last transaction
of `ObjectMap`'s bound is no deadlock because mounting remains possible.

Bounds on counters are constants of the modules: `MaxCnt` (entries of a node),
`MaxXid` (checkpoints, transactions), `MaxMaps`, `Ring`, `Slots`, `IndexMod` (the
range of `uint32_t`, 2^32 in the build), `MaxNodes` (8192 in the build), `BlkSize`.

### Findings: runs that must fail

Each of these runs checks one property, stated by a document, a comment or an
assertion of the repository, and TLC shows how the code breaks it.

* `container_wrap`: checkpoint maps are read from consecutive blocks, past the
  end of the ring of descriptor blocks if the checkpoint wraps around
  (`CheckPointMap.cpp:28`); the assertion of line 36 fails. The dump of the same
  structures wraps (`ApfsContainer.cpp:381`).
* `read_file_strict`: without `-l`, a read error is still answered with wrong
  bytes (`ApfsDir.cpp:570`, `ApfsFuse.cpp:478`, usage text `ApfsFuse.cpp:647`).
* `mount_gap`: the search of the partition map ends at the first entry that is not in
  use (`GptPartitionMap.cpp:150`), and a program gives up on an image whose APFS partition
  lies behind one. The documentation has the first APFS partition looked for and used
  (`src/README.md:83-84`). `OpensIfItCan` knows no such excuse; the images of `mount` have no gap.
  For the same reason a block of tier 2 may be read from the wrong place (`BlocksRight`).

### Observations

Cases the models contain, which the properties have to excuse by name, or code
that was met on the way. No document was found that promises otherwise, so
they are not listed as findings; of these cases the runs and proofs show nothing.

* The newest superblock is read a second time into the buffer of the scan and the
  result is not looked at (`ApfsContainer.cpp:127`): after a failed read an older
  checkpoint may be mounted. `MountsNewest` excuses that read.
* `xid=N` with a checkpoint that is not in the ring any more mounts that of block
  0 (`ApfsContainer.cpp:120`). `MountsRequestedIfThere` is about the others.
* `MountSnapshot` wants a key wherever the volume's flag says so, `Init` only if
  the key bags are encrypted (`ApfsVolume.cpp:173` and `:71`): a snapshot of a
  volume whose device decrypts asks for a password and is decrypted a second time.
  The properties of `Volume` excuse `PlainSnapshot`.
* On case-insensitive volumes a name is hashed folded but compared by bytes
  (`ApfsDir.cpp:790`), so a name in another case is not found.
* `LoadKeybag` checks the blocks of a key bag as one (`KeyMgmt.cpp:622` on), and
  `DecodeKeyHeader` may use a length it never got if a field is missing
  (`KeyMgmt.cpp:710`); `HeadersWhole` allows a crash there.
* `SHA256::Final` pads a message of 55 bytes with a block too many
  (`Sha256.cpp:154`); `DigestsRight` excuses these lengths.
* `CanonicalReorder` of an empty name runs to 2^64 - 1 (`Unicode.cpp:267`);
  `NamesRight` allows a crash there and nowhere else.
* Once a stream of an image has failed, every later read of it delivers what the buffer
  held, and the section of a DMG in the cache stays as it is (`DiskImageFile.cpp:185`,
  `DeviceDMG.cpp:331`). `Broken` names these devices, of which `BlocksRight` and
  `MainIsFlat` say no more.
* A packed section that could not be read is decompressed all the same
  (`DeviceDMG.cpp:335`): `DecompressZLib` may stay in its loop (`Util.cpp:452`),
  `DecompressADC` writes past the section or fails its assertions (`Util.cpp:482-515`). The
  phases `hung` and `crashed` of `DiskImage` are these ends, as crashes are a property
  list that is no XML, of which `DeviceDMG::ProcessHeaderXML` calls a member of a null pointer
  (line 427), and unread key records (`DiskImageFile.cpp:455-478`).
* An unreadable index node of a sparse image makes `DeviceSparseImage::Open` read
  the node before it for ever (line 121; `Circles` is exactly that state), and bands of
  another size than 1 MB are looked up wrongly (line 162; `Odd`).
* The number given with `-p` is not checked (`GptPartitionMap.cpp:168`).
* The rest of a compressed file behind its first damage may be zeros of a fork that could not
  be read (`ApfsDir.cpp:688`), or bytes nobody wrote: a damaged zlib stream counts as a full
  block (`Util.cpp:456`). `ReadsRight` is about the bytes before the first damage. A stream
  that ends too early keeps `DecompressZLib` in its loop (`Util.cpp:452`); compressed
  files of 4 GB and more get a buffer too small (`Decmpfs.cpp:161`).
* `apfs_lookup` replies with a size of 0 where the size could not be found out
  (`ApfsFuse.cpp:385`), `apfs_getxattr` cuts an attribute that does not fit.
* Code that nothing calls: `DeviceVDI`, `StrCmpUtf8NormalizedFolded`, and the
  branch of `apfs_stat_internal` for algorithms in the resource fork.

### Fairness

The driver is sequential and nothing blocks but the device and the user, so weak
fairness of the driver's own steps is all the liveness properties use: `FindBin`'s
loop, the steps of a tree operation (`Answered`, not the client's next question),
the mount (`MountEnds`, not the writer's steps), the rounds of a read
(`ReadFile`'s `Answered`), the blocks of a compressed file (`OpenFile`'s), and in
`Mount` the steps of `main` and of its devices (`Ends`), which include a user who
types a password when asked. Whether anything is read or unmounted is left open. No property depends on fairness towards the
environment: the writing file system, the kernel and failing reads are free to do
anything or nothing.

## What is proved

The proofs hold for every value of the constants that the named assumptions allow;
TLC evaluates these assumptions in the runs.

* **BTree_proofs**, on `FindBin` (`MaxCntAssumption`). `SearchInv`: entries before `beg` are below
  the key and entries after `end` above it, and at the end the two meet; this is what
  `ResultCorrect` needs of the loop. `LocalsCorrect`, `SearchCorrect`, and
  `SearchLogarithmic`, the halving that bounds the rounds. `SearchFinds` joins the two
  modules: every node of the tree, seen from every key, is one that the search is right
  about, and in each mode the tree uses the result is the index `Found` names.
* **BTree_proofs**, on `BTree` (`RecordsSorted`, `TreeTyped`, `TreeCovers`, `TreeNested`).
  `CacheInv`: a cached node's parent is cached and holds it at the index
  remembered, pinned nodes are cached. `ControlInv`: on the way down, the
  records of the node reached contain the answer if there is one (`OnPath`); on the way up,
  the node ends where the leaf left ends; on the way across, it begins just after.
  The climb is right only because the parent is still there, so the refinement
  needs both. `CacheCorrect` has the invariants, `Implementation` the refinement:
  `Init` maps to `MapInit`, every step to a step of the map or none (`MapStep`). This
  includes the empty tree, where an index is 2^32 - 1 for a moment. `TypeCorrect`,
  `PinnedNeverEvicted` and `LookupsNeverCrash` are the parts of the invariant that the
  run checks by name.
  The bound of the cache needs a limit of at least three times the level of the
  root, of which 8192 is far above. `SizeInv`: cached nodes of one level share no
  record and are below the root. If the sweep could evict nothing, every cached node
  would be above one that a pointer holds (`AboveTip`), and two of a level above the
  same one are equal (`OnePerLevel`); so they could be numbered by pointer and level
  (`Number`), and there would be no more of them than the limit (`RoomForHeld`). Hence a
  sweep evicts something whenever the map is over its limit: `CacheStaysBounded`. The
  run has a limit of 5 for a root of level 2, one less than the theorem asks for.
* **Volume_proofs**, on `Volume` (`VolumeAssumption`). `IInv`: a search runs only if a key is
  needed, no record before the current one opens, the search ended in success only
  with a record that opens, and decryption is set up at its end alone
  (`Conforms`); snapshots of volumes whose device decrypts are excused in the
  properties themselves, so the theorems have no hypothesis but the assumption.
  `TypeCorrect` (which no run checks beside it), `MountedWithRightKey`,
  `FailsForAReason`, `AsksWithReason`.
* **Volume_proofs**, on `ObjectMap` (`ObjectMapAssumption`). `VersionsKept`: for the live file
  system and every snapshot, the entry of every object shown exists and no other
  entry of the object lies between it and the snapshot's transaction. Each
  transaction keeps that for all snapshots at once. `OmapTypeCorrect`, `SnapshotsRight`.
* **OpenFile_proofs** (`BlockAssumption`, `VolumeAssumption`: the disk keeps one size
  of a compressed file and as many blocks as it needs). `BufferOK`: while a file is
  decompressed, the buffer is right up to the next block or the first damage,
  whichever comes first, and as long as the size says; `HandleOK` is what that leaves
  in an open file. A step needs that a block begins within the file (`BlockInFile`:
  for zlib from the table, otherwise from the buffer), that damage is never behind the
  next block unnoticed (`DamageAhead`), and, at the end, that the blocks reach the end of
  the file (`BlocksHold`, `RoundedHolds`; the last fails for 4 GB and more, which
  `Large` excuses). `SizesAgree`, `ReadsCorrect`. For an undamaged file no block lies
  behind the fork (`BlockInFork`, of any size), so every loop runs to its end: `UndamagedOpens`.
* **ReadFile_proofs** (`BlkSizeAssumption`; `VolumeAssumption`: the extents of the
  file follow each other from 0 to its end without overlap, and no extent of an
  encrypted volume has the tweak 0). `SoFar`: what lies before `offs` is right, the
  rest of the reply is still zeros. The lookup finds an extent of the file, on a sealed
  volume too, where the code does not look at the key (`ExtentOwn`); where a found
  extent ends, the file ends (`NothingBehind`), so zeros are right there; a round is
  never empty and never leaves its extent (`RoundSize`). `RepliesRight`,
  `AlwaysAdvances`, which says that the unsigned `size` never wraps.

* **Container_proofs** (`ContainerAssumption`). `DiskInv`: there is exactly one
  superblock of the newest checkpoint, the map blocks before it and its spaceman are
  as they were written (`Intact`). It is kept because the checkpoint being written
  has its blocks and its slot elsewhere (`WriterInv`, `WriteElsewhere`; less than once
  around the ring no place repeats, `ModApart`). `ScanInv`: the superblock kept is the
  newest of those scanned, or none scanned is of the requested transaction;
  `MountInv`: as long as no read failed, what was read is `Intact`'s. Two data slots and
  a ring of twice the longest checkpoint are enough. `MountsTheNewest`, `MountsOne` and
  `MountsRequested` hold whether or not checkpoints go round the end of the ring;
  `FailsOnlyForCause` needs that none does (`~Wraps`), which is the finding
  `container_wrap`.
* **Mount_proofs** (`DiskAssumption`: encrypted images have whole blocks, the sections
  of a DMG follow each other and share no sector of the file, the nodes of a sparse image
  are all reached from the first and the bands lie behind them, apart; `MountAssumption`:
  disks have room for the sectors of a map, a good map and a container lie on the disk
  where the image keeps data). The assumptions hold for every image, at any size, with
  any set of unreadable sectors, and for every option. `Invariance` has the
  invariant. `DevInv` is about one device: why it was taken for the kind it is and why its
  stream failed (`KeyInv`), that the table of a sparse image has the places of exactly the
  bands of the nodes read so far (`Indexed`; at the end of the loop these are all nodes,
  because they are closed under `next`), and that the section cache holds what its label
  says (`CacheInv`). `AskInv` is about a read under way: what is delivered so far is what the
  disk holds, and the binary search still has the section between its bounds; sections
  and bands follow without gap, so the one after is the one of the next sector.
  `Delivered` is what a read promises, also where it fails: of a device that is sound
  only a sector that the image does not keep. `MainInv` follows `main`: the
  partition map used is the one meant, after both sector sizes (`MapInv`), and the start of
  a device is where user and map say, or the device is `Lost` or its map has a gap (`Located`). From it come
  `FlatDevice` (each step of a read maps to `Answer` or to nothing; a stream that fails
  is `Break`), `RightBlocks` and `OpensWhenItCan`. These two have a hypothesis: no unused
  entry is before that of APFS in the map of tier 2, or of the main device (`~HasGap`),
  which is the finding `mount_gap`. The invariant needs the failing answers too,
  because the mains look at what a failed read left in their buffer.

* **Directory_proofs** (`DirectoryAssumption`: every entry fits into a reply, the order
  of bytes tells names apart, and no directory has two records of a name, or of names
  the volume takes for the same). The sort is
  in the tree, so `ListDirectory` is a walk in the order `Before`, which is total on
  the records of a volume even where hashes are equal. `IInv` is about each handle:
  its buffer is in that order without a gap and is, except during its own listing, all or
  nothing of the directory; offsets add up, so that an offset belongs to one entry;
  what the kernel received in this pass is a piece of the buffer that began
  after `after`, ends at `pos`, and is at the end of the buffer if `eof`. A reply keeps
  that because its first entry begins at `pos` and whole entries are a contiguous run,
  and an entry always fits, so that an empty reply means the end. `Complete`
  follows, and `Agree` with it, because a name of a directory has one record, which both
  the lookup and the walk find.

* **Codecs_proofs** (`LensAssumption`: a block has room for its mark and length, and a
  digest fits into a block and is not of the one length that SHA256 pads wrongly;
  `WordsAssumption`: exclusive or is undone by itself; `CipherAssumption`: decryption
  inverts encryption; `ModulusAssumption`; and for the inputs `MessagesAssumption`,
  `PlainsAssumption`, `BlocksAssumption`, `SectionsAssumption`, `KeybagAssumption`, which
  only say what messages, keys, blocks, sections and encoded keys are). The theorems are about
  `CodecsSpec`, whose calls are all calls of the run but the two that `Algorithms` adds. As the calls do not
  depend on each other, each theorem is one about what the called algorithm returns, and
  all the work is in its loop: a formula says what the state is after n rounds,
  and `UpToInduction` shows it. That is proved from the library's `WFMin`
  (a least counterexample would have one before it), which takes sets and not operators, as
  the provers need it; `Recursion` shows that the recursive functions of the model exist.
  * `DigestsAreRight`: after n symbols the hasher holds the whole blocks among them and the
    rest (`Hashed`, `StepHashed`), so it matters not how `Update` was given them; `Final`
    then makes the blocks that FIPS 180-4 pads the message to (`PaddedIs`, for Sha1 always, for
    SHA256 but for one length modulo 64). HMAC is that of RFC 2104 because its inner digests
    are never of that length. The sums of PBKDF2 are what was added an odd number of
    times (`OddStep`), and its blocks are counted as in RFC 8018 (`KeyRight`).
  * `CiphersAreInverted`: each step of the wrap undoes a step of the unwrap and the converse
    (`WrapUndone`, `UnwrapUndone`), so the loops go back through each other's states; hence
    nothing that was not wrapped is taken for right, which is more than that
    unwrapping inverts wrapping. The tweak's shift across two words is a doubling of the number
    they make (`NumberDoubled`), so blocks are encrypted as IEEE 1619 has it; decryption
    then inverts that block by block.
  * `DamageIsShown`: both sums of the words, modulo the modulus, as functions of the word
    that is another (`ReplacedSum`) or of the two that changed places (`SwappedSum`): they
    move by the difference of the words, so that the checksum shows it unless the words are
    the same modulo 2^32 - 1.
  * `SectionsAreWhole`: a section is data and bytes with the places where one control byte
    follows another (`IsSection`); each round goes to the next of them and has then copied the
    data up to there (`AnyRound`), because a copy that overlaps repeats what it copies
    (`CopyRepeats`). What is cut off ends before or behind the last place, never there.
  * `HeadersAreWhole`: a field that is in the blob from one place to another (`Laid`) is
    found there and the decoder goes on behind it; one that is left out is not taken for the
    next, because the tags of the fields ascend (`FieldLaid`). `NestedDecoded`, `HeaderDecoded`
    and `KeyFields` follow the decoder from field to field, where a null pointer is passed on
    (`NullPassed`); the number of iterations is read back because its digits in base
    256 are summed as Horner has it (`NumberRead`). In a blob that is cut off the outermost
    length reaches beyond the end, or is itself cut off (`DecodeTlCut`), so nothing is decoded.

Only model-checked:

* all liveness (`Answered`, `MountEnds`, `Ends`), which with fairness and `ENABLED` is
  beyond the prover;
* `NamesRight` and `ListsWhole`: the decoders of names and property lists are recursive over
  lists or trees of any shape and are written with RECURSIVE operators, behind which the
  prover has no arithmetic. What they should return is known for the small alphabet and
  the documents of `Algorithms`, which the run goes through completely.

## What is left out, and why

* Contents of blocks other than what decides the control: checksums are "verifies or
  not", a name is a member of a small set with a given hash and order, a key wrap
  opens for one password.
* The mutex of `BTree` (one thread), `BTree::reset` (no caller), everything that only
  prints.
* Garbage that passes its checksum: what a Fletcher-64 sum accepts is taken for
  what was written.
* Writing `crypto_id` 0 into an extent of an encrypted volume: the writer does not.
* The round functions of the digests and the rounds of AES and DES, and what zlib,
  LZVN, LZFSE and LZBITMAP make of undamaged data: arithmetic on bytes, for
  which test vectors say as much.
* The tables of Unicode: data. Characters outside the small alphabet are not tried.
* `BlockDumper` and the dump methods, `uuidstr`, the times and permissions of an inode,
  statfs: they print or copy.
* The devices of other systems, which wrap the same calls, and `DeviceVDI`, which
  nothing opens.
* The recognition of XML tags within characters (`FindTag`): a document is a
  sequence of tags and texts.

## What could follow

* One composed module of a mount, from `Mount` over `Container` to `Volume`, with the
  failures that pass between them.
