------------------------------ MODULE DiskImage ------------------------------
(***************************************************************************)
(* Device::OpenDevice and the devices it opens: an image file, perhaps      *)
(* encrypted (DiskImageFile), as a DMG (DeviceDMG) or a sparse image         *)
(* (DeviceSparseImage), or any file as it is (DeviceLinux).                 *)
(*                                                                         *)
(* All lengths and offsets are sectors of 512 bytes.  A sector is a number:  *)
(* sector u of the disk that was put into the image is u itself.             *)
(***************************************************************************)
EXTENDS Integers, Sequences, FiniteSets

CONSTANTS
  Devices,      \* the main device and that of tier 2
  Setups,       \* functions from devices to the image files given for them
  Passwords,    \* what a user may type
  CryptBlock,   \* sectors of a block of an encrypted image
  CryptOffset,  \* sectors of the header of a version 2 encrypted image
  Chunk         \* sectors of 1 MB, the band size DeviceSparseImage::Read takes

\* An image file has
\*   ext    what its name ends with
\*   form   "flat", "udif" (a DMG with a koly trailer), "sparse", or "absent"
\*   crypt  "no", "V1" (trailer) or "V2" (header), and locks, the passwords
\*          of its key records, or NoPassword for a record no password opens
\*   units  the sectors of the file once it is decrypted
\*   size   the sectors of the disk in it
\*   table  sections of a DMG in the order of its property list, or the nodes
\*          of a sparse image: a function from their sectors
\*   band   sectors of a band of a sparse image
\*   bad    sectors of the file that cannot be read
NoPassword == "none"

Nothing == <<>>
Zero == -1      \* a sector of zeros
Garbage == -2   \* what a buffer held before, or was decrypted or unpacked wrongly
Koly == -3      \* the trailer of a DMG
List == -4      \* the property list of a DMG
Node == -5      \* the header or an index node of a sparse image
Cipher == -6    \* an encrypted sector

\* How sections of a DMG may be packed.
Packings == {"adc", "zlib", "bzip2", "lzfse"}

\* A section s of a DMG; the i-th of the sectors it is packed into.
Packed(s, i) == 100 * (s.first + 1) + i
Sectors(a, n) == a..(a + n - 1)

VARIABLES
  image,    \* the file of each device
  phase,    \* of OpenDevice: "closed", "crypt", "head", "index", "raw", "open",
            \* "failed", "crashed" or "hung"
  kind,     \* "none", "dmg", "rawdmg", "sparse" or "linux"
  key,      \* m_is_encrypted and m_aes: "none", "right" or "wrong"
  failed,   \* failbit or badbit of m_image
  table,    \* m_sections, or m_band_offset
  next,     \* next of DeviceSparseImage::Open
  node,     \* idx of DeviceSparseImage::Open
  cache,    \* m_cache_base, m_cache_size and m_cache_data
  asked,    \* the Read under way, and what is left of it
  answer    \* what the last Read returned, and delivered

opening == <<image, phase, kind, key, failed, table, next, node>>
devVars == <<opening, cache, asked, answer>>

NoCache == [first |-> 0, count |-> 0, data |-> <<>>]

Init ==
  /\ image \in Setups
  /\ phase = [d \in Devices |-> "closed"]
  /\ kind = [d \in Devices |-> "none"]
  /\ key = [d \in Devices |-> "none"]
  /\ failed = [d \in Devices |-> FALSE]
  /\ table = [d \in Devices |-> Nothing]
  /\ next = [d \in Devices |-> 0]
  /\ node = [d \in Devices |-> Nothing]
  /\ cache = [d \in Devices |-> NoCache]
  /\ asked = Nothing
  /\ answer = Nothing

-----------------------------------------------------------------------------
(***************************************************************************)
(* The image file.                                                         *)
(***************************************************************************)
HeaderLen(f) == IF f.crypt = "V2" THEN CryptOffset ELSE 0
FileLen(f) == HeaderLen(f) + f.units + (IF f.crypt = "V1" THEN 1 ELSE 0)
Readable(f, p) == p < FileLen(f) /\ p \notin f.bad

\* ProcessMish: the sections of all partitions, in the order of the list.
Sections(f) == SelectSeq(f.table, LAMBDA s : s.method \notin {"end", "comment"})
SectionAt(f, u) ==
  {s \in {Sections(f)[i] : i \in DOMAIN Sections(f)} : u \in Sectors(s.at, s.len)}
Holds(s, o) == o \in Sectors(s.first, s.count)

\* The nodes of a sparse image are at sectors of their own, and their bands
\* follow them: <<n, k>> is the k-th place behind node n, and holds the band
\* with a number that is 1 less than the slot, or none if the slot is 0.
Places(f) == UNION {{n} \X DOMAIN f.table[n].slots : n \in DOMAIN f.table}
SlotOf(f, b) == f.table[b[1]].slots[b[2]]
Used(f) == {b \in Places(f) : SlotOf(f, b) # 0}
PlaceOf(f, b) == b[1] + 1 + f.band * (b[2] - 1)
BandAt(f, u) == {b \in Used(f) : u \in Sectors(PlaceOf(f, b), f.band)}
Bands(f) == 0..((f.size + f.band - 1) \div f.band - 1)

\* Sector u of the decrypted file.
Body(f, u) ==
  CASE f.form = "flat" -> u
    [] f.form = "udif" ->
         IF u = f.units - 1 THEN Koly
         ELSE IF u = f.units - 2 THEN List
         ELSE IF SectionAt(f, u) = {} THEN Zero
         ELSE LET s == CHOOSE s \in SectionAt(f, u) : TRUE
              IN IF s.method = "raw" THEN s.first + (u - s.at) ELSE Packed(s, u - s.at)
    [] f.form = "sparse" ->
         IF u \in DOMAIN f.table THEN Node
         ELSE IF BandAt(f, u) = {} THEN Zero
         ELSE LET b == CHOOSE b \in BandAt(f, u) : TRUE
              IN f.band * (SlotOf(f, b) - 1) + (u - PlaceOf(f, b))

\* Sector u of the disk is stored in the image, which has no zeros for it.
Kept(f, u) ==
  CASE f.form = "flat" -> u < f.units
    [] f.form = "udif" ->
         \E i \in DOMAIN Sections(f) :
           Sections(f)[i].method \in {"raw"} \cup Packings /\ Holds(Sections(f)[i], u)
    [] f.form = "sparse" -> u < f.size /\ \E b \in Used(f) : SlotOf(f, b) - 1 = u \div f.band
    [] OTHER -> FALSE

(***************************************************************************)
(* The images that are opened are as hdiutil writes them.  An encrypted     *)
(* image has whole blocks.  The sections of a DMG lie one behind another on *)
(* the disk, as the binary search needs, and apart in the file, in front of *)
(* list and trailer.  The nodes of a sparse image are one chain from the    *)
(* header on, and every band is at one place at most, apart from the others. *)
(***************************************************************************)
FileTyped(f) ==
  /\ f.form \in {"flat", "udif", "sparse", "absent"}
  /\ f.crypt \in {"no", "V1", "V2"}
  /\ f.units \in Nat /\ f.size \in Nat
  /\ f.form # "absent" => f.units > 0 /\ f.size > 0
  /\ f.form = "flat" => f.size = f.units
  /\ f.form = "udif" => f.ext = "dmg"
  /\ f.form = "sparse" => f.ext = "sparseimage"
  /\ f.crypt # "no" => f.units % CryptBlock = 0

Methods == {"raw", "zero", "ignore", "unknown"} \cup Packings
DmgWhole(f) ==
  LET t == Sections(f) IN
  /\ f.units >= 2
  /\ t \in Seq([method : Methods, first : Nat, count : Nat \ {0}, at : Nat, len : Nat])
  /\ \A i \in 1..Len(t) :
       /\ t[i].method \in {"raw"} \cup Packings => t[i].len > 0 /\ t[i].at + t[i].len <= f.units - 2
       /\ t[i].method \notin {"raw"} \cup Packings => t[i].len = 0
       /\ t[i].method = "raw" => t[i].len = t[i].count
       /\ t[i].first + t[i].count <= f.size
       /\ i < Len(t) => t[i + 1].first = t[i].first + t[i].count
       /\ \A j \in (i + 1)..Len(t) :
            /\ t[i].first + t[i].count <= t[j].first
            /\ Sectors(t[i].at, t[i].len) \cap Sectors(t[j].at, t[j].len) = {}
  /\ \A u \in 0..(f.size - 1) : \E i \in 1..Len(t) : Holds(t[i], u)

SparseWhole(f) ==
  LET nodes == DOMAIN f.table IN
  /\ f.band \in Nat \ {0}
  /\ 0 \in nodes /\ nodes \subseteq 0..(f.units - 1)
  /\ \A n \in nodes : f.table[n].slots \in Seq(Nat) /\ f.table[n].next \in nodes
  /\ \A s \in SUBSET nodes : 0 \in s /\ (\A n \in s : f.table[n].next \in s) => s = nodes
  /\ \A b \in Used(f) :
       /\ SlotOf(f, b) - 1 \in Bands(f)
       /\ Sectors(PlaceOf(f, b), f.band) \subseteq 0..(f.units - 1) \ nodes
       /\ \A c \in Used(f) \ {b} :
            /\ SlotOf(f, b) # SlotOf(f, c)
            /\ Sectors(PlaceOf(f, b), f.band) \cap Sectors(PlaceOf(f, c), f.band) = {}

ASSUME DiskAssumption ==
  /\ CryptBlock \in Nat \ {0} /\ Chunk \in Nat \ {0} /\ CryptOffset \in Nat
  /\ \A s \in Setups : DOMAIN s = Devices
  /\ \A s \in Setups, d \in Devices :
       /\ FileTyped(s[d])
       /\ s[d].form = "udif" => DmgWhole(s[d])
       /\ s[d].form = "sparse" => SparseWhole(s[d])

\* m_is_encrypted decides whether blocks are decrypted; the block number is the
\* initialisation vector.
CryptLen(d) == IF key[d] = "none" THEN 1 ELSE CryptBlock
Offset(d) == IF key[d] = "none" THEN 0 ELSE HeaderLen(image[d])

Decrypted(d, u, iv) ==
  LET f == image[d] IN
  IF key[d] = "none"
    THEN IF f.crypt = "no" THEN Body(f, u) ELSE Cipher
    ELSE IF key[d] = "right" /\ u \div CryptBlock = iv THEN Body(f, u) ELSE Garbage

Iv(off, u) == u \div CryptBlock

\* Whether the block of u and all blocks before it in a read from off on are read.
Arrives(d, off, u) ==
  /\ ~failed[d]
  /\ LET first(x) == CryptLen(d) * (x \div CryptLen(d))
     IN \A p \in first(off)..(first(u) + CryptLen(d) - 1) : Readable(image[d], Offset(d) + p)

\* DiskImageFile::Read: the stream gives nothing any more once a read failed,
\* and nobody looks.
ImageRead(d, off, n) ==
  [i \in 1..n |-> IF Arrives(d, off, off + i - 1)
                    THEN Decrypted(d, off + i - 1, Iv(off, off + i - 1))
                    ELSE Garbage]

FailsAfter(d, off, n) == ~Arrives(d, off, off + n - 1)

-----------------------------------------------------------------------------
(***************************************************************************)
(* Opening.                                                                *)
(***************************************************************************)
Goto(d, p) == phase' = [phase EXCEPT ![d] = p]

OpenDevice(d) ==
  /\ phase[d] = "closed"
  /\ Goto(d, IF image[d].ext = "other" \/ image[d].form = "absent" THEN "raw" ELSE "crypt")
  /\ UNCHANGED <<image, kind, key, failed, table, next, node, cache, asked, answer>>

\* The device is opened as a plain file, after any other way has failed.
OpenRaw(d) ==
  /\ phase[d] = "raw"
  /\ IF image[d].form = "absent"
       THEN Goto(d, "failed") /\ UNCHANGED kind
       ELSE Goto(d, "open") /\ kind' = [kind EXCEPT ![d] = "linux"]
  /\ key' = [key EXCEPT ![d] = "none"]
  /\ failed' = [failed EXCEPT ![d] = FALSE]
  /\ UNCHANGED <<image, table, next, node, cache, asked, answer>>

\* CheckSetupEncryption looks for a signature at the end and one at the start,
\* with the same stream.
TailRead(f) == Readable(f, FileLen(f) - 1)
HeadRead(f) == Readable(f, 0)
Signed(f) ==
  \/ f.crypt = "V1" /\ TailRead(f)
  \/ f.crypt = "V2" /\ TailRead(f) /\ HeadRead(f)

\* The signatures could not be read: the file is taken for a plain one.
NoSignature(d) ==
  /\ phase[d] = "crypt"
  /\ ~Signed(image[d])
  /\ Goto(d, "head")
  /\ failed' = [failed EXCEPT ![d] = ~(TailRead(image[d]) /\ HeadRead(image[d]))]
  /\ UNCHANGED <<image, kind, key, table, next, node, cache, asked, answer>>

Opens(f, w) == \E i \in DOMAIN f.locks : f.locks[i] = w

\* SetupEncryptionV1 knows a wrong password by its padding alone, which may
\* look right by chance; SetupEncryptionV2 by a mark.  The stream may fail
\* in CheckSetupEncryption after the setup, at the other end of the file.
SetupEncryption(d) ==
  /\ phase[d] = "crypt"
  /\ Signed(image[d])
  /\ \E w \in Passwords :
       \/ /\ Opens(image[d], w)
          /\ key' = [key EXCEPT ![d] = "right"]
          /\ Goto(d, "head")
       \/ /\ ~Opens(image[d], w)
          /\ Goto(d, "raw")
          /\ UNCHANGED key
       \/ /\ ~Opens(image[d], w)
          /\ image[d].crypt = "V1"
          /\ key' = [key EXCEPT ![d] = "wrong"]
          /\ Goto(d, "head")
  /\ failed' = [failed EXCEPT ![d] = ~(TailRead(image[d]) /\ HeadRead(image[d]))]
  /\ UNCHANGED <<image, kind, table, next, node, cache, asked, answer>>

\* The key records lie in the header behind its first sector.  One that cannot
\* be read is the one before, or zeros, whose length of 0 makes the mark be
\* looked for 4 GB behind the blob; one that was read before it may open.
KeysRead(f) == f.crypt = "V2" => \A p \in 0..(CryptOffset - 1) : Readable(f, p)

KeysUnread(d) ==
  /\ phase[d] = "crypt"
  /\ Signed(image[d])
  /\ ~KeysRead(image[d])
  /\ Goto(d, "crashed") \/ Goto(d, "raw")
  /\ failed' = [failed EXCEPT ![d] = TRUE]
  /\ UNCHANGED <<image, kind, key, table, next, node, cache, asked, answer>>

\* DeviceDMG::Open looks for the trailer, and DeviceSparseImage::Open for the header.
IsDmg(d) == image[d].ext = "dmg"

\* No trailer: a DMG is taken as it is, whatever it is.
TakeRaw(d) ==
  /\ phase[d] = "head"
  /\ IsDmg(d)
  /\ LET u == image[d].units - 1
     IN /\ ImageRead(d, u, 1) # <<Koly>>
        /\ failed' = [failed EXCEPT ![d] = FailsAfter(d, u, 1)]
  /\ Goto(d, "open")
  /\ kind' = [kind EXCEPT ![d] = "rawdmg"]
  /\ UNCHANGED <<image, key, table, next, node, cache, asked, answer>>

\* The list is read behind the trailer.  A list that cannot be parsed is a null
\* pointer, of which a member is called (DeviceDMG.cpp:427).  A trailer that
\* names a resource fork (DeviceDMG.cpp:464) or nothing ends as a list does that
\* is parsed and refused: the file is taken as it is.
LoadSections(d) ==
  /\ phase[d] = "head"
  /\ IsDmg(d)
  /\ ImageRead(d, image[d].units - 1, 1) = <<Koly>>
  /\ LET u == image[d].units - 2
     IN /\ failed' = [failed EXCEPT ![d] = FailsAfter(d, u, 1)]
        /\ IF ImageRead(d, u, 1) = <<List>>
             THEN /\ Goto(d, "open")
                  /\ kind' = [kind EXCEPT ![d] = "dmg"]
                  /\ table' = [table EXCEPT ![d] = Sections(image[d])]
             ELSE /\ Goto(d, "crashed") \/ Goto(d, "raw")
                  /\ UNCHANGED <<kind, table>>
  /\ UNCHANGED <<image, key, next, node, cache, asked, answer>>

NotSparse(d) ==
  /\ phase[d] = "head"
  /\ ~IsDmg(d)
  /\ ImageRead(d, 0, 1) # <<Node>>
  /\ failed' = [failed EXCEPT ![d] = FailsAfter(d, 0, 1)]
  /\ Goto(d, "raw")
  /\ UNCHANGED <<image, kind, key, table, next, node, cache, asked, answer>>

\* Slot k of a node is the number of the k-th band behind the node, plus 1.
Slot(slots, b) == {k \in DOMAIN slots : slots[k] = b + 1}

\* Mutant: the bands of a node start at the node.
BandsFromNode(slots, at, band, t) ==
  [b \in DOMAIN t |-> IF Slot(slots, b) = {} THEN t[b]
                      ELSE at + band * ((CHOOSE k \in Slot(slots, b) : TRUE) - 1)]

BandsOf(slots, at, band, t) ==
  [b \in DOMAIN t |-> IF Slot(slots, b) = {} THEN t[b]
                      ELSE at + 1 + band * ((CHOOSE k \in Slot(slots, b) : TRUE) - 1)]

LoadHeader(d) ==
  /\ phase[d] = "head"
  /\ ~IsDmg(d)
  /\ ImageRead(d, 0, 1) = <<Node>>
  /\ LET f == image[d]
     IN /\ table' = [table EXCEPT ![d] =
                        BandsOf(f.table[0].slots, 0, f.band,
                                [b \in Bands(f) |-> 0])]
        /\ next' = [next EXCEPT ![d] = f.table[0].next]
  /\ Goto(d, "index")
  /\ UNCHANGED <<image, kind, key, failed, node, cache, asked, answer>>

\* Mutant: the offset in the header is used again.
SameNext(d, n) == next[d]

NextOf(d, n) == n.next

\* The signature that is tested in the loop is still that of the header: a
\* node that cannot be read leaves the one before in idx, or, the first time,
\* whatever the stack held.
LoadIndex(d) ==
  /\ phase[d] = "index"
  /\ next[d] # 0
  /\ LET f == image[d]
         n == IF ImageRead(d, next[d], 1) = <<Node>> THEN f.table[next[d]] ELSE node[d]
     IN /\ n # Nothing
        /\ node' = [node EXCEPT ![d] = n]
        /\ table' = [table EXCEPT ![d] = BandsOf(n.slots, next[d], f.band, table[d])]
        /\ next' = [next EXCEPT ![d] = NextOf(d, n)]
  /\ failed' = [failed EXCEPT ![d] = FailsAfter(d, next[d], 1)]
  /\ UNCHANGED <<image, phase, kind, key, cache, asked, answer>>

IndexUnread(d) ==
  /\ phase[d] = "index"
  /\ next[d] # 0
  /\ ImageRead(d, next[d], 1) # <<Node>>
  /\ node[d] = Nothing
  /\ failed' = [failed EXCEPT ![d] = TRUE]
  /\ \/ Goto(d, "crashed") /\ UNCHANGED next
     \/ next' = [next EXCEPT ![d] = 0] /\ UNCHANGED phase
  /\ UNCHANGED <<image, kind, key, table, node, cache, asked, answer>>

IndexLoaded(d) ==
  /\ phase[d] = "index"
  /\ next[d] = 0
  /\ Goto(d, "open")
  /\ kind' = [kind EXCEPT ![d] = "sparse"]
  /\ UNCHANGED <<image, key, failed, table, next, node, cache, asked, answer>>

Opening(d) ==
  \/ OpenRaw(d) \/ NoSignature(d) \/ SetupEncryption(d) \/ KeysUnread(d)
  \/ TakeRaw(d) \/ LoadSections(d)
  \/ NotSparse(d) \/ LoadHeader(d) \/ LoadIndex(d) \/ IndexUnread(d)
  \/ IndexLoaded(d)

-----------------------------------------------------------------------------
(***************************************************************************)
(* Reading.  A Read is under way from Read to its Return; asked holds its   *)
(* arguments, the sectors delivered so far, the section it has come to, 0   *)
(* before one is found, and the bounds between which one is looked for.     *)
(***************************************************************************)
GetSize(d) ==
  CASE kind[d] \in {"dmg", "sparse"} -> image[d].size
    [] kind[d] = "rawdmg" -> image[d].units
    [] kind[d] = "linux" -> FileLen(image[d])

Read(d, o, n) ==
  /\ phase[d] = "open"
  /\ asked = Nothing
  /\ asked' = [dev |-> d, offs |-> o, len |-> n, data |-> <<>>, sect |-> 0, beg |-> 1,
               end |-> IF kind[d] = "dmg" THEN Len(table[d]) ELSE 0]
  /\ answer' = Nothing
  /\ UNCHANGED <<opening, cache>>

Offs == asked.offs + Len(asked.data)
Left == asked.len - Len(asked.data)
Reading(k) == asked # Nothing /\ phase[asked.dev] = "open" /\ kind[asked.dev] = k

Return(ok, data) ==
  /\ asked' = Nothing
  /\ answer' = [dev |-> asked.dev, ok |-> ok, data |-> data]

\* Sectors of the loop are delivered, and the next section's turn comes.
Deliver(data) ==
  /\ asked' = [asked EXCEPT !.data = @ \o data, !.sect = @ + 1]
  /\ UNCHANGED answer

Stream(d, off, n) == failed' = [failed EXCEPT ![d] = FailsAfter(d, off, n)]
UnchangedButStream == UNCHANGED <<image, phase, kind, key, table, next, node>>

\* A sector of the file as it is.
Stored(f, p) == IF f.crypt = "no" THEN Body(f, p) ELSE Cipher

ReadLinux ==
  /\ Reading("linux")
  /\ LET f == image[asked.dev]
         ok == \A p \in Sectors(Offs, Left) : Readable(f, p)
     IN Return(ok, [i \in 1..Left |-> IF ok THEN Stored(f, Offs + i - 1) ELSE Garbage])
  /\ UNCHANGED <<opening, cache>>

ReadRawDmg ==
  /\ Reading("rawdmg")
  /\ LET d == asked.dev
     IN /\ Return(TRUE, ImageRead(d, Offs, Left))
        /\ Stream(d, Offs, Left)
        /\ UnchangedButStream
  /\ UNCHANGED cache

\* One round of the binary search for the section of the first sector.
Middle == (asked.beg + asked.end) \div 2
Searching == Reading("dmg") /\ asked.sect = 0

SearchSection ==
  /\ Searching
  /\ asked.beg <= asked.end
  /\ LET s == table[asked.dev][Middle]
     IN \/ Holds(s, Offs) /\ asked' = [asked EXCEPT !.sect = Middle]
        \/ Offs < s.first /\ asked' = [asked EXCEPT !.end = Middle - 1]
        \/ Offs >= s.first + s.count /\ asked' = [asked EXCEPT !.beg = Middle + 1]
  /\ UNCHANGED <<opening, cache, answer>>

NoSection ==
  /\ Searching
  /\ asked.beg > asked.end
  /\ Return(FALSE, <<>>)
  /\ UNCHANGED <<opening, cache>>

InSection == Reading("dmg") /\ asked.sect # 0 /\ Left > 0
NoMoreSections ==
  /\ InSection
  /\ asked.sect > Len(table[asked.dev])
  /\ Return(FALSE, asked.data)
  /\ UNCHANGED <<opening, cache>>

AtSection(method) ==
  /\ InSection
  /\ asked.sect <= Len(table[asked.dev])
  /\ table[asked.dev][asked.sect].method \in method

Section == table[asked.dev][asked.sect]
InSect == Offs - Section.first

SizeInSection == IF InSect + Left > Section.count THEN Section.count - InSect ELSE Left

SectionRaw ==
  /\ AtSection({"raw"})
  /\ Deliver(ImageRead(asked.dev, Section.at + InSect, SizeInSection))
  /\ Stream(asked.dev, Section.at + InSect, SizeInSection)
  /\ UnchangedButStream
  /\ UNCHANGED cache

SectionZero ==
  /\ AtSection({"zero", "ignore"})
  /\ Deliver([i \in 1..SizeInSection |-> Zero])
  /\ UNCHANGED <<opening, cache>>

SectionUnknown ==
  /\ AtSection({"unknown"})
  /\ Return(FALSE, asked.data)
  /\ UNCHANGED <<opening, cache>>

\* The decompressed section, if all of it could be read.
Arrived(d, s) == ImageRead(d, s.at, s.len) = [i \in 1..s.len |-> Packed(s, i - 1)]
Decompressed(d, s) ==
  [i \in 1..s.count |-> IF Arrived(d, s) THEN s.first + i - 1 ELSE Garbage]

\* Where decompression may lead to.  Of what a failed read left in the buffer
\* inflate may come to no end, and DecompressZLib calls it for ever; DecompressADC
\* may write past the section, or end beside its end, which is asserted.
AfterUnpacking(d, s) ==
  {"open"} \cup
  IF Arrived(d, s) THEN {}
  ELSE (IF s.method = "zlib" THEN {"hung"} ELSE {}) \cup (IF s.method = "adc" THEN {"crashed"} ELSE {})

\* Mutant: the cache is known by the size of the section alone.
CachedBySize(d, s) == cache[d].count = s.count

Cached(d, s) == cache[d].count = s.count /\ cache[d].first = s.first

\* The cache gets its label before it is filled, and is filled with whatever
\* is made of what the read left in the buffer.
FillCache ==
  /\ AtSection(Packings)
  /\ ~Cached(asked.dev, Section)
  /\ LET d == asked.dev
     IN /\ cache' = [cache EXCEPT ![d] =
             [first |-> Section.first, count |-> Section.count, data |-> Decompressed(d, Section)]]
        /\ Stream(d, Section.at, Section.len)
        /\ \E p \in AfterUnpacking(d, Section) : Goto(d, p)
  /\ UNCHANGED <<image, kind, key, table, next, node, asked, answer>>

SectionCached ==
  /\ AtSection(Packings)
  /\ Cached(asked.dev, Section)
  /\ Deliver(SubSeq(cache[asked.dev].data, InSect + 1, InSect + SizeInSection))
  /\ UNCHANGED <<opening, cache>>

\* The number of a band is that of the megabyte, whatever the size of a band.
Band == Offs \div Chunk
InBand == Offs % image[asked.dev].band
SizeInBand ==
  IF InBand + Left > image[asked.dev].band THEN image[asked.dev].band - InBand ELSE Left

ReadBand ==
  /\ Reading("sparse")
  /\ Left > 0
  /\ Band \in DOMAIN table[asked.dev]
  /\ LET base == table[asked.dev][Band]
     IN IF base = 0
          THEN Deliver([i \in 1..SizeInBand |-> Zero]) /\ UNCHANGED failed
          ELSE /\ Deliver(ImageRead(asked.dev, base + InBand, SizeInBand))
               /\ Stream(asked.dev, base + InBand, SizeInBand)
  /\ UnchangedButStream
  /\ UNCHANGED cache

\* Outside of the vector the place of the band is any number.
NoSuchBand ==
  /\ Reading("sparse")
  /\ Left > 0
  /\ Band \notin DOMAIN table[asked.dev]
  /\ \/ /\ Goto(asked.dev, "crashed")
        /\ UNCHANGED <<asked, answer>>
     \/ Deliver([i \in 1..SizeInBand |-> Garbage]) /\ UNCHANGED phase
  /\ UNCHANGED <<image, kind, key, failed, table, next, node, cache>>

ReadDone ==
  /\ Reading("sparse") \/ (Reading("dmg") /\ asked.sect # 0)
  /\ Left = 0
  /\ Return(TRUE, asked.data)
  /\ UNCHANGED <<opening, cache>>

Serving ==
  \/ ReadLinux \/ ReadRawDmg
  \/ SearchSection \/ NoSection \/ NoMoreSections \/ SectionRaw \/ SectionZero \/ SectionUnknown
  \/ FillCache \/ SectionCached
  \/ ReadBand \/ NoSuchBand \/ ReadDone
=============================================================================
