----------------------------- MODULE Mount_proofs -----------------------------
(***************************************************************************)
(* Proofs about the devices of a mount, for all images, partition maps and  *)
(* options the assumptions of DiskImage and Mount allow, whatever sectors    *)
(* of the files cannot be read:                                            *)
(*   - whatever kind of image it is read from, a device is a flat disk      *)
(*     (FlatDevice),                                                       *)
(*   - the blocks of a session are those of the container (RightBlocks),    *)
(*   - no program gives up without a cause (OpensWhenItCan),                *)
(* the last two unless an entry of the partition map that is not in use lies *)
(* before that of APFS, which ends the search of FindFirstAPFSPartition.    *)
(***************************************************************************)
EXTENDS Mount, WellFoundedInduction, TLAPS

Clear(d) == key[d] = "right" \/ (key[d] = "none" /\ image[d].crypt = "no")
Sound(d) == image[d].form # "absent" /\ image[d].bad = {} /\ Clear(d) /\ ~Odd(d)

Phases == {"closed", "crypt", "head", "index", "raw", "open", "failed", "crashed", "hung"}
\* Where an opened device may be while something is read from it.
Running == {"open", "crashed", "hung"}
Kinds == {"none", "dmg", "rawdmg", "sparse", "linux"}
DevTyped ==
  /\ image \in Setups
  /\ phase \in [Devices -> Phases] /\ kind \in [Devices -> Kinds]
  /\ key \in [Devices -> {"none", "right", "wrong"}] /\ failed \in [Devices -> BOOLEAN]
  /\ DOMAIN table = Devices /\ DOMAIN next = Devices /\ DOMAIN node = Devices
  /\ DOMAIN cache = Devices

-----------------------------------------------------------------------------
\* Opening.  t has the places of the bands of the nodes in V, 0 for the others.
Placed(f, t, V) ==
  \A b \in Bands(f) :
    \/ \E p \in Used(f) : p[1] \in V /\ SlotOf(f, p) = b + 1 /\ t[b] = PlaceOf(f, p)
    \/ t[b] = 0 /\ \A p \in Used(f) : p[1] \in V => SlotOf(f, p) # b + 1

\* The nodes read so far are all up to the next one.
Indexed(f, t, n) ==
  \E V \in SUBSET DOMAIN f.table :
    0 \in V /\ (\A m \in V : f.table[m].next \in V \cup {n}) /\ Placed(f, t, V)

PhaseInv(d) ==
  /\ kind[d] # "none" => phase[d] \in Running \cup {"closed"}
  /\ kind[d] = "none" => phase[d] # "open"
  /\ phase[d] = "failed" => image[d].form = "absent"
  /\ phase[d] \in {"crypt", "head", "index"} \/ kind[d] # "none" => image[d].form # "absent"

\* Why a stream failed, and why a file is taken as it is.
KeyInv(d) ==
  /\ key[d] # "none" => image[d].crypt # "no"
  /\ phase[d] \in {"head", "index"} \/ kind[d] \in {"rawdmg", "dmg", "sparse"} =>
       (key[d] = "none" /\ image[d].crypt # "no" => failed[d])
  /\ phase[d] \in {"head", "index"} /\ image[d].bad = {} => ~failed[d]
  /\ phase[d] = "raw" \/ kind[d] = "linux" =>
       (image[d].form \in {"udif", "sparse"} /\ image[d].crypt = "no" => image[d].bad # {})
  /\ kind[d] = "linux" => key[d] = "none" /\ ~failed[d]
  /\ kind[d] = "rawdmg" =>
       /\ IsDmg(d)
       /\ image[d].form = "udif" =>
            key[d] = "wrong" \/ (failed[d] /\ (image[d].bad # {} \/ ~Clear(d)))

TableInv(d) ==
  /\ kind[d] = "dmg" =>
       image[d].form = "udif" /\ Clear(d) /\ table[d] = Sections(image[d])
  /\ phase[d] = "index" \/ kind[d] = "sparse" =>
       /\ image[d].form = "sparse" /\ Clear(d)
       /\ table[d] \in [Bands(image[d]) -> Nat]
       /\ ~failed[d] => Indexed(image[d], table[d], next[d])
  /\ kind[d] = "sparse" => next[d] = 0
  /\ phase[d] = "index" =>
       /\ next[d] \in DOMAIN image[d].table
       /\ node[d] # Nothing => \E n \in DOMAIN image[d].table : node[d] = image[d].table[n]
  /\ phase[d] \in {"closed", "crypt", "head"} /\ kind[d] = "none" => node[d] = Nothing

\* The cache of a DMG holds what its label says, unless the stream failed.
CacheInv(d) ==
  cache[d] # NoCache =>
    /\ kind[d] = "dmg"
    /\ cache[d].first \in Nat /\ cache[d].count \in Nat \ {0}
    /\ cache[d].data \in [1..cache[d].count -> Int]
    /\ \A i \in 1..cache[d].count :
         \/ cache[d].data[i] = cache[d].first + i - 1
         \/ failed[d] /\ cache[d].data[i] = Garbage

\* The stream of an image without damage does not fail while it is read where
\* it has something.
StreamInv(d) == Sound(d) /\ kind[d] \in {"dmg", "sparse"} => ~failed[d]

DevInv(d) == PhaseInv(d) /\ KeyInv(d) /\ TableInv(d) /\ CacheInv(d) /\ StreamInv(d)

-----------------------------------------------------------------------------
\* Reading.  A sector that is delivered is never another one of the disk.
Plausible(o, data) == \A i \in 1..Len(data) : data[i] = o + i - 1 \/ data[i] < 0
Right(d, o, data) ==
  \A i \in 1..Len(data) : o + i - 1 \in DOMAIN Contents(d) => data[i] = Contents(d)[o + i - 1]

\* The section the Read has come to holds the next sector.
SectInv(t, size) ==
  IF asked.sect = 0
    THEN /\ asked.data = <<>>
         /\ asked.beg \in Nat \ {0} /\ asked.end \in 0..Len(t)
         /\ \A i \in 1..Len(t) : Holds(t[i], asked.offs) => asked.beg <= i /\ i <= asked.end
    ELSE Left > 0 =>
           \/ asked.sect <= Len(t) /\ Holds(t[asked.sect], Offs)
           \/ asked.sect > Len(t) /\ Offs >= size

AskOf(d) ==
  /\ asked \in [dev : Devices, offs : Nat, len : Nat \ {0}, data : Seq(Int), sect : Nat,
                beg : Int, end : Int]
  /\ asked.dev = d /\ Len(asked.data) <= asked.len /\ answer = Nothing
  /\ kind[d] # "none" /\ phase[d] \in Running
  /\ kind[d] \in {"linux", "rawdmg"} => asked.data = <<>>
  /\ Odd(d) \/ Plausible(asked.offs, asked.data)
  /\ Broken(d) \/ Right(d, asked.offs, asked.data)
  /\ kind[d] = "dmg" => SectInv(Sections(image[d]), image[d].size)
AskInv == asked # Nothing => \E d \in Devices : AskOf(d)

\* What an answer to a Read promises, the last conjunct where nothing is lost.
Delivered(d, o, n, a) ==
  /\ a.ok \in BOOLEAN /\ a.data \in Seq(Int) /\ (a.ok => Len(a.data) = n)
  /\ Odd(d) \/ Misread(d) \/ Plausible(o, a.data)
  /\ (kind[d] = "linux" /\ ~a.ok) \/ Broken(d) \/ Right(d, o, a.data)
  /\ Sound(d) /\ ~failed[d] /\ o + n <= image[d].size /\ ~a.ok =>
       kind[d] # "linux" /\ Len(a.data) < n /\ ~Kept(image[d], o + Len(a.data))

-----------------------------------------------------------------------------
\* The Read that main waits for.
Awaited(d, o, n) ==
  \/ pc = "header" /\ d = gptDev /\ o = sector /\ n = sector
  \/ pc = "map" /\ d = gptDev /\ o = 2 * sector /\ n = MapSectors
  \/ pc = "superblock" /\ d = Main /\ o = start[Main] /\ n = Block
  \/ pc = "session" /\ d \in Given /\ o = start[d] + Block * paddr /\ n = Block
Waiting == {"header", "map", "superblock", "session"}

ReadInv ==
  /\ asked # Nothing => Awaited(asked.dev, asked.offs, asked.len)
  /\ answer # Nothing /\ pc \in Waiting =>
       \E d \in Devices, o, n \in Nat :
         answer.dev = d /\ Awaited(d, o, n) /\ Delivered(d, o, n, answer)
  /\ pc = "volume" => answer = Nothing

\* The partition map of a device has been used.
Strays(d) == Lost(d) \/ HasGap(d)
Located(d) == Strays(d) \/ start[d] = Meant(d)
MapSteps == {"gpt", "header", "map"}
Later == {"container", "superblock", "volume", "session"}

MainTyped ==
  /\ call \in Calls
  /\ pc \in {"args", "main", "tier2", "devices", "exit"} \cup MapSteps \cup Later
  /\ gptDev \in Devices /\ sector \in Nat
  /\ start \in [Devices -> Nat] /\ paddr \in Nat

OpenedInv ==
  /\ pc # "exit" => \A d \in Devices : phase[d] = "closed" => kind[d] = "none"
  /\ pc \in MapSteps \cup Later => \A d \in Given : kind[d] # "none"

StartInv ==
  /\ pc = "args" => start = [d \in Devices |-> 0]
  /\ pc \in {"args", "main", "tier2", "devices"} => gptDev = Main
  /\ pc \in {"main", "tier2", "devices"} =>
       part = call.part /\ start[Main] = call.offset /\ start[Tier2] = 0
  /\ pc \in MapSteps => gptDev \in Given /\ start[Tier2] = 0
  /\ pc \in MapSteps /\ gptDev = Main => part = call.part /\ call.offset = 0 /\ start[Main] = 0
  /\ pc \in MapSteps /\ gptDev = Tier2 => Located(Main)
  /\ pc \in Later => \A d \in Given : Located(d)

MapOf(d) ==
  /\ pc = "header" =>
       \/ sector = call.blksize
       \/ /\ sector = BigSector
          /\ ~HasMap(d) \/ image[d].gpt.sector # call.blksize \/ Lost(d)
  /\ pc = "map" => HasMap(d) /\ image[d].gpt.sector = sector
MapInv == \A d \in Devices : d = gptDev => MapOf(d)

\* Where the container was found, and what was read up to there.
FoundInv ==
  pc \in {"volume", "session"} =>
    Odd(Main) \/ Misread(Main) \/ start[Main] = image[Main].container
ReadInside(d) ==
  /\ pc \notin {"volume", "session", "exit"}
  /\ pc = "superblock" /\ d = Main => start[Main] + Block <= image[Main].size
InsideInv ==
  \A d \in Devices : ReadInside(d) /\ Sound(d) /\ kind[d] = "rawdmg" => ~failed[d]

MainInv == MainTyped /\ OpenedInv /\ StartInv /\ MapInv /\ FoundInv /\ InsideInv

IInv == DevTyped /\ (\A d \in Devices : DevInv(d)) /\ AskInv /\ ReadInv /\ MainInv

-----------------------------------------------------------------------------
(* Arithmetic.                                                              *)

(* Division by a positive number.                                           *)
LEMMA Euclid ==
  ASSUME NEW B \in Nat \ {0}, NEW a \in Nat
  PROVE  /\ a \div B \in Nat /\ a % B \in 0..(B - 1) /\ B * (a \div B) \in Nat
         /\ a = B * (a \div B) + (a % B)
<1> DEFINE q == a \div B
           r == a % B
<1>1. q \in Nat /\ r \in 0..(B - 1) /\ a = B * q + r
  OBVIOUS
<1> HIDE DEF q, r
<1>2. B * q \in Nat
  BY <1>1
<1> QED BY <1>1, <1>2 DEF q, r

(* Multiples are ordered like what they are multiples of.                   *)
LEMMA Multiples ==
  ASSUME NEW B \in Nat \ {0}, NEW p \in Int, NEW q \in Int
  PROVE  /\ B * p \in Int /\ B * q \in Int
         /\ p < q => B * p + B <= B * q
         /\ p <= q => B * p <= B * q
<1>1. B * p \in Int /\ B * q \in Int
  OBVIOUS
<1>2. ASSUME p < q PROVE B * p + B <= B * q
  <2> DEFINE k == q - p - 1
  <2>1. k \in Nat /\ q = p + k + 1
    BY <1>2
  <2> HIDE DEF k
  <2>2. B * k \in Nat
    BY <2>1
  <2>3. B * (p + k + 1) = B * p + B * k + B
    BY <2>1
  <2> QED BY <1>1, <2>1, <2>2, <2>3
<1>3. ASSUME p <= q PROVE B * p <= B * q
  BY <1>1, <1>2, <1>3
<1> QED BY <1>1, <1>2, <1>3

(* Quotient and remainder are unique.                                       *)
LEMMA Quotient ==
  ASSUME NEW B \in Nat \ {0}, NEW a \in Nat, NEW q \in Int, NEW r \in 0..(B - 1), a = B * q + r
  PROVE  a \div B = q /\ a % B = r
<1> DEFINE p == a \div B
           t == a % B
<1>1. p \in Nat /\ t \in 0..(B - 1) /\ a = B * p + t
  BY Euclid
<1> HIDE DEF p, t
<1>2. B * p \in Int /\ B * q \in Int
  BY <1>1, Multiples
<1>3. ~(p < q)
  BY <1>1, <1>2, Multiples
<1>4. ~(q < p)
  BY <1>1, <1>2, Multiples
<1>5. p = q
  BY <1>1, <1>3, <1>4
<1> QED BY <1>1, <1>2, <1>5 DEF p, t

(* Division keeps the order.                                                *)
LEMMA DivOrder ==
  ASSUME NEW B \in Nat \ {0}, NEW a \in Nat, NEW b \in Nat, a <= b
  PROVE  a \div B <= b \div B
<1> DEFINE p == a \div B
           q == b \div B
<1>1. /\ p \in Nat /\ q \in Nat /\ a % B \in 0..(B - 1) /\ b % B \in 0..(B - 1)
      /\ a = B * p + (a % B) /\ b = B * q + (b % B)
  BY Euclid
<1> HIDE DEF p, q
<1>2. B * p \in Int /\ B * q \in Int /\ (q < p => B * q + B <= B * p)
  BY <1>1, Multiples
<1>3. ~(q < p)
  BY <1>1, <1>2
<1> QED BY <1>1, <1>3 DEF p, q

-----------------------------------------------------------------------------
(* The image files.                                                         *)

WholeFile(f) ==
  /\ FileTyped(f)
  /\ f.form = "udif" => DmgWhole(f)
  /\ f.form = "sparse" => SparseWhole(f)

LEMMA Files ==
  ASSUME DevTyped, NEW d \in Devices
  PROVE  WholeFile(image[d])
BY DiskAssumption DEF DevTyped, WholeFile

\* A section of a DMG, as far as arithmetic goes.
LEMMA SectionFacts ==
  ASSUME NEW f, DmgWhole(f), NEW i \in 1..Len(Sections(f))
  PROVE  LET s == Sections(f)[i] IN
         /\ s \in [method : Methods, first : Nat, count : Nat \ {0}, at : Nat, len : Nat]
         /\ Len(Sections(f)) \in Nat /\ DOMAIN Sections(f) = 1..Len(Sections(f))
         /\ s.first \in Nat /\ s.count \in Nat \ {0} /\ s.at \in Nat /\ s.len \in Nat
<1> DEFINE t == Sections(f)
           R == [method : Methods, first : Nat, count : Nat \ {0}, at : Nat, len : Nat]
<1>1. t \in Seq(R)
  BY DEF DmgWhole
<1> HIDE DEF t
<1>2. Len(t) \in Nat /\ DOMAIN t = 1..Len(t) /\ t[i] \in R
  <2> HIDE DEF R
  <2> QED BY <1>1 DEF t
<1>3. \A s \in R : s.first \in Nat /\ s.count \in Nat \ {0} /\ s.at \in Nat /\ s.len \in Nat
  OBVIOUS
<1> QED BY <1>2, <1>3 DEF t

(* No two sections have a sector of the file in common.                     *)
LEMMA OneSection ==
  ASSUME NEW f, DmgWhole(f), NEW i \in 1..Len(Sections(f)),
         NEW u \in Sectors(Sections(f)[i].at, Sections(f)[i].len)
  PROVE  SectionAt(f, u) = {Sections(f)[i]}
<1> DEFINE t == Sections(f)
           Where(j) == Sectors(t[j].at, t[j].len)
<1>1. Len(t) \in Nat /\ DOMAIN t = 1..Len(t)
  BY DEF DmgWhole
<1>2. \A j \in 1..Len(t) : \A k \in (j + 1)..Len(t) : Where(j) \cap Where(k) = {}
  BY DEF DmgWhole
<1> HIDE DEF t
<1>3. ASSUME NEW j \in 1..Len(t), u \in Where(j) PROVE j = i
  <2>1. ~(j < i)
    <3> SUFFICES ASSUME j < i PROVE FALSE
      OBVIOUS
    <3>1. i \in (j + 1)..Len(t)
      BY <1>1 DEF t
    <3> QED BY <1>2, <1>3, <3>1 DEF t
  <2>2. ~(i < j)
    <3> SUFFICES ASSUME i < j PROVE FALSE
      OBVIOUS
    <3>1. j \in (i + 1)..Len(t) /\ i \in 1..Len(t)
      BY <1>1 DEF t
    <3> QED BY <1>2, <1>3, <3>1 DEF t
  <2> QED BY <1>1, <2>1, <2>2 DEF t
<1>4. SectionAt(f, u) = {s \in {t[j] : j \in 1..Len(t)} : u \in Sectors(s.at, s.len)}
  BY <1>1 DEF SectionAt, t
<1> QED BY <1>3, <1>4 DEF t

(* What a DMG has in the sectors of a section.                              *)
LEMMA SectionBody ==
  ASSUME NEW f, f.form = "udif", FileTyped(f), DmgWhole(f), NEW i \in 1..Len(Sections(f)),
         NEW k \in 0..(Sections(f)[i].len - 1)
  PROVE  LET s == Sections(f)[i] IN
         /\ s.at + k \in Nat /\ s.at + k < f.units
         /\ Body(f, s.at + k) = IF s.method = "raw" THEN s.first + k ELSE Packed(s, k)
<1> DEFINE s == Sections(f)[i]
           u == s.at + k
<1>1. /\ s.at \in Nat /\ s.len \in Nat /\ k \in Nat /\ f.units \in Nat /\ s.first \in Nat
      /\ s.method \in Methods
  BY SectionFacts DEF FileTyped
<1>2. s.method \in {"raw"} \cup Packings /\ s.at + s.len <= f.units - 2
  <2>1. s.len # 0
    BY <1>1
  <2> QED BY <2>1 DEF DmgWhole
<1>a. k < s.len
  BY <1>1
<1>3. u \in Sectors(s.at, s.len) /\ u \in Nat /\ u < f.units - 2
  <2> HIDE DEF s
  <2> QED BY SMTT(30), <1>1, <1>2, <1>a DEF Sectors
<1>4. SectionAt(f, u) = {s}
  BY <1>3, OneSection
<1> HIDE DEF s
<1>5. (CHOOSE x \in SectionAt(f, u) : TRUE) = s
  BY <1>4
<1>6. Body(f, u) = IF s.method = "raw" THEN s.first + (u - s.at) ELSE Packed(s, u - s.at)
  <2> HIDE DEF u
  <2>a. SectionAt(f, u) # {}
    BY <1>4
  <2>1. SectionAt(f, u) # {} /\ u # f.units - 1 /\ u # f.units - 2
    BY <1>1, <1>3, <2>a
  <2>2. Body(f, u) = LET x == CHOOSE x \in SectionAt(f, u) : TRUE
                     IN IF x.method = "raw" THEN x.first + (u - x.at) ELSE Packed(x, u - x.at)
    BY <2>1 DEF Body
  <2> QED BY <1>5, <2>2
<1>7. u - s.at = k
  BY <1>1
<1> QED BY <1>1, <1>3, <1>6, <1>7 DEF s

(* A band of a sparse image is behind its node.                             *)
LEMMA BandFacts ==
  ASSUME NEW f, SparseWhole(f), NEW b \in Used(f)
  PROVE  /\ b[1] \in DOMAIN f.table /\ b[1] \in Nat /\ SlotOf(f, b) \in Nat \ {0}
         /\ PlaceOf(f, b) \in Nat /\ b \in Places(f) /\ f.band \in Nat \ {0}
         /\ \E k \in DOMAIN f.table[b[1]].slots : b = <<b[1], k>>
<1>1. PICK n \in DOMAIN f.table : b \in {n} \X DOMAIN f.table[n].slots
  BY DEF Used, Places
<1>2. PICK k \in DOMAIN f.table[n].slots : b = <<n, k>>
  BY <1>1
<1>3. f.table[n].slots \in Seq(Nat) /\ n \in Nat /\ f.band \in Nat \ {0}
  BY <1>1 DEF SparseWhole
<1>4. k \in Nat \ {0} /\ f.table[n].slots[k] \in Nat
  BY <1>2, <1>3
<1>5. SlotOf(f, b) \in Nat \ {0}
  BY <1>2, <1>4 DEF SlotOf, Used
<1>6. f.band * 0 \in Int /\ f.band * (k - 1) \in Int /\ f.band * 0 <= f.band * (k - 1)
  BY SMTT(30), <1>3, <1>4, Multiples
<1>7. f.band * 0 = 0
  BY <1>3
<1>8. PlaceOf(f, b) \in Nat
  <2> DEFINE x == f.band * (k - 1)
  <2>1. PlaceOf(f, b) = n + 1 + x
    BY <1>2 DEF PlaceOf
  <2>2. x \in Nat
    BY <1>6, <1>7
  <2> HIDE DEF x
  <2> QED BY <1>3, <2>1, <2>2
<1>9. b \in Places(f)
  BY DEF Used
<1> QED BY <1>1, <1>2, <1>3, <1>5, <1>8, <1>9

(* What a sparse image has in the sectors of a band.                        *)
LEMMA BandBody ==
  ASSUME NEW f, f.form = "sparse", FileTyped(f), SparseWhole(f), NEW b \in Used(f),
         NEW k \in 0..(f.band - 1)
  PROVE  /\ PlaceOf(f, b) + k \in Nat /\ PlaceOf(f, b) + k < f.units
         /\ Body(f, PlaceOf(f, b) + k) = f.band * (SlotOf(f, b) - 1) + k
<1> DEFINE u == PlaceOf(f, b) + k
<1>1. /\ PlaceOf(f, b) \in Nat /\ f.band \in Nat \ {0} /\ k \in Nat /\ k < f.band
      /\ SlotOf(f, b) \in Nat \ {0}
  BY BandFacts
<1>2. u \in Sectors(PlaceOf(f, b), f.band)
  BY <1>1 DEF Sectors
<1>3. u \in 0..(f.units - 1) /\ u \notin DOMAIN f.table
  BY <1>2 DEF SparseWhole
<1>4. BandAt(f, u) = {b}
  <2>1. b \in BandAt(f, u)
    BY <1>2 DEF BandAt
  <2>2. ASSUME NEW c \in BandAt(f, u) PROVE c = b
    <3>1. c \in Used(f) /\ u \in Sectors(PlaceOf(f, c), f.band)
      BY <2>2 DEF BandAt
    <3>2. c # b => Sectors(PlaceOf(f, b), f.band) \cap Sectors(PlaceOf(f, c), f.band) = {}
      BY <3>1 DEF SparseWhole
    <3> QED BY <1>2, <3>1, <3>2
  <2> QED BY <2>1, <2>2
<1>5. Body(f, u) = f.band * (SlotOf(f, b) - 1) + (u - PlaceOf(f, b))
  <2> HIDE DEF u
  <2>1. BandAt(f, u) # {} /\ (CHOOSE c \in BandAt(f, u) : TRUE) = b
    BY <1>4
  <2>2. Body(f, u) = LET c == CHOOSE c \in BandAt(f, u) : TRUE
                     IN f.band * (SlotOf(f, c) - 1) + (u - PlaceOf(f, c))
    BY <1>3, <2>1 DEF Body
  <2> QED BY <2>1, <2>2
<1>6. u - PlaceOf(f, b) = k
  BY <1>1
<1>7. f.units \in Nat
  BY DEF FileTyped
<1> QED BY <1>3, <1>5, <1>6, <1>7

(* What is in a file, and what kind of image has what.                      *)
LEMMA BodyFacts ==
  ASSUME NEW f, WholeFile(f), f.form # "absent", NEW u \in Nat
  PROVE  /\ Body(f, u) \in Int
         /\ f.form = "flat" => Body(f, u) = u
         /\ f.form # "udif" => Body(f, u) \notin {Koly, List}
         /\ f.form # "sparse" => Body(f, u) # Node
         /\ f.form = "sparse" => (Body(f, u) = Node <=> u \in DOMAIN f.table)
<1> USE DEF Koly, List, Node, Zero
<1>1. CASE f.form = "flat"
  BY <1>1 DEF Body
<1>2. CASE f.form = "udif"
  <2>1. DmgWhole(f)
    BY <1>2 DEF WholeFile
  <2>2. CASE u = f.units - 1 \/ u = f.units - 2 \/ SectionAt(f, u) = {}
    BY <1>2, <2>2 DEF Body
  <2>3. CASE u # f.units - 1 /\ u # f.units - 2 /\ SectionAt(f, u) # {}
    <3> DEFINE s == CHOOSE s \in SectionAt(f, u) : TRUE
    <3>1. Body(f, u) = IF s.method = "raw" THEN s.first + (u - s.at) ELSE Packed(s, u - s.at)
      BY <1>2, <2>3 DEF Body
    <3>2. s \in SectionAt(f, u)
      BY <2>3
    <3> HIDE DEF s
    <3>3. PICK i \in DOMAIN Sections(f) : s = Sections(f)[i] /\ u \in Sectors(s.at, s.len)
      BY <3>2 DEF SectionAt
    <3>4. i \in 1..Len(Sections(f))
      <4>1. DOMAIN Sections(f) = 1..Len(Sections(f))
        BY <2>1 DEF DmgWhole
      <4> QED BY <4>1
    <3>5. s.first \in Nat /\ s.at \in Nat /\ s.len \in Nat
      BY <2>1, <3>3, <3>4, SectionFacts
    <3>6. u - s.at \in Nat
      BY <3>3, <3>5 DEF Sectors
    <3>7. Body(f, u) \in Nat
      BY <3>1, <3>5, <3>6 DEF Packed
    <3> QED BY <1>2, <3>7
  <2> QED BY <2>2, <2>3
<1>3. CASE f.form = "sparse"
  <2>1. SparseWhole(f)
    BY <1>3 DEF WholeFile
  <2>2. CASE u \in DOMAIN f.table
    BY <1>3, <2>2 DEF Body
  <2>3. CASE u \notin DOMAIN f.table /\ BandAt(f, u) = {}
    BY <1>3, <2>3 DEF Body
  <2>4. CASE u \notin DOMAIN f.table /\ BandAt(f, u) # {}
    <3>1. PICK b \in BandAt(f, u) : Body(f, u) = f.band * (SlotOf(f, b) - 1) + (u - PlaceOf(f, b))
      BY <1>3, <2>4 DEF Body
    <3>2. b \in Used(f) /\ u \in Sectors(PlaceOf(f, b), f.band)
      BY DEF BandAt
    <3>3. f.band \in Nat \ {0} /\ SlotOf(f, b) \in Nat \ {0} /\ PlaceOf(f, b) \in Nat
      BY <2>1, <3>2, BandFacts
    <3>4. f.band * (SlotOf(f, b) - 1) \in Nat
      BY <3>3
    <3>5. u - PlaceOf(f, b) \in Nat
      BY <3>2, <3>3 DEF Sectors
    <3>6. Body(f, u) \in Nat
      BY <3>1, <3>4, <3>5
    <3> QED BY <1>3, <2>4, <3>6
  <2> QED BY <2>2, <2>3, <2>4
<1> QED BY <1>1, <1>2, <1>3 DEF WholeFile, FileTyped

-----------------------------------------------------------------------------
(* Reading the file.                                                        *)

LEMMA CryptFacts ==
  ASSUME DevTyped, NEW d \in Devices
  PROVE  CryptLen(d) \in Nat \ {0} /\ HeaderLen(image[d]) \in Nat /\ Offset(d) \in Nat
BY DiskAssumption DEF DevTyped, CryptLen, HeaderLen, Offset

(* What comes before something that is read is read, too.                   *)
LEMMA ArrivesBefore ==
  ASSUME DevTyped, NEW d \in Devices, NEW off \in Nat, NEW u \in Nat, NEW v \in Nat, v <= u,
         Arrives(d, off, u)
  PROVE  Arrives(d, off, v)
<1> DEFINE L == CryptLen(d)
           a == L * (u \div L) + L - 1
           b == L * (v \div L) + L - 1
           c == L * (off \div L)
<1>1. L \in Nat \ {0}
  BY CryptFacts
<1> HIDE DEF L
<1>2. b <= a /\ a \in Int /\ b \in Int /\ c \in Int
  <2>1. u \div L \in Nat /\ v \div L \in Nat /\ v \div L <= u \div L /\ off \div L \in Nat
    BY <1>1, Euclid, DivOrder
  <2> HIDE DEF L
  <2> DEFINE p == u \div L
             q == v \div L
             o == off \div L
  <2> HIDE DEF p, q, o
  <2>2. L * p \in Int /\ L * q \in Int /\ L * o \in Int /\ L * q <= L * p
    BY <1>1, <2>1, Multiples DEF p, q, o
  <2> QED BY <1>1, <2>2 DEF p, q, o
<1>3. ~failed[d] /\ \A p \in c..a : Readable(image[d], Offset(d) + p)
  BY DEF Arrives, L
<1> HIDE DEF a, b, c
<1>4. \A p \in c..b : p \in c..a
  BY <1>2
<1>5. \A p \in c..b : Readable(image[d], Offset(d) + p)
  BY <1>3, <1>4
<1> QED BY <1>3, <1>5 DEF Arrives, L, b, c

(* Nothing is in the way where the file has no damage.                      *)
LEMMA ArrivesUndamaged ==
  ASSUME DevTyped, NEW d \in Devices, KeyInv(d), image[d].bad = {}, ~failed[d],
         NEW off \in Nat, NEW u \in Nat, u < image[d].units
  PROVE  Arrives(d, off, u)
<1> DEFINE L == CryptLen(d)
           n == image[d].units
           c == L * (off \div L)
           a == L * (u \div L) + L - 1
<1>1. L \in Nat \ {0} /\ n \in Nat /\ HeaderLen(image[d]) \in Nat
  BY CryptFacts, Files DEF WholeFile, FileTyped
<1>2. n % L = 0
  <2>1. CASE key[d] = "none"
    <3>1. L = 1
      BY <2>1 DEF CryptLen
    <3> HIDE DEF L, n
    <3> QED BY <1>1, <3>1
  <2>2. CASE key[d] # "none"
    BY <2>2, Files DEF KeyInv, CryptLen, WholeFile, FileTyped
  <2> QED BY <2>1, <2>2
<1> HIDE DEF L, n
<1>3. /\ n \div L \in Nat /\ n = L * (n \div L) /\ u \div L \in Nat /\ off \div L \in Nat
      /\ u = L * (u \div L) + (u % L) /\ u % L \in 0..(L - 1)
  <2>1. n = L * (n \div L) + (n % L) /\ n \div L \in Nat /\ L * (n \div L) \in Nat
    BY <1>1, Euclid
  <2>2. /\ u \div L \in Nat /\ off \div L \in Nat
        /\ u = L * (u \div L) + (u % L) /\ u % L \in 0..(L - 1)
    BY <1>1, Euclid
  <2>3. n = L * (n \div L)
    <3> DEFINE x == L * (n \div L)
    <3> HIDE DEF x
    <3> QED BY <1>1, <1>2, <2>1 DEF x
  <2> QED BY <2>1, <2>2, <2>3
<1>4. a < n /\ a \in Int /\ c \in Nat
  <2> DEFINE p == u \div L
             q == n \div L
             o == off \div L
  <2> HIDE DEF p, q, o
  <2>1. p \in Nat /\ q \in Nat /\ o \in Nat /\ n = L * q /\ u = L * p + (u % L)
    BY <1>3 DEF p, q, o
  <2>2. L * p \in Int /\ L * q \in Int /\ (q <= p => L * q <= L * p) /\ (p < q => L * p + L <= L * q)
    BY <1>1, <2>1, Multiples
  <2>3. u < n /\ u % L >= 0
    BY <1>1, <1>3 DEF n
  <2>4. ~(q <= p)
    BY <1>1, <1>3, <2>1, <2>2, <2>3
  <2>5. L * p + L <= n
    BY <2>1, <2>2, <2>4
  <2>6. L * o \in Nat
    BY <1>1, <2>1, Euclid DEF o
  <2> QED BY <1>1, <2>1, <2>2, <2>5, <2>6 DEF p, o
<1> HIDE DEF a, c
<1>5. ASSUME NEW p \in c..a PROVE Readable(image[d], Offset(d) + p)
  <2>1. p \in Nat /\ p < n
    BY <1>1, <1>4
  <2>2. Offset(d) = 0 \/ Offset(d) = HeaderLen(image[d])
    BY DEF Offset
  <2>3. Offset(d) + p < FileLen(image[d])
    <3> DEFINE h == HeaderLen(image[d])
    <3>1. FileLen(image[d]) = h + n + 1 \/ FileLen(image[d]) = h + n + 0
      BY DEF FileLen, n
    <3> HIDE DEF h
    <3>2. h \in Nat /\ (Offset(d) = 0 \/ Offset(d) = h)
      BY <1>1, <2>2 DEF h
    <3> QED BY <1>1, <2>1, <3>1, <3>2
  <2> QED BY <2>3 DEF Readable
<1> QED BY <1>5 DEF Arrives, a, c, L

\* What a sector is once it is read.
Seen(d, u) ==
  IF Clear(d) THEN Body(image[d], u) ELSE IF key[d] = "none" THEN Cipher ELSE Garbage

LEMMA ReadFacts ==
  ASSUME DevTyped, NEW d \in Devices, image[d].form # "absent", NEW off \in Nat, NEW n \in Nat
  PROVE  LET x == ImageRead(d, off, n) IN
         /\ x \in Seq(Int) /\ Len(x) = n
         /\ \A i \in 1..n :
              \/ x[i] = Seen(d, off + i - 1)
              \/ (FailsAfter(d, off, n) /\ x[i] = Garbage)
         /\ failed[d] => FailsAfter(d, off, n) /\ \A i \in 1..n : x[i] = Garbage
<1>1. ASSUME NEW u \in Nat
      PROVE  Decrypted(d, u, Iv(off, u)) = Seen(d, u) /\ Seen(d, u) \in Int
  <2>1. Body(image[d], u) \in Int
    BY Files, BodyFacts
  <2> QED BY <2>1 DEF Decrypted, Iv, Seen, Clear, DevTyped, Cipher, Garbage
<1>2. \A i \in 1..n : off + i - 1 \in Nat
  OBVIOUS
<1>3. ASSUME NEW i \in 1..n
      PROVE  /\ ImageRead(d, off, n)[i] = IF Arrives(d, off, off + i - 1) THEN Seen(d, off + i - 1) ELSE Garbage
             /\ ImageRead(d, off, n)[i] \in Int
  BY <1>1, <1>2 DEF ImageRead, Garbage
<1>4. ImageRead(d, off, n) \in Seq(Int) /\ Len(ImageRead(d, off, n)) = n
  <2> DEFINE e(i) == IF Arrives(d, off, off + i - 1)
                       THEN Decrypted(d, off + i - 1, Iv(off, off + i - 1)) ELSE Garbage
  <2>1. \A i \in 1..n : e(i) \in Int
    BY <1>1, <1>2 DEF Garbage
  <2>2. ImageRead(d, off, n) = [i \in 1..n |-> e(i)]
    BY DEF ImageRead
  <2> HIDE DEF e
  <2> QED BY <2>1, <2>2
<1>5. ASSUME NEW i \in 1..n, ~FailsAfter(d, off, n) PROVE Arrives(d, off, off + i - 1)
  <2>1. Arrives(d, off, off + n - 1) /\ off + n - 1 \in Nat /\ off + i - 1 <= off + n - 1
    BY <1>5 DEF FailsAfter
  <2> QED BY <1>2, <2>1, ArrivesBefore
<1>6. failed[d] => FailsAfter(d, off, n) /\ \A u : ~Arrives(d, off, u)
  BY DEF FailsAfter, Arrives
<1> QED BY <1>3, <1>4, <1>5, <1>6

(* A read of one sector.                                                    *)
LEMMA ReadOne ==
  ASSUME DevTyped, NEW d \in Devices, image[d].form # "absent", NEW u \in Nat
  PROVE  /\ ImageRead(d, u, 1) \in {<<Seen(d, u)>>, <<Garbage>>}
         /\ ImageRead(d, u, 1) # <<Seen(d, u)>> => FailsAfter(d, u, 1)
         /\ KeyInv(d) /\ image[d].bad = {} /\ ~failed[d] /\ u < image[d].units =>
              ~FailsAfter(d, u, 1) /\ ImageRead(d, u, 1) = <<Seen(d, u)>>
<1> DEFINE x == ImageRead(d, u, 1)
<1>1. /\ x \in Seq(Int) /\ Len(x) = 1
      /\ x[1] = Seen(d, u + 1 - 1) \/ (FailsAfter(d, u, 1) /\ x[1] = Garbage)
      /\ failed[d] => FailsAfter(d, u, 1)
  <2>1. 1 \in Nat /\ 1 \in 1..1
    OBVIOUS
  <2>2. /\ x \in Seq(Int) /\ Len(x) = 1 /\ (failed[d] => FailsAfter(d, u, 1))
        /\ \A i \in 1..1 : \/ x[i] = Seen(d, u + i - 1)
                           \/ (FailsAfter(d, u, 1) /\ x[i] = Garbage)
    BY <2>1, ReadFacts
  <2> HIDE DEF x
  <2> QED BY <2>1, <2>2
<1>2. u + 1 - 1 = u
  OBVIOUS
<1> HIDE DEF x
<1>3. x = <<x[1]>>
  BY <1>1
<1>4. ASSUME KeyInv(d), image[d].bad = {}, ~failed[d], u < image[d].units
      PROVE  ~FailsAfter(d, u, 1)
  BY <1>2, <1>4, ArrivesUndamaged DEF FailsAfter
<1> QED BY <1>1, <1>2, <1>3, <1>4 DEF x

-----------------------------------------------------------------------------
(* Opening.                                                                 *)

(* A device to which nothing happens.                                       *)
LEMMA DevFrame ==
  ASSUME NEW d \in Devices, DevInv(d), UNCHANGED <<image, next, node>>,
         phase'[d] = phase[d], kind'[d] = kind[d], key'[d] = key[d], failed'[d] = failed[d],
         table'[d] = table[d], cache'[d] = cache[d]
  PROVE  DevInv(d)'
<1>1. PhaseInv(d)'
  BY DEF DevInv, PhaseInv
<1>2. Clear(d)' = Clear(d) /\ IsDmg(d)' = IsDmg(d) /\ Odd(d)' = Odd(d)
  BY DEF Clear, IsDmg, Odd
<1>3. KeyInv(d)'
  BY <1>2 DEF DevInv, KeyInv
<1>4. TableInv(d)'
  BY <1>2 DEF DevInv, TableInv
<1>5. CacheInv(d)'
  BY DEF DevInv, CacheInv
<1>6. StreamInv(d)'
  BY <1>2 DEF DevInv, StreamInv, Sound
<1> QED BY <1>1, <1>3, <1>4, <1>5, <1>6 DEF DevInv

(* A device to which nothing happens while another one is opened.           *)
LEMMA OtherFrame ==
  ASSUME DevTyped, NEW d \in Devices, Opening(d), NEW e \in Devices, e # d, DevInv(e)
  PROVE  DevInv(e)'
<1>1. /\ image' = image /\ phase'[e] = phase[e] /\ kind'[e] = kind[e] /\ key'[e] = key[e]
      /\ failed'[e] = failed[e] /\ table'[e] = table[e] /\ cache' = cache
      /\ next'[e] = next[e] /\ node'[e] = node[e]
  BY DEF Opening, OpenRaw, NoSignature, SetupEncryption, KeysUnread, TakeRaw, LoadSections, NotSparse,
         LoadHeader, LoadIndex, IndexUnread, IndexLoaded, Goto, DevTyped
<1>2. Clear(e)' = Clear(e) /\ IsDmg(e)' = IsDmg(e) /\ Odd(e)' = Odd(e)
  BY <1>1 DEF Clear, IsDmg, Odd
<1>3. PhaseInv(e)' /\ CacheInv(e)'
  BY <1>1 DEF DevInv, PhaseInv, CacheInv
<1>4. KeyInv(e)'
  BY <1>1, <1>2 DEF DevInv, KeyInv
<1>5. TableInv(e)'
  BY <1>1, <1>2 DEF DevInv, TableInv
<1>6. StreamInv(e)'
  BY <1>1, <1>2 DEF DevInv, StreamInv, Sound
<1> QED BY <1>3, <1>4, <1>5, <1>6 DEF DevInv

LEMMA OpeningTyped ==
  ASSUME DevTyped, NEW d \in Devices, Opening(d)
  PROVE  DevTyped'
<1> USE DEF DevTyped, Goto, Phases, Kinds
<1>1. CASE OpenRaw(d)
  BY <1>1 DEF OpenRaw
<1>5. CASE NoSignature(d)
  BY <1>5 DEF NoSignature
<1>6. CASE SetupEncryption(d)
  <2>1. \A b \in BOOLEAN : [failed EXCEPT ![d] = b] \in [Devices -> BOOLEAN]
    OBVIOUS
  <2> QED BY <1>6, <2>1 DEF SetupEncryption
<1>11. CASE KeysUnread(d)
  <2>1. \A b \in BOOLEAN : [failed EXCEPT ![d] = b] \in [Devices -> BOOLEAN]
    OBVIOUS
  <2> QED BY <1>11, <2>1 DEF KeysUnread
<1>2. CASE TakeRaw(d)
  BY <1>2 DEF TakeRaw, FailsAfter
<1>7. CASE LoadSections(d)
  <2>1. /\ UNCHANGED <<image, key, next, node, cache>>
        /\ failed' = [failed EXCEPT ![d] = FailsAfter(d, image[d].units - 2, 1)]
        /\ \/ phase' = [phase EXCEPT ![d] = "open"] /\ kind' = [kind EXCEPT ![d] = "dmg"]
              /\ table' = [table EXCEPT ![d] = Sections(image[d])]
           \/ phase' = [phase EXCEPT ![d] = "crashed"] /\ UNCHANGED <<kind, table>>
           \/ phase' = [phase EXCEPT ![d] = "raw"] /\ UNCHANGED <<kind, table>>
    BY <1>7 DEF LoadSections
  <2>2. phase' \in [Devices -> Phases] /\ kind' \in [Devices -> Kinds] /\ DOMAIN table' = Devices
    BY <2>1
  <2>3. failed' \in [Devices -> BOOLEAN]
    BY <2>1 DEF FailsAfter
  <2>4. UNCHANGED <<image, key, next, node, cache>>
    BY <2>1
  <2> QED BY <2>2, <2>3, <2>4
<1>8. CASE NotSparse(d)
  BY <1>8 DEF NotSparse, FailsAfter
<1>3. CASE LoadHeader(d)
  BY <1>3 DEF LoadHeader
<1>9. CASE IndexLoaded(d)
  BY <1>9 DEF IndexLoaded
<1>10. CASE IndexUnread(d)
  BY <1>10 DEF IndexUnread
<1>4. CASE LoadIndex(d)
  BY <1>4 DEF LoadIndex, FailsAfter
<1> QED BY <1>1, <1>2, <1>3, <1>4, <1>5, <1>6, <1>7, <1>8, <1>9, <1>10, <1>11 DEF Opening

LEMMA OpenDeviceKeeps ==
  ASSUME DevTyped, NEW d \in Devices, DevInv(d), kind[d] = "none", OpenDevice(d)
  PROVE  DevTyped' /\ DevInv(d)'
<1>1. /\ phase[d] = "closed" /\ UNCHANGED <<image, kind, key, failed, table, next, node, cache>>
      /\ phase'[d] = IF image[d].ext = "other" \/ image[d].form = "absent" THEN "raw" ELSE "crypt"
      /\ DevTyped'
  BY DEF OpenDevice, Goto, DevTyped, Phases
<1>2. phase'[d] = "raw" => image[d].form \notin {"udif", "sparse"}
  BY <1>1, Files DEF WholeFile, FileTyped
<1>3. PhaseInv(d)' /\ KeyInv(d)' /\ TableInv(d)' /\ CacheInv(d)' /\ StreamInv(d)'
  <2>1. PhaseInv(d)'
    BY <1>1 DEF DevInv, PhaseInv
  <2>2. KeyInv(d)'
    BY <1>1, <1>2 DEF DevInv, KeyInv
  <2>3. TableInv(d)' /\ CacheInv(d)' /\ StreamInv(d)'
    BY <1>1 DEF DevInv, TableInv, CacheInv, StreamInv
  <2> QED BY <2>1, <2>2, <2>3
<1> QED BY <1>1, <1>3 DEF DevInv

\* A device that is not opened yet.
LEMMA NotYet ==
  ASSUME NEW d \in Devices, DevInv(d), phase[d] \in {"crypt", "head", "index", "raw"}
  PROVE  kind[d] = "none" /\ cache[d] = NoCache
BY DEF DevInv, PhaseInv, Running, CacheInv

LEMMA OpenRawKeeps ==
  ASSUME DevTyped, NEW d \in Devices, DevInv(d), OpenRaw(d)
  PROVE  DevInv(d)'
<1>1. /\ phase[d] = "raw" /\ kind[d] = "none" /\ cache[d] = NoCache
      /\ UNCHANGED <<image, table, next, node, cache>>
      /\ key'[d] = "none" /\ failed'[d] = FALSE
      /\ \/ image[d].form = "absent" /\ phase'[d] = "failed" /\ kind'[d] = "none"
         \/ image[d].form # "absent" /\ phase'[d] = "open" /\ kind'[d] = "linux"
  BY NotYet DEF OpenRaw, Goto, DevTyped
<1>2. PhaseInv(d)'
  BY <1>1 DEF DevInv, PhaseInv, Running
<1>3. KeyInv(d)'
  BY <1>1 DEF DevInv, KeyInv
<1>4. TableInv(d)' /\ CacheInv(d)' /\ StreamInv(d)'
  BY <1>1 DEF DevInv, TableInv, CacheInv, StreamInv
<1> QED BY <1>2, <1>3, <1>4 DEF DevInv

(* The ends of an undamaged file can be read.                               *)
LEMMA EndsRead ==
  ASSUME DevTyped, NEW d \in Devices, image[d].form # "absent", image[d].bad = {}
  PROVE  TailRead(image[d]) /\ HeadRead(image[d])
<1>1. HeaderLen(image[d]) \in Nat /\ image[d].units \in Nat /\ image[d].units > 0
  BY CryptFacts, Files DEF WholeFile, FileTyped
<1>2. FileLen(image[d]) \in Nat /\ FileLen(image[d]) > 0
  BY <1>1 DEF FileLen
<1> QED BY <1>2 DEF TailRead, HeadRead, Readable

LEMMA SignatureKeeps ==
  ASSUME DevTyped, NEW d \in Devices, DevInv(d), NoSignature(d) \/ SetupEncryption(d)
  PROVE  DevInv(d)'
<1>1. /\ phase[d] = "crypt" /\ kind[d] = "none" /\ cache[d] = NoCache
      /\ UNCHANGED <<image, kind, table, next, node, cache>>
      /\ failed'[d] = ~(TailRead(image[d]) /\ HeadRead(image[d]))
      /\ key' \in [Devices -> {"none", "right", "wrong"}]
      /\ image[d].form # "absent"
  BY NotYet DEF NoSignature, SetupEncryption, Goto, DevTyped, DevInv, PhaseInv
<1>2. image[d].bad = {} => ~failed'[d]
  BY <1>1, EndsRead
<1>3. image[d].crypt \in {"no", "V1", "V2"}
  BY Files DEF WholeFile, FileTyped
<1>4. /\ phase'[d] \in {"head", "raw"}
      /\ phase'[d] = "raw" => image[d].crypt # "no"
      /\ key'[d] # "none" => image[d].crypt # "no"
      /\ phase'[d] = "head" => (key'[d] = "none" /\ image[d].crypt # "no" => failed'[d])
  <2>1. CASE NoSignature(d)
    <3>1. phase'[d] = "head" /\ key' = key /\ ~Signed(image[d])
      BY <2>1 DEF NoSignature, Goto, DevTyped
    <3>2. image[d].crypt # "no" => ~(TailRead(image[d]) /\ HeadRead(image[d]))
      BY <1>3, <3>1 DEF Signed
    <3> QED BY <1>1, <3>1, <3>2 DEF DevInv, KeyInv
  <2>2. CASE SetupEncryption(d)
    <3>1. image[d].crypt # "no"
      BY <2>2 DEF SetupEncryption, Signed
    <3>2. phase'[d] = "raw" \/ (phase'[d] = "head" /\ key'[d] # "none")
      BY <2>2 DEF SetupEncryption, Goto, DevTyped
    <3> QED BY <3>1, <3>2
  <2> QED BY <2>1, <2>2
<1>5. PhaseInv(d)'
  BY <1>1, <1>4 DEF PhaseInv
<1>6. KeyInv(d)'
  BY <1>1, <1>2, <1>4 DEF KeyInv
<1>7. TableInv(d)' /\ CacheInv(d)' /\ StreamInv(d)'
  BY <1>1, <1>4 DEF DevInv, TableInv, CacheInv, StreamInv
<1> QED BY <1>5, <1>6, <1>7 DEF DevInv

(* A file whose key records cannot be read is not opened.                   *)
LEMMA KeysUnreadKeeps ==
  ASSUME DevTyped, NEW d \in Devices, DevInv(d), KeysUnread(d)
  PROVE  DevInv(d)'
<1>1. /\ phase[d] = "crypt" /\ kind[d] = "none" /\ cache[d] = NoCache
      /\ UNCHANGED <<image, kind, key, table, next, node, cache>>
      /\ phase'[d] \in {"crashed", "raw"} /\ image[d].form # "absent"
      /\ image[d].crypt # "no"
  BY NotYet DEF KeysUnread, Goto, DevTyped, DevInv, PhaseInv, Signed
<1>2. PhaseInv(d)'
  BY <1>1 DEF PhaseInv
<1>3. KeyInv(d)'
  BY <1>1 DEF DevInv, KeyInv
<1>4. TableInv(d)' /\ CacheInv(d)' /\ StreamInv(d)'
  BY <1>1 DEF DevInv, TableInv, CacheInv, StreamInv
<1> QED BY <1>2, <1>3, <1>4 DEF DevInv

(* A magic number is seen only in the clear.                                *)
LEMMA MagicSeen ==
  ASSUME DevTyped, NEW d \in Devices, image[d].form # "absent", NEW u \in Nat,
         NEW m \in {Koly, List, Node}, ImageRead(d, u, 1) = <<m>>
  PROVE  Clear(d) /\ Body(image[d], u) = m
<1>1. ImageRead(d, u, 1) \in {<<Seen(d, u)>>, <<Garbage>>}
  BY ReadOne
<1>2. Seen(d, u) = m \/ Garbage = m
  BY <1>1
<1> QED BY <1>2 DEF Seen, Garbage, Cipher, Koly, List, Node

\* The ends of a DMG.
LEMMA Trailer ==
  ASSUME NEW f, WholeFile(f), f.form # "absent"
  PROVE  /\ f.units \in Nat \ {0} /\ f.units - 1 \in Nat
         /\ f.form = "udif" =>
              /\ f.units - 2 \in Nat
              /\ Body(f, f.units - 1) = Koly /\ Body(f, f.units - 2) = List
<1>1. f.units \in Nat \ {0} /\ f.units - 1 \in Nat
  BY DEF WholeFile, FileTyped
<1>2. ASSUME f.form = "udif" PROVE f.units - 2 \in Nat /\ f.units - 2 # f.units - 1
  BY <1>1, <1>2 DEF WholeFile, DmgWhole
<1> QED BY <1>1, <1>2 DEF Body

LEMMA TakeRawKeeps ==
  ASSUME DevTyped, NEW d \in Devices, DevInv(d), TakeRaw(d)
  PROVE  DevInv(d)'
<1> DEFINE u == image[d].units - 1
<1>1. /\ phase[d] = "head" /\ kind[d] = "none" /\ cache[d] = NoCache /\ IsDmg(d)
      /\ UNCHANGED <<image, key, table, next, node, cache>>
      /\ ImageRead(d, u, 1) # <<Koly>> /\ failed'[d] = FailsAfter(d, u, 1)
      /\ phase'[d] = "open" /\ kind'[d] = "rawdmg"
      /\ image[d].form # "absent" /\ WholeFile(image[d])
  BY NotYet, Files DEF TakeRaw, Goto, DevTyped, DevInv, PhaseInv
<1>2. u \in Nat /\ u < image[d].units
  BY <1>1, Trailer
<1>3. failed[d] => failed'[d]
  BY <1>1, <1>2, ReadFacts
<1>4. key[d] = "none" /\ image[d].crypt # "no" => failed'[d]
  BY <1>1, <1>3 DEF DevInv, KeyInv
<1>5. ASSUME image[d].form = "udif", key[d] # "wrong"
      PROVE  failed'[d] /\ (image[d].bad # {} \/ ~Clear(d))
  <2>1. CASE Clear(d)
    <3>1. Seen(d, u) = Koly
      BY <1>1, <1>5, <2>1, Trailer DEF Seen
    <3>2. failed'[d]
      BY <1>1, <1>2, <3>1, ReadOne
    <3>3. image[d].bad # {}
      BY <1>1, <1>2, <3>1, ReadOne DEF DevInv, KeyInv
    <3> QED BY <3>2, <3>3
  <2>2. CASE ~Clear(d)
    BY <1>4, <1>5, <2>2 DEF Clear, DevTyped
  <2> QED BY <2>1, <2>2
<1>6. PhaseInv(d)'
  BY <1>1 DEF PhaseInv, Running
<1>7. KeyInv(d)'
  <2>1. Clear(d)' = Clear(d) /\ IsDmg(d)' = IsDmg(d)
    BY <1>1 DEF Clear, IsDmg
  <2> QED BY <1>1, <1>4, <1>5, <2>1 DEF DevInv, KeyInv
<1>8. TableInv(d)' /\ CacheInv(d)' /\ StreamInv(d)'
  BY <1>1 DEF TableInv, CacheInv, StreamInv
<1> QED BY <1>6, <1>7, <1>8 DEF DevInv

LEMMA LoadSectionsKeeps ==
  ASSUME DevTyped, NEW d \in Devices, DevInv(d), LoadSections(d)
  PROVE  DevInv(d)'
<1> DEFINE u == image[d].units - 2
<1>1. /\ phase[d] = "head" /\ kind[d] = "none" /\ cache[d] = NoCache
      /\ UNCHANGED <<image, key, next, node, cache>>
      /\ ImageRead(d, image[d].units - 1, 1) = <<Koly>> /\ failed'[d] = FailsAfter(d, u, 1)
      /\ image[d].form # "absent" /\ WholeFile(image[d])
  BY NotYet, Files DEF LoadSections, DevTyped, DevInv, PhaseInv
<1>2. Clear(d) /\ image[d].form = "udif"
  BY <1>1, MagicSeen, Trailer, BodyFacts
<1>3. u \in Nat /\ u < image[d].units /\ Seen(d, u) = List
  BY <1>1, <1>2, Trailer DEF Seen
<1>4. image[d].bad = {} => ~failed'[d] /\ ImageRead(d, u, 1) = <<List>>
  <2>1. image[d].bad = {} => ~failed[d]
    BY <1>1 DEF DevInv, KeyInv
  <2> QED BY <1>1, <1>3, <2>1, ReadOne DEF DevInv
<1>5. \/ /\ phase'[d] = "open" /\ kind'[d] = "dmg" /\ table'[d] = Sections(image[d])
      \/ /\ phase'[d] \in {"crashed", "raw"} /\ kind'[d] = "none"
         /\ ImageRead(d, u, 1) # <<List>>
  BY <1>1 DEF LoadSections, Goto, DevTyped
<1>6. Clear(d)' = Clear(d) /\ IsDmg(d)' = IsDmg(d)
  BY <1>1 DEF Clear, IsDmg
<1>7. PhaseInv(d)'
  BY <1>1, <1>5 DEF PhaseInv, Running
<1>8. KeyInv(d)'
  <2>1. key[d] = "none" => image[d].crypt = "no"
    BY <1>2 DEF Clear
  <2> QED BY <1>1, <1>4, <1>5, <1>6, <2>1 DEF DevInv, KeyInv
<1>9. TableInv(d)' /\ CacheInv(d)'
  BY <1>1, <1>2, <1>5, <1>6 DEF TableInv, CacheInv
<1>10. StreamInv(d)'
  BY <1>1, <1>4, <1>5 DEF StreamInv, Sound
<1> QED BY <1>7, <1>8, <1>9, <1>10 DEF DevInv

LEMMA NotSparseKeeps ==
  ASSUME DevTyped, NEW d \in Devices, DevInv(d), NotSparse(d)
  PROVE  DevInv(d)'
<1>1. /\ phase[d] = "head" /\ kind[d] = "none" /\ cache[d] = NoCache /\ ~IsDmg(d)
      /\ UNCHANGED <<image, kind, key, table, next, node, cache>>
      /\ ImageRead(d, 0, 1) # <<Node>> /\ phase'[d] = "raw"
      /\ image[d].form # "absent" /\ WholeFile(image[d])
  BY NotYet, Files DEF NotSparse, Goto, DevTyped, DevInv, PhaseInv
<1>2. image[d].form # "udif"
  BY <1>1 DEF IsDmg, WholeFile, FileTyped
<1>3. ASSUME image[d].form = "sparse", image[d].crypt = "no", image[d].bad = {} PROVE FALSE
  <2>1. Clear(d) /\ ~failed[d]
    BY <1>1, <1>3 DEF DevInv, KeyInv, Clear
  <2>2. 0 \in Nat /\ 0 < image[d].units /\ 0 \in DOMAIN image[d].table
    BY <1>1, <1>3 DEF WholeFile, SparseWhole, FileTyped
  <2>3. Seen(d, 0) = Node
    BY <1>1, <1>3, <2>1, <2>2, BodyFacts DEF Seen
  <2> QED BY <1>1, <1>3, <2>1, <2>2, <2>3, ReadOne DEF DevInv
<1>4. PhaseInv(d)'
  BY <1>1 DEF PhaseInv
<1>5. KeyInv(d)'
  BY <1>1, <1>2, <1>3 DEF DevInv, KeyInv
<1>6. TableInv(d)' /\ CacheInv(d)' /\ StreamInv(d)'
  BY <1>1 DEF TableInv, CacheInv, StreamInv
<1> QED BY <1>4, <1>5, <1>6 DEF DevInv

-----------------------------------------------------------------------------
(* The index of a sparse image.                                             *)

\* The places a node gives to its bands.
LEMMA NodePlaces ==
  ASSUME NEW f, SparseWhole(f), NEW n \in DOMAIN f.table, NEW at \in Nat,
         NEW t \in [Bands(f) -> Nat]
  PROVE  /\ BandsOf(f.table[n].slots, at, f.band, t) \in [Bands(f) -> Nat]
         /\ \A b \in Bands(f) :
              LET S == Slot(f.table[n].slots, b)
              IN /\ S = {} => BandsOf(f.table[n].slots, at, f.band, t)[b] = t[b]
                 /\ S # {} => \E k \in S : BandsOf(f.table[n].slots, at, f.band, t)[b]
                                              = at + 1 + f.band * (k - 1)
<1> DEFINE slots == f.table[n].slots
           new == BandsOf(slots, at, f.band, t)
<1>1. slots \in Seq(Nat) /\ f.band \in Nat \ {0}
  BY DEF SparseWhole
<1>2. DOMAIN t = Bands(f)
  OBVIOUS
<1> HIDE DEF slots
<1>3. ASSUME NEW b \in Bands(f), NEW k \in Slot(slots, b)
      PROVE  at + 1 + f.band * (k - 1) \in Nat
  <2>1. k \in Nat \ {0}
    BY <1>1 DEF Slot
  <2> DEFINE x == f.band * (k - 1)
  <2>2. x \in Nat
    BY <1>1, <2>1
  <2> HIDE DEF x
  <2>3. at + 1 + x \in Nat
    BY <2>2
  <2> QED BY <2>3 DEF x
<1>4. ASSUME NEW b \in Bands(f)
      PROVE  /\ Slot(slots, b) = {} => new[b] = t[b]
             /\ Slot(slots, b) # {} =>
                  \E k \in Slot(slots, b) : new[b] = at + 1 + f.band * (k - 1)
             /\ new[b] \in Nat
  <2>1. CASE Slot(slots, b) = {}
    BY <1>2, <2>1 DEF BandsOf
  <2>2. CASE Slot(slots, b) # {}
    <3> DEFINE k == CHOOSE k \in Slot(slots, b) : TRUE
    <3>1. k \in Slot(slots, b)
      BY <2>2
    <3>2. new[b] = at + 1 + f.band * (k - 1)
      BY <1>2, <2>2 DEF BandsOf
    <3> HIDE DEF k, new
    <3> QED BY <1>3, <2>2, <3>1, <3>2
  <2> QED BY <2>1, <2>2
<1>5. new \in [Bands(f) -> Nat]
  <2>1. new = [b \in Bands(f) |-> new[b]]
    BY <1>2 DEF BandsOf
  <2> HIDE DEF new
  <2> QED BY <1>4, <2>1
<1> QED BY <1>4, <1>5 DEF slots

(* One more node.                                                           *)
LEMMA PlaceNode ==
  ASSUME NEW f, SparseWhole(f), NEW n \in DOMAIN f.table, NEW V \in SUBSET DOMAIN f.table,
         NEW t \in [Bands(f) -> Nat], Placed(f, t, V)
  PROVE  Placed(f, BandsOf(f.table[n].slots, n, f.band, t), V \cup {n})
<1> DEFINE slots == f.table[n].slots
           new == BandsOf(slots, n, f.band, t)
           W == V \cup {n}
<1>1. n \in Nat
  BY DEF SparseWhole
<1>2. ASSUME NEW b \in Bands(f), Slot(slots, b) = {}
      PROVE  \/ \E p \in Used(f) : p[1] \in W /\ SlotOf(f, p) = b + 1 /\ new[b] = PlaceOf(f, p)
             \/ new[b] = 0 /\ \A p \in Used(f) : p[1] \in W => SlotOf(f, p) # b + 1
  <2>1. new[b] = t[b]
    BY <1>1, <1>2, NodePlaces
  <2>2. ASSUME NEW p \in Used(f), p[1] = n PROVE SlotOf(f, p) # b + 1
    <3>1. PICK k \in DOMAIN slots : p = <<n, k>>
      BY <2>2, BandFacts
    <3> QED BY <1>2, <2>2, <3>1 DEF SlotOf, Slot
  <2> QED BY <2>1, <2>2 DEF Placed
<1>3. ASSUME NEW b \in Bands(f), Slot(slots, b) # {}
      PROVE  \E p \in Used(f) : p[1] \in W /\ SlotOf(f, p) = b + 1 /\ new[b] = PlaceOf(f, p)
  <2> DEFINE k == CHOOSE k \in Slot(slots, b) : TRUE
  <2>1. k \in Slot(slots, b) /\ new[b] = n + 1 + f.band * (k - 1)
    <3>1. DOMAIN t = Bands(f)
      OBVIOUS
    <3> QED BY <1>3, <3>1 DEF BandsOf
  <2> HIDE DEF k
  <2> DEFINE p == <<n, k>>
  <2>2. k \in DOMAIN slots /\ slots[k] = b + 1 /\ b \in Nat
    BY <2>1 DEF Slot, Bands
  <2>3. p \in Places(f)
    BY <2>2 DEF Places
  <2>4. SlotOf(f, p) = b + 1 /\ PlaceOf(f, p) = new[b]
    BY <2>1, <2>2 DEF SlotOf, PlaceOf
  <2>5. p \in Used(f)
    BY <2>2, <2>3, <2>4 DEF Used
  <2> QED BY <2>4, <2>5
<1> QED BY <1>2, <1>3 DEF Placed

LEMMA LoadHeaderKeeps ==
  ASSUME DevTyped, NEW d \in Devices, DevInv(d), LoadHeader(d)
  PROVE  DevInv(d)'
<1> DEFINE f == image[d]
           zero == [b \in Bands(f) |-> 0]
<1>1. /\ phase[d] = "head" /\ kind[d] = "none" /\ cache[d] = NoCache
      /\ UNCHANGED <<image, kind, key, failed, node, cache>>
      /\ ImageRead(d, 0, 1) = <<Node>> /\ phase'[d] = "index"
      /\ table'[d] = BandsOf(f.table[0].slots, 0, f.band, zero) /\ next'[d] = f.table[0].next
      /\ f.form # "absent" /\ WholeFile(f)
  BY NotYet, Files DEF LoadHeader, Goto, DevTyped, DevInv, PhaseInv
<1>2. 0 \in Nat
  OBVIOUS
<1>3. Clear(d) /\ f.form = "sparse"
  BY <1>1, <1>2, MagicSeen, BodyFacts
<1>4. SparseWhole(f) /\ 0 \in DOMAIN f.table /\ f.table[0].next \in DOMAIN f.table
  BY <1>1, <1>3 DEF WholeFile, SparseWhole
<1>5. zero \in [Bands(f) -> Nat] /\ Placed(f, zero, {})
  BY DEF Placed
<1> HIDE DEF zero, f
<1>6. table'[d] \in [Bands(f) -> Nat] /\ Placed(f, table'[d], {} \cup {0})
  <2>1. BandsOf(f.table[0].slots, 0, f.band, zero) \in [Bands(f) -> Nat]
    BY <1>2, <1>4, <1>5, NodePlaces
  <2>2. {} \in SUBSET DOMAIN f.table
    OBVIOUS
  <2>3. Placed(f, BandsOf(f.table[0].slots, 0, f.band, zero), {} \cup {0})
    BY <1>4, <1>5, <2>2, PlaceNode
  <2> QED BY <1>1, <2>1, <2>3
<1>7. Indexed(f, table'[d], next'[d])
  <2>1. {0} \in SUBSET DOMAIN f.table /\ {} \cup {0} = {0}
    BY <1>4
  <2> QED BY <1>1, <1>6, <2>1 DEF Indexed
<1>8. Clear(d)' = Clear(d) /\ IsDmg(d)' = IsDmg(d) /\ image'[d] = f
  BY <1>1 DEF Clear, IsDmg, f
<1>9. PhaseInv(d)'
  BY <1>1, <1>8 DEF PhaseInv, f
<1>10. KeyInv(d)'
  BY <1>1, <1>8 DEF DevInv, KeyInv, f
<1>11. TableInv(d)'
  <2>1. node[d] = Nothing
    BY <1>1 DEF DevInv, TableInv
  <2> QED BY <1>1, <1>3, <1>4, <1>6, <1>7, <1>8, <2>1 DEF TableInv
<1>12. CacheInv(d)' /\ StreamInv(d)'
  BY <1>1 DEF CacheInv, StreamInv
<1> QED BY <1>9, <1>10, <1>11, <1>12 DEF DevInv

LEMMA IndexStepKeeps ==
  ASSUME DevTyped, NEW d \in Devices, DevInv(d), LoadIndex(d) \/ IndexUnread(d)
  PROVE  DevInv(d)'
<1> DEFINE f == image[d]
           x == ImageRead(d, next[d], 1)
<1>1. /\ phase[d] = "index" /\ kind[d] = "none" /\ cache[d] = NoCache /\ next[d] # 0
      /\ UNCHANGED <<image, kind, key, cache>>
      /\ f.form = "sparse" /\ WholeFile(f) /\ Clear(d) /\ SparseWhole(f)
      /\ next[d] \in DOMAIN f.table /\ table[d] \in [Bands(f) -> Nat]
      /\ node[d] # Nothing => \E n \in DOMAIN f.table : node[d] = f.table[n]
      /\ ~failed[d] => Indexed(f, table[d], next[d])
      /\ f.bad = {} => ~failed[d]
  <2>1. phase[d] = "index" /\ next[d] # 0 /\ UNCHANGED <<image, kind, key, cache>>
    BY DEF LoadIndex, IndexUnread
  <2> QED BY <2>1, NotYet, Files DEF WholeFile, DevInv, TableInv, KeyInv
<1>2. next[d] \in Nat /\ next[d] < f.units
  <2> HIDE DEF f, x
  <2>1. f.units \in Nat
    BY <1>1 DEF WholeFile, FileTyped
  <2>2. DOMAIN f.table \subseteq 0..(f.units - 1)
    BY <1>1 DEF SparseWhole
  <2>3. next[d] \in 0..(f.units - 1)
    BY <1>1, <2>2
  <2> QED BY <2>1, <2>3
<1>3. Seen(d, next[d]) = Node
  BY <1>1, <1>2, BodyFacts DEF Seen
<1>4. /\ failed[d] => FailsAfter(d, next[d], 1)
      /\ ~FailsAfter(d, next[d], 1) => x = <<Node>>
      /\ f.bad = {} => ~FailsAfter(d, next[d], 1) /\ x = <<Node>>
  BY <1>1, <1>2, <1>3, ReadOne, ReadFacts DEF DevInv
<1>5. Clear(d)' = Clear(d) /\ IsDmg(d)' = IsDmg(d) /\ image'[d] = f
  BY <1>1 DEF Clear, IsDmg
<1>6. /\ phase'[d] \in {"index", "crashed"} /\ (f.bad = {} => ~failed'[d])
      /\ phase'[d] = "index" =>
           /\ next'[d] \in DOMAIN f.table /\ table'[d] \in [Bands(f) -> Nat]
           /\ node'[d] # Nothing => \E n \in DOMAIN f.table : node'[d] = f.table[n]
           /\ ~failed'[d] => Indexed(f, table'[d], next'[d])
      /\ failed[d] => failed'[d]
  <2>1. CASE LoadIndex(d)
    <3> DEFINE n == IF x = <<Node>> THEN f.table[next[d]] ELSE node[d]
    <3>1. /\ node'[d] = n /\ n # Nothing /\ phase' = phase
          /\ table'[d] = BandsOf(n.slots, next[d], f.band, table[d])
          /\ next'[d] = n.next /\ failed'[d] = FailsAfter(d, next[d], 1)
      BY <2>1 DEF LoadIndex, NextOf, DevTyped
    <3>2. PICK m \in DOMAIN f.table : n = f.table[m] /\ (x = <<Node>> => m = next[d])
      BY <1>1, <3>1
    <3> HIDE DEF n, f, x
    <3>3. n.next \in DOMAIN f.table
      BY <1>1, <3>2 DEF SparseWhole
    <3>4. table'[d] \in [Bands(f) -> Nat]
      BY <1>1, <1>2, <3>1, <3>2, NodePlaces
    <3>5. ASSUME ~failed'[d] PROVE Indexed(f, table'[d], next'[d])
      <4>1. m = next[d] /\ ~failed[d]
        BY <1>4, <3>1, <3>2, <3>5
      <4>2. PICK V \in SUBSET DOMAIN f.table :
              /\ 0 \in V /\ (\A k \in V : f.table[k].next \in V \cup {next[d]})
              /\ Placed(f, table[d], V)
        BY <1>1, <4>1 DEF Indexed
      <4>3. Placed(f, table'[d], V \cup {m})
        <5>1. Placed(f, BandsOf(f.table[m].slots, m, f.band, table[d]), V \cup {m})
          BY <1>1, <4>2, PlaceNode
        <5> QED BY <3>1, <3>2, <4>1, <5>1
      <4>4. \A k \in V \cup {m} : f.table[k].next \in (V \cup {m}) \cup {next'[d]}
        BY <3>1, <3>2, <4>1, <4>2
      <4> QED BY <4>2, <4>3, <4>4 DEF Indexed
    <3> QED BY <1>1, <1>4, <3>1, <3>2, <3>3, <3>4, <3>5
  <2>2. CASE IndexUnread(d)
    <3>1. /\ x # <<Node>> /\ failed'[d] = TRUE /\ UNCHANGED <<table, node>>
          /\ \/ phase'[d] = "crashed"
             \/ phase'[d] = "index" /\ next'[d] = 0
      BY <1>1, <2>2 DEF IndexUnread, Goto, DevTyped
    <3>2. 0 \in DOMAIN f.table
      BY <1>1 DEF SparseWhole
    <3> QED BY <1>1, <1>4, <3>1, <3>2
  <2> QED BY <2>1, <2>2
<1> HIDE DEF f, x
<1>7. PhaseInv(d)'
  BY <1>1, <1>5, <1>6 DEF PhaseInv, f
<1>8. KeyInv(d)'
  <2>1. f.crypt = "no" \/ key[d] # "none"
    BY <1>1 DEF Clear, f
  <2> QED BY <1>1, <1>5, <1>6, <2>1 DEF DevInv, KeyInv, f
<1>9. TableInv(d)'
  BY <1>1, <1>5, <1>6 DEF TableInv
<1>10. CacheInv(d)' /\ StreamInv(d)'
  BY <1>1 DEF CacheInv, StreamInv
<1> QED BY <1>7, <1>8, <1>9, <1>10 DEF DevInv

LEMMA IndexLoadedKeeps ==
  ASSUME DevTyped, NEW d \in Devices, DevInv(d), IndexLoaded(d)
  PROVE  DevInv(d)'
<1>1. /\ phase[d] = "index" /\ kind[d] = "none" /\ cache[d] = NoCache /\ next[d] = 0
      /\ UNCHANGED <<image, key, failed, table, next, node, cache>>
      /\ phase'[d] = "open" /\ kind'[d] = "sparse"
  BY NotYet DEF IndexLoaded, Goto, DevTyped
<1>2. Clear(d)' = Clear(d) /\ Odd(d)' = Odd(d)
  BY <1>1 DEF Clear, Odd
<1>3. PhaseInv(d)'
  BY <1>1 DEF DevInv, PhaseInv, Running
<1>4. KeyInv(d)'
  BY <1>1, <1>2 DEF DevInv, KeyInv
<1>5. TableInv(d)'
  BY <1>1, <1>2 DEF DevInv, TableInv
<1>6. CacheInv(d)'
  BY <1>1 DEF CacheInv
<1>7. StreamInv(d)'
  BY <1>1, <1>2 DEF DevInv, KeyInv, StreamInv, Sound
<1> QED BY <1>3, <1>4, <1>5, <1>6, <1>7 DEF DevInv

(* Opening a device, whatever it is and whatever goes wrong.                *)
LEMMA OpeningKeeps ==
  ASSUME DevTyped, NEW d \in Devices, \A e \in Devices : DevInv(e), Opening(d)
  PROVE  DevTyped' /\ \A e \in Devices : DevInv(e)'
<1>1. DevInv(d)'
  BY OpenRawKeeps, SignatureKeeps, KeysUnreadKeeps, TakeRawKeeps, LoadSectionsKeeps, NotSparseKeeps,
     LoadHeaderKeeps, IndexStepKeeps, IndexLoadedKeeps DEF Opening
<1> QED BY <1>1, OpeningTyped, OtherFrame

-----------------------------------------------------------------------------
(* Reading.                                                                 *)

(* What a disk holds, and what is known of it, is the same after a step      *)
(* that is not one of opening it.                                           *)
LEMMA SameDisk ==
  ASSUME NEW d \in Devices, UNCHANGED <<image, kind, key>>
  PROVE  /\ Contents(d)' = Contents(d) /\ Clear(d)' = Clear(d) /\ Odd(d)' = Odd(d)
         /\ Misread(d)' = Misread(d) /\ IsDmg(d)' = IsDmg(d) /\ Sound(d)' = Sound(d)
<1>1. Clear(d)' = Clear(d) /\ Odd(d)' = Odd(d) /\ Misread(d)' = Misread(d) /\ IsDmg(d)' = IsDmg(d)
  BY DEF Clear, Odd, Misread, IsDmg
<1>2. Sound(d)' = Sound(d)
  BY <1>1 DEF Sound
<1>3. Contents(d)' = Contents(d)
  BY DEF Contents
<1> QED BY <1>1, <1>2, <1>3

(* A step that reads from the stream of a device or fills its cache, and     *)
(* may stop it.                                                             *)
LEMMA StreamStopFrame ==
  ASSUME DevTyped, NEW d \in Devices, \A e \in Devices : DevInv(e),
         UNCHANGED <<image, kind, key, table, next, node>>,
         phase' \in [Devices -> Phases], \A e \in Devices \ {d} : phase'[e] = phase[e],
         phase'[d] \in {phase[d]} \cup Running,
         \A e \in Devices \ {d} : cache'[e] = cache[e],
         DOMAIN cache' = Devices, cache'[d] = cache[d] \/ CacheInv(d)',
         failed' = failed \/ \E off, n \in Nat : Stream(d, off, n),
         kind[d] # "none", kind[d] # "linux", failed[d] => failed'[d],
         Sound(d) /\ kind[d] \in {"dmg", "sparse"} => ~failed'[d]
  PROVE  DevTyped' /\ \A e \in Devices : DevInv(e)'
<1>1. DevTyped' /\ \A e \in Devices \ {d} : failed'[e] = failed[e]
  BY DEF DevTyped, Stream, FailsAfter
<1>2. ASSUME NEW e \in Devices, e # d PROVE DevInv(e)'
  BY <1>1, <1>2, DevFrame
<1>3. /\ Contents(d)' = Contents(d) /\ Clear(d)' = Clear(d) /\ Odd(d)' = Odd(d)
      /\ IsDmg(d)' = IsDmg(d) /\ Sound(d)' = Sound(d)
  BY SameDisk
<1>4. /\ phase[d] \in Running \cup {"closed"} /\ phase'[d] \in Running \cup {"closed"}
      /\ PhaseInv(d)'
  BY DEF DevInv, PhaseInv, Running
<1>5. KeyInv(d)'
  BY <1>3, <1>4 DEF DevInv, KeyInv, Running
<1>6. TableInv(d)'
  BY <1>3, <1>4 DEF DevInv, TableInv, Running
<1>7. CacheInv(d)'
  BY <1>3 DEF DevInv, CacheInv
<1>8. StreamInv(d)'
  BY <1>3 DEF DevInv, StreamInv
<1>9. DevInv(d)'
  BY <1>4, <1>5, <1>6, <1>7, <1>8 DEF DevInv
<1> QED BY <1>1, <1>2, <1>9

(* A step that does no more than that.                                      *)
LEMMA StreamFrame ==
  ASSUME DevTyped, NEW d \in Devices, \A e \in Devices : DevInv(e),
         UNCHANGED <<image, phase, kind, key, table, next, node>>,
         \A e \in Devices \ {d} : cache'[e] = cache[e],
         DOMAIN cache' = Devices, cache'[d] = cache[d] \/ CacheInv(d)',
         failed' = failed \/ \E off, n \in Nat : Stream(d, off, n),
         kind[d] # "none", kind[d] # "linux", failed[d] => failed'[d],
         Sound(d) /\ kind[d] \in {"dmg", "sparse"} => ~failed'[d]
  PROVE  DevTyped' /\ \A e \in Devices : DevInv(e)'
<1>1. phase' \in [Devices -> Phases] /\ \A e \in Devices : phase'[e] = phase[e]
  BY DEF DevTyped
<1> QED BY <1>1, StreamStopFrame

(* Pieces that fit the disk fit it together.                                *)
LEMMA Pieces ==
  ASSUME NEW d, NEW o \in Nat, NEW a \in Seq(Int), NEW c \in Seq(Int)
  PROVE  /\ a \o c \in Seq(Int) /\ Len(a \o c) = Len(a) + Len(c)
         /\ Plausible(o, a) /\ Plausible(o + Len(a), c) => Plausible(o, a \o c)
         /\ Right(d, o, a) /\ Right(d, o + Len(a), c) => Right(d, o, a \o c)
<1>1. /\ a \o c \in Seq(Int) /\ Len(a \o c) = Len(a) + Len(c)
      /\ Len(a) \in Nat /\ Len(c) \in Nat
  OBVIOUS
<1>2. ASSUME NEW i \in 1..Len(a \o c)
      PROVE  \/ i \in 1..Len(a) /\ (a \o c)[i] = a[i]
             \/ \E j \in 1..Len(c) :
                  (a \o c)[i] = c[j] /\ o + i - 1 = o + Len(a) + j - 1
  <2>1. CASE i <= Len(a)
    BY <1>1, <2>1
  <2>2. CASE i > Len(a)
    <3>1. i - Len(a) \in 1..Len(c) /\ (a \o c)[i] = c[i - Len(a)]
      BY <1>1, <2>2
    <3>2. o + i - 1 = o + Len(a) + (i - Len(a)) - 1
      BY <1>1
    <3> QED BY <3>1, <3>2
  <2> QED BY <1>1, <2>1, <2>2
<1>3. Plausible(o, a) /\ Plausible(o + Len(a), c) => Plausible(o, a \o c)
  BY <1>2 DEF Plausible
<1>4. Right(d, o, a) /\ Right(d, o + Len(a), c) => Right(d, o, a \o c)
  BY <1>2 DEF Right
<1> QED BY <1>1, <1>3, <1>4

(* A piece is delivered.                                                    *)
LEMMA DeliverKeeps ==
  ASSUME NEW d \in Devices, AskOf(d), NEW c \in Seq(Int), Len(c) <= Left, Deliver(c),
         UNCHANGED <<image, kind, key>>, failed[d] => failed'[d],
         phase'[d] \in Running, kind[d] \in {"dmg", "sparse"},
         Odd(d) \/ Plausible(Offs, c),
         Odd(d) \/ failed'[d] \/ Right(d, Offs, c),
         LET t == Sections(image[d])
             k == asked.sect + 1
         IN kind[d] = "dmg" /\ Left > Len(c) =>
              \/ k <= Len(t) /\ Holds(t[k], Offs + Len(c))
              \/ k > Len(t) /\ Offs + Len(c) >= image[d].size
  PROVE  /\ AskOf(d)' /\ asked' # Nothing /\ asked # Nothing
         /\ asked'.dev = asked.dev /\ asked'.offs = asked.offs /\ asked'.len = asked.len
         /\ answer' = Nothing
<1> DEFINE o == asked.offs
           a == asked.data
           T == [dev : Devices, offs : Nat, len : Nat \ {0}, data : Seq(Int), sect : Nat,
                 beg : Int, end : Int]
<1>1. /\ o \in Nat /\ a \in Seq(Int) /\ asked.len \in Nat \ {0} /\ asked.dev = d
      /\ asked.sect \in Nat /\ kind[d] # "none" /\ answer = Nothing
      /\ Len(a) \in Nat /\ Len(c) \in Nat /\ asked \in T
  BY DEF AskOf
<1>2. asked' = [asked EXCEPT !.data = a \o c, !.sect = asked.sect + 1] /\ answer' = Nothing
  BY <1>1 DEF Deliver
<1>3. /\ a \o c \in Seq(Int) /\ Len(a \o c) = Len(a) + Len(c)
      /\ Plausible(o, a) /\ Plausible(o + Len(a), c) => Plausible(o, a \o c)
      /\ Right(d, o, a) /\ Right(d, o + Len(a), c) => Right(d, o, a \o c)
  BY ZenonT(40), <1>1, Pieces
<1>4. /\ asked' \in T
      /\ asked'.dev = d /\ asked'.offs = o /\ asked'.len = asked.len
      /\ asked'.data = a \o c /\ asked'.sect = asked.sect + 1
  <2> DEFINE x == a \o c
  <2>1. x \in Seq(Int) /\ asked.sect + 1 \in Nat /\ asked' = [asked EXCEPT !.data = x, !.sect = asked.sect + 1]
    BY <1>1, <1>2, <1>3
  <2> HIDE DEF x
  <2>2. asked' \in T /\ asked'.dev = asked.dev /\ asked'.offs = asked.offs /\ asked'.len = asked.len
        /\ asked'.data = x /\ asked'.sect = asked.sect + 1
    BY <1>1, <2>1
  <2> QED BY <1>1, <2>2 DEF x
<1>5. Offs = o + Len(a) /\ Left = asked.len - Len(a)
  BY DEF Offs, Left
<1>6. Len(asked'.data) <= asked'.len
  BY <1>1, <1>3, <1>4, <1>5
<1>7. /\ Odd(d)' = Odd(d) /\ Contents(d)' = Contents(d)
      /\ kind'[d] \notin {"none", "linux", "rawdmg"}
  BY SameDisk
<1>8. Odd(d)' \/ Plausible(asked'.offs, asked'.data)
  <2>1. Odd(d) \/ Plausible(o, a)
    BY DEF AskOf
  <2> QED BY <1>3, <1>4, <1>5, <1>7, <2>1
<1>9. (Broken(d) \/ Right(d, asked.offs, asked.data))'
  <2>1. Odd(d) \/ failed[d] \/ Right(d, o, a)
    BY <1>1 DEF AskOf, Broken
  <2>2. Odd(d) \/ failed'[d] \/ Right(d, o, a \o c)
    BY <1>3, <1>5, <2>1
  <2>3. CASE Odd(d) \/ failed'[d]
    BY <1>7, <2>3 DEF Broken
  <2>4. CASE Right(d, o, a \o c)
    BY SMTT(30), <1>4, <1>7, <2>4 DEF Right
  <2> QED BY <2>2, <2>3, <2>4
<1>10. (kind[d] = "dmg" => SectInv(Sections(image[d]), image[d].size))'
  <2>1. asked'.sect # 0 /\ asked'.sect = asked.sect + 1
    BY <1>1, <1>4
  <2>2. Left' = Left - Len(c) /\ Offs' = Offs + Len(c)
    <3>1. Left' = asked'.len - Len(asked'.data) /\ Offs' = asked'.offs + Len(asked'.data)
      BY DEF Left, Offs
    <3>2. Len(asked'.data) = Len(a) + Len(c) /\ asked'.len = asked.len /\ asked'.offs = o
      BY <1>3, <1>4
    <3>3. Left' = asked.len - (Len(a) + Len(c)) /\ Offs' = o + (Len(a) + Len(c))
      BY <3>1, <3>2
    <3> HIDE DEF o, a
    <3> QED BY SMTT(30), <1>1, <1>5, <3>3
  <2>3. Left' > 0 => Left > Len(c)
    BY <1>1, <1>5, <2>2
  <2> QED BY <2>1, <2>2, <2>3 DEF SectInv
<1>11. asked # Nothing /\ asked' # Nothing
  BY <1>1, <1>4 DEF Nothing
<1>12. AskOf(d)'
  BY <1>1, <1>2, <1>4, <1>6, <1>7, <1>8, <1>9, <1>10 DEF AskOf
<1> QED BY <1>1, <1>2, <1>4, <1>11, <1>12

(* The Read under way.                                                      *)
LEMMA AskFacts ==
  ASSUME NEW d \in Devices, AskOf(d)
  PROVE  /\ asked # Nothing /\ asked.dev = d /\ asked.offs \in Nat /\ asked.len \in Nat \ {0}
         /\ asked.data \in Seq(Int) /\ Len(asked.data) \in Nat /\ asked.sect \in Nat
         /\ asked.beg \in Int /\ asked.end \in Int
         /\ Offs \in Nat /\ Left \in Nat
         /\ Offs = asked.offs + Len(asked.data) /\ Left = asked.len - Len(asked.data)
<1>1. /\ asked.dev = d /\ asked.offs \in Nat /\ asked.len \in Nat \ {0}
      /\ asked.data \in Seq(Int) /\ asked.sect \in Nat /\ asked.beg \in Int /\ asked.end \in Int
      /\ Len(asked.data) <= asked.len
      /\ asked \in [dev : Devices, offs : Nat, len : Nat \ {0}, data : Seq(Int), sect : Nat,
                    beg : Int, end : Int]
  BY DEF AskOf
<1>2. asked # Nothing
  BY <1>1 DEF Nothing
<1>3. Offs = asked.offs + Len(asked.data) /\ Left = asked.len - Len(asked.data)
  BY DEF Offs, Left
<1> QED BY <1>1, <1>2, <1>3

(* A read is answered.                                                      *)
LEMMA ReturnKeeps ==
  ASSUME NEW d \in Devices, AskOf(d), ReadInv, NEW ok \in BOOLEAN, NEW c \in Seq(Int), Return(ok, c),
         UNCHANGED <<image, kind, key, main>>,
         ok => Len(c) = asked.len,
         Odd(d) \/ Misread(d) \/ Plausible(asked.offs, c),
         \/ kind[d] = "linux" /\ ~ok
         \/ Odd(d) \/ (kind[d] # "linux" /\ failed'[d]) \/ Right(d, asked.offs, c),
         Sound(d) /\ ~failed'[d] /\ asked.offs + asked.len <= image[d].size /\ ~ok =>
           kind[d] # "linux" /\ Len(c) < asked.len /\ ~Kept(image[d], asked.offs + Len(c))
  PROVE  AskInv' /\ ReadInv'
<1>1. asked.dev = d /\ asked.offs \in Nat /\ asked.len \in Nat \ {0} /\ asked # Nothing
  BY AskFacts
<1> PICK o \in Nat, n \in Nat : o = asked.offs /\ n = asked.len
  BY <1>1
<1>2. asked' = Nothing /\ answer' = [dev |-> d, ok |-> ok, data |-> c]
  BY <1>1 DEF Return
<1>3. /\ Contents(d)' = Contents(d) /\ Odd(d)' = Odd(d) /\ Misread(d)' = Misread(d)
      /\ Sound(d)' = Sound(d) /\ UNCHANGED <<call, pc, gptDev, sector, start, paddr>>
  BY SameDisk DEF main
<1>4. Delivered(d, o, n, answer)'
  <2>1. answer'.ok = ok /\ answer'.data = c
    BY <1>2
  <2>2. Broken(d)' = (Odd(d) \/ (kind[d] # "linux" /\ failed'[d]))
    BY <1>3 DEF Broken
  <2>3. Right(d, o, c)' = Right(d, o, c)
    BY <1>3 DEF Right
  <2> QED BY <1>3, <2>1, <2>2, <2>3 DEF Delivered
<1>5. Awaited(d, o, n)'
  BY <1>1, <1>3 DEF ReadInv, Awaited, Given
<1>6. AskInv'
  BY <1>2 DEF AskInv
<1>7. answer'.dev = d /\ pc' = pc
  BY <1>2, <1>3
<1>8. pc # "volume"
  BY <1>5, <1>7 DEF Awaited
<1> QED BY <1>2, <1>4, <1>5, <1>6, <1>7, <1>8 DEF ReadInv

(* A read goes on.                                                          *)
LEMMA GoesOn ==
  ASSUME NEW d \in Devices, AskOf(d)', asked # Nothing, answer' = Nothing, ReadInv,
         asked'.dev = asked.dev, asked'.offs = asked.offs, asked'.len = asked.len, UNCHANGED main
  PROVE  AskInv' /\ ReadInv'
<1>1. UNCHANGED <<call, pc, gptDev, sector, start, paddr>> /\ asked.dev = d
  BY DEF main, AskOf
<1>2. Awaited(asked.dev, asked.offs, asked.len)'
  BY <1>1 DEF ReadInv, Awaited, Given
<1> QED BY <1>2 DEF AskInv, ReadInv

-----------------------------------------------------------------------------
(* What a disk holds.                                                       *)

(* No two sections of a DMG have a sector of the disk in common.            *)
LEMMA OneHolder ==
  ASSUME NEW f, DmgWhole(f), NEW i \in 1..Len(Sections(f)), NEW j \in 1..Len(Sections(f)),
         NEW u \in Nat, Holds(Sections(f)[i], u), Holds(Sections(f)[j], u)
  PROVE  i = j
<1> DEFINE t == Sections(f)
<1>1. /\ Len(t) \in Nat /\ t[i].first \in Nat /\ t[i].count \in Nat \ {0}
      /\ t[j].first \in Nat /\ t[j].count \in Nat \ {0}
  BY SectionFacts
<1>2. /\ t[i].first <= u /\ u < t[i].first + t[i].count
      /\ t[j].first <= u /\ u < t[j].first + t[j].count
  BY SMTT(30), <1>1 DEF Holds, Sectors
<1>3. \A k, l \in 1..Len(t) : k < l => t[k].first + t[k].count <= t[l].first
  <2>1. \A k \in 1..Len(t) : \A l \in (k + 1)..Len(t) : t[k].first + t[k].count <= t[l].first
    BY DEF DmgWhole
  <2> HIDE DEF t
  <2>2. \A k, l \in 1..Len(t) : k < l => l \in (k + 1)..Len(t)
    BY <1>1
  <2> QED BY <2>1, <2>2
<1>4. i \in 1..Len(t) /\ j \in 1..Len(t) /\ i \in Nat /\ j \in Nat
  <2> HIDE DEF t
  <2>1. i \in 1..Len(t) /\ j \in 1..Len(t)
    BY DEF t
  <2> QED BY <1>1, <2>1
<1> HIDE DEF t
<1>5. /\ i < j => t[i].first + t[i].count <= t[j].first
      /\ j < i => t[j].first + t[j].count <= t[i].first
  BY <1>3, <1>4
<1>6. ~(i < j) /\ ~(j < i)
  BY SMTT(30), <1>1, <1>2, <1>5
<1> QED BY <1>4, <1>6

(* Behind a section comes the next one, or the end of the disk.             *)
LEMMA SectNext ==
  ASSUME NEW f, FileTyped(f), DmgWhole(f), NEW i \in 1..Len(Sections(f))
  PROVE  LET t == Sections(f)
             u == t[i].first + t[i].count
         IN \/ i + 1 <= Len(t) /\ Holds(t[i + 1], u)
            \/ i + 1 > Len(t) /\ u >= f.size
<1> DEFINE t == Sections(f)
           u == t[i].first + t[i].count
<1>1. /\ Len(t) \in Nat /\ t[i].first \in Nat /\ t[i].count \in Nat \ {0} /\ f.size \in Nat
      /\ u \in Nat
  BY SectionFacts DEF FileTyped
<1>2. CASE i < Len(t)
  <2>1. t[i + 1].first = u
    BY <1>2 DEF DmgWhole
  <2>2. i + 1 \in 1..Len(t)
    BY <1>1, <1>2
  <2>3. t[i + 1].count \in Nat \ {0}
    BY <2>2, SectionFacts
  <2> HIDE DEF u, t
  <2>4. Holds(t[i + 1], u)
    BY <1>1, <2>1, <2>3 DEF Holds, Sectors
  <2> QED BY <1>1, <1>2, <2>2, <2>4 DEF t, u
<1>3. CASE i = Len(t)
  <2>1. SUFFICES ASSUME u < f.size PROVE FALSE
    BY <1>1, <1>3
  <2>2. u \in 0..(f.size - 1)
    BY <1>1, <2>1
  <2>3. PICK j \in 1..Len(t) : Holds(t[j], u)
    BY <2>2 DEF DmgWhole
  <2>4. t[j].first \in Nat /\ t[j].count \in Nat \ {0}
    BY SectionFacts
  <2>5. t[j].first <= u /\ u < t[j].first + t[j].count
    BY <2>3, <2>4 DEF Holds, Sectors
  <2>6. j < i => t[j].first + t[j].count <= t[i].first
    <3>1. j < i => i \in (j + 1)..Len(t)
      <4> HIDE DEF t
      <4>1. i \in 1..Len(t)
        BY DEF t
      <4> QED BY <1>1, <4>1
    <3> QED BY <3>1 DEF DmgWhole
  <2> HIDE DEF t
  <2> QED BY <1>1, <1>3, <2>4, <2>5, <2>6 DEF u
<1>4. i <= Len(t) /\ i \in Nat
  <2> HIDE DEF t
  <2>1. i \in 1..Len(t)
    BY DEF t
  <2> QED BY <1>1, <2>1
<1> QED BY <1>1, <1>2, <1>3, <1>4

(* A device is not taken for another kind of image where nothing is wrong.  *)
LEMMA SoundFlat ==
  ASSUME DevTyped, NEW d \in Devices, DevInv(d), Sound(d), kind[d] \in {"linux", "rawdmg"}
  PROVE  image[d].form = "flat"
<1>1. FileTyped(image[d]) /\ image[d].form # "absent" /\ image[d].bad = {} /\ Clear(d)
  BY Files DEF WholeFile, Sound
<1>2. CASE kind[d] = "linux"
  BY <1>1, <1>2 DEF DevInv, KeyInv, Clear, FileTyped
<1>3. CASE kind[d] = "rawdmg"
  <2>1. image[d].form # "udif"
    BY <1>1, <1>3 DEF DevInv, KeyInv, Clear
  <2>2. image[d].form # "sparse"
    BY <1>1, <1>3 DEF DevInv, KeyInv, IsDmg, FileTyped
  <2> QED BY <1>1, <2>1, <2>2 DEF FileTyped
<1> QED BY <1>2, <1>3

(* What is kept of a disk is on it.                                         *)
LEMMA KeptFacts ==
  ASSUME DevTyped, NEW d \in Devices, DevInv(d), Sound(d), kind[d] # "none",
         NEW u \in Nat, Kept(image[d], u)
  PROVE  u < image[d].size /\ u \in DOMAIN Contents(d) /\ Contents(d)[u] = u
<1> DEFINE f == image[d]
<1>1. /\ WholeFile(f) /\ f.form # "absent" /\ Clear(d) /\ f.bad = {}
      /\ FileTyped(f) /\ f.units \in Nat /\ f.size \in Nat
      /\ kind[d] \in {"dmg", "rawdmg", "sparse", "linux"}
  BY Files DEF Sound, WholeFile, FileTyped, DevTyped, Kinds
<1>2. CASE kind[d] \in {"linux", "rawdmg"}
  <2>1. f.form = "flat" /\ f.size = f.units /\ Body(f, u) = u
    BY <1>1, <1>2, SoundFlat, BodyFacts DEF FileTyped
  <2>2. u < f.units
    BY <2>1 DEF Kept
  <2>3. u \in 0..(f.units - 1)
    BY <1>1, <2>2
  <2>4. CASE kind[d] = "linux"
    <3>1. f.crypt = "no"
      BY <1>1, <2>4 DEF DevInv, KeyInv, Clear
    <3>2. FileLen(f) = f.units
      BY <1>1, <3>1 DEF FileLen, HeaderLen
    <3>3. Contents(d) = [v \in 0..(FileLen(f) - 1) |-> Stored(f, v)]
      BY <2>4 DEF Contents
    <3>4. Stored(f, u) = u
      BY <2>1, <3>1 DEF Stored
    <3> HIDE DEF f
    <3> QED BY <2>1, <2>2, <2>3, <3>2, <3>3, <3>4 DEF f
  <2>5. CASE kind[d] = "rawdmg"
    <3>1. Contents(d) = [v \in 0..(f.units - 1) |->
                           IF key[d] = "right" \/ f.crypt = "no" THEN Body(f, v) ELSE Garbage]
      BY <2>5 DEF Contents
    <3>2. key[d] = "right" \/ f.crypt = "no"
      BY <1>1 DEF Clear
    <3> HIDE DEF f
    <3> QED BY <2>1, <2>2, <2>3, <3>1, <3>2 DEF f
  <2> QED BY <1>2, <2>4, <2>5
<1>3. CASE kind[d] = "dmg"
  <2>1. f.form = "udif" /\ DmgWhole(f)
    BY <1>1, <1>3 DEF DevInv, TableInv, WholeFile
  <2>2. PICK i \in DOMAIN Sections(f) :
          Sections(f)[i].method \in {"raw"} \cup Packings /\ Holds(Sections(f)[i], u)
    BY <2>1 DEF Kept
  <2>3. DOMAIN Sections(f) = 1..Len(Sections(f))
    BY <2>1 DEF DmgWhole
  <2>4. u < f.size
    <3>1. /\ Sections(f)[i].first \in Nat /\ Sections(f)[i].count \in Nat
          /\ Sections(f)[i].first + Sections(f)[i].count <= f.size
      BY <2>1, <2>2, <2>3, SectionFacts DEF DmgWhole
    <3>2. u < Sections(f)[i].first + Sections(f)[i].count
      BY <2>2, <3>1 DEF Holds, Sectors
    <3> HIDE DEF f
    <3> QED BY <1>1, <3>1, <3>2
  <2>5. ASSUME NEW j \in DOMAIN Sections(f), Holds(Sections(f)[j], u)
        PROVE  Sections(f)[j].method \notin {"zero", "ignore"}
    <3>1. i = j
      BY <2>1, <2>2, <2>3, <2>5, OneHolder
    <3> QED BY <2>2, <3>1 DEF Packings
  <2>6. Contents(d) = [v \in 0..(f.size - 1) |->
         IF \E j \in DOMAIN Sections(f) :
              Sections(f)[j].method \in {"zero", "ignore"} /\ Holds(Sections(f)[j], v)
           THEN Zero ELSE v]
    BY <1>3 DEF Contents
  <2>7. u \in 0..(f.size - 1)
    BY <1>1, <2>4
  <2> HIDE DEF f
  <2> QED BY <2>4, <2>5, <2>6, <2>7 DEF f
<1>4. CASE kind[d] = "sparse"
  <2>1. f.form = "sparse"
    BY <1>4 DEF DevInv, TableInv
  <2>2. u < f.size /\ \E b \in Used(f) : SlotOf(f, b) - 1 = u \div f.band
    BY <2>1 DEF Kept
  <2>3. Contents(d) = [v \in 0..(f.size - 1) |->
         IF \E b \in Used(f) : SlotOf(f, b) - 1 = v \div f.band THEN v ELSE Zero]
    BY <1>4 DEF Contents
  <2>4. u \in 0..(f.size - 1)
    BY <1>1, <2>2
  <2> HIDE DEF f
  <2> QED BY <2>2, <2>3, <2>4 DEF f
<1> QED BY <1>1, <1>2, <1>3, <1>4

(* What a DMG has in a section of the disk.                                 *)
LEMMA DmgContents ==
  ASSUME DevTyped, NEW d \in Devices, kind[d] = "dmg", DmgWhole(image[d]),
         NEW i \in 1..Len(Sections(image[d])), NEW u \in Nat, Holds(Sections(image[d])[i], u),
         u \in DOMAIN Contents(d)
  PROVE  Contents(d)[u] = IF Sections(image[d])[i].method \in {"zero", "ignore"} THEN Zero ELSE u
<1> DEFINE f == image[d]
           t == Sections(f)
<1>1. DOMAIN t = 1..Len(t)
  BY DEF DmgWhole
<1>2. Contents(d) = [v \in 0..(f.size - 1) |->
        IF \E j \in DOMAIN t : t[j].method \in {"zero", "ignore"} /\ Holds(t[j], v) THEN Zero ELSE v]
  BY DEF Contents
<1>3. \A j \in 1..Len(t) : Holds(t[j], u) => j = i
  BY OneHolder
<1>4. (\E j \in DOMAIN t : t[j].method \in {"zero", "ignore"} /\ Holds(t[j], u))
         <=> t[i].method \in {"zero", "ignore"}
  BY <1>1, <1>3
<1> HIDE DEF t
<1>5. Contents(d)[u] =
        IF \E j \in DOMAIN t : t[j].method \in {"zero", "ignore"} /\ Holds(t[j], u) THEN Zero ELSE u
  BY <1>2
<1> QED BY <1>4, <1>5 DEF t

-----------------------------------------------------------------------------
(* Reading a DMG.                                                           *)

LEMMA DmgFacts ==
  ASSUME DevTyped, NEW d \in Devices, DevInv(d), AskOf(d), kind[d] = "dmg"
  PROVE  /\ FileTyped(image[d]) /\ DmgWhole(image[d]) /\ image[d].form = "udif"
         /\ table[d] = Sections(image[d]) /\ DOMAIN Sections(image[d]) = 1..Len(Sections(image[d]))
         /\ Len(Sections(image[d])) \in Nat
         /\ Clear(d) /\ ~Odd(d) /\ (Sound(d) => ~failed[d])
         /\ SectInv(Sections(image[d]), image[d].size) /\ image[d].size \in Nat
<1>1. image[d].form = "udif" /\ Clear(d) /\ table[d] = Sections(image[d])
  BY DEF DevInv, TableInv
<1>2. FileTyped(image[d]) /\ DmgWhole(image[d])
  BY <1>1, Files DEF WholeFile
<1>3. ~Odd(d) /\ (Sound(d) => ~failed[d])
  BY <1>1 DEF Odd, DevInv, StreamInv
<1>4. SectInv(Sections(image[d]), image[d].size) /\ image[d].size \in Nat
  BY <1>2 DEF AskOf, FileTyped
<1>5. DOMAIN Sections(image[d]) = 1..Len(Sections(image[d])) /\ Len(Sections(image[d])) \in Nat
  BY <1>2 DEF DmgWhole
<1> QED BY <1>1, <1>2, <1>3, <1>4, <1>5

(* How much of a section from a on with b sectors is read from o on.        *)
LEMMA PieceSize ==
  ASSUME NEW a \in Nat, NEW b \in Nat \ {0}, NEW o \in Nat, NEW left \in Nat, left > 0,
         NEW x, NEW n, x = o - a, a <= o, o < a + b,
         \/ n = b - x /\ x + left > b
         \/ n = left /\ ~(x + left > b)
  PROVE  /\ x \in Nat /\ o = a + x /\ n \in Nat /\ n > 0 /\ n <= left /\ x + n <= b
         /\ left > n => o + n = a + b
OBVIOUS

(* The section the Read has come to, and how much of it is read.            *)
LEMMA AtFacts ==
  ASSUME DevTyped, NEW d \in Devices, DevInv(d), AskOf(d), kind[d] = "dmg",
         asked.sect # 0, asked.sect <= Len(table[d]), Left > 0
  PROVE  LET t == Sections(image[d])
             s == t[asked.sect]
             n == SizeInSection
         IN /\ asked.sect \in 1..Len(t) /\ Section = s /\ Holds(s, Offs)
            /\ s.method \in Methods /\ s.first \in Nat /\ s.count \in Nat \ {0}
            /\ s.at \in Nat /\ s.len \in Nat
            /\ s.method = "raw" => s.len = s.count
            /\ s.method \in Packings => s.len > 0
            /\ InSect \in Nat /\ Offs = s.first + InSect
            /\ n \in Nat /\ n > 0 /\ n <= Left /\ InSect + n <= s.count
            /\ Left > n =>
                 \/ asked.sect + 1 <= Len(t) /\ Holds(t[asked.sect + 1], Offs + n)
                 \/ asked.sect + 1 > Len(t) /\ Offs + n >= image[d].size
<1> DEFINE f == image[d]
           t == Sections(f)
           s == t[asked.sect]
<1>1. /\ FileTyped(f) /\ DmgWhole(f) /\ table[d] = t /\ Len(t) \in Nat
      /\ SectInv(t, f.size) /\ f.size \in Nat
  BY DmgFacts
<1>2. asked.dev = d /\ asked.sect \in Nat /\ Offs \in Nat /\ Left \in Nat
  BY AskFacts
<1>3. asked.sect \in 1..Len(t) /\ Section = s
  BY <1>1, <1>2 DEF Section
<1>4. Holds(s, Offs)
  BY <1>1, <1>3 DEF SectInv
<1>5. /\ s.first \in Nat /\ s.count \in Nat \ {0} /\ s.at \in Nat /\ s.len \in Nat
      /\ s.method \in Methods
  BY <1>1, <1>3, SectionFacts
<1>6. /\ s.method = "raw" => s.len = s.count
      /\ s.method \in Packings => s.len > 0
  BY <1>1, <1>3 DEF DmgWhole
<1>7. InSect = Offs - s.first
  BY <1>3 DEF InSect
<1>8. s.first <= Offs /\ Offs < s.first + s.count
  BY <1>2, <1>4, <1>5 DEF Holds, Sectors
<1>9. \/ SizeInSection = s.count - InSect /\ InSect + Left > s.count
      \/ SizeInSection = Left /\ ~(InSect + Left > s.count)
  BY <1>3 DEF SizeInSection
<1>10. \/ asked.sect + 1 <= Len(t) /\ Holds(t[asked.sect + 1], s.first + s.count)
       \/ asked.sect + 1 > Len(t) /\ s.first + s.count >= f.size
  BY <1>1, <1>3, SectNext
<1> HIDE DEF f, t, s
<1>11. /\ InSect \in Nat /\ Offs = s.first + InSect
       /\ SizeInSection \in Nat /\ SizeInSection > 0 /\ SizeInSection <= Left
       /\ InSect + SizeInSection <= s.count
       /\ Left > SizeInSection => Offs + SizeInSection = s.first + s.count
  <2> DEFINE a == s.first
             b == s.count
             P == /\ InSect \in Nat /\ Offs = a + InSect
                  /\ SizeInSection \in Nat /\ SizeInSection > 0 /\ SizeInSection <= Left
                  /\ InSect + SizeInSection <= b
                  /\ Left > SizeInSection => Offs + SizeInSection = a + b
  <2>1. a \in Nat /\ b \in Nat \ {0} /\ Offs \in Nat /\ Left \in Nat
    BY <1>2, <1>5
  <2>2. /\ InSect = Offs - a /\ a <= Offs /\ Offs < a + b
        /\ \/ SizeInSection = b - InSect /\ InSect + Left > b
           \/ SizeInSection = Left /\ ~(InSect + Left > b)
    BY <1>7, <1>8, <1>9
  <2> HIDE DEF a, b
  <2>3. P
    BY <2>1, <2>2, PieceSize
  <2> QED BY <2>3 DEF a, b
<1>12. Left > SizeInSection =>
         \/ asked.sect + 1 <= Len(t) /\ Holds(t[asked.sect + 1], Offs + SizeInSection)
         \/ asked.sect + 1 > Len(t) /\ Offs + SizeInSection >= f.size
  BY <1>10, <1>11
<1> QED BY <1>3, <1>4, <1>5, <1>6, <1>11, <1>12 DEF f, t, s

(* A piece of a section is delivered.                                       *)
LEMMA DmgPiece ==
  ASSUME DevTyped, NEW d \in Devices, DevInv(d), AskOf(d), kind[d] = "dmg",
         asked.sect # 0, asked.sect <= Len(table[d]), Left > 0,
         NEW c \in Seq(Int), Len(c) = SizeInSection, Deliver(c),
         UNCHANGED <<image, kind, key, phase>>, failed[d] => failed'[d],
         \A i \in 1..Len(c) :
           \/ c[i] = IF Section.method \in {"zero", "ignore"} THEN Zero ELSE Offs + i - 1
           \/ failed'[d] /\ c[i] = Garbage
  PROVE  /\ AskOf(d)' /\ asked' # Nothing /\ asked # Nothing
         /\ asked'.dev = asked.dev /\ asked'.offs = asked.offs /\ asked'.len = asked.len
         /\ answer' = Nothing
<1> DEFINE t == Sections(image[d])
<1>1. /\ asked.sect \in 1..Len(t) /\ Section = t[asked.sect] /\ Holds(t[asked.sect], Offs)
      /\ t[asked.sect].first \in Nat /\ t[asked.sect].count \in Nat
      /\ InSect \in Nat /\ Offs = t[asked.sect].first + InSect
      /\ SizeInSection \in Nat /\ SizeInSection > 0 /\ SizeInSection <= Left
      /\ InSect + SizeInSection <= t[asked.sect].count
      /\ Left > SizeInSection =>
           \/ asked.sect + 1 <= Len(t) /\ Holds(t[asked.sect + 1], Offs + SizeInSection)
           \/ asked.sect + 1 > Len(t) /\ Offs + SizeInSection >= image[d].size
  BY AtFacts
<1>2. DmgWhole(image[d]) /\ Offs \in Nat /\ asked.dev = d /\ phase[d] \in Running
  BY DmgFacts, AskFacts DEF AskOf
<1>3. \A i \in 1..Len(c) : Offs + i - 1 \in Nat /\ Holds(t[asked.sect], Offs + i - 1)
  <2> DEFINE x == t[asked.sect].first
             y == t[asked.sect].count
  <2>1. x \in Nat /\ y \in Nat /\ InSect \in Nat /\ Offs = x + InSect /\ InSect + Len(c) <= y
    BY <1>1
  <2>2. Offs \in Nat /\ Len(c) \in Nat
    BY <1>2
  <2> HIDE DEF x, y
  <2>3. \A i \in 1..Len(c) : Offs + i - 1 \in Nat /\ Offs + i - 1 \in x..(x + y - 1)
    BY SMTT(30), <2>1, <2>2
  <2> QED BY <2>3 DEF x, y, Holds, Sectors
<1>4. Plausible(Offs, c)
  BY <1>2 DEF Plausible, Zero, Garbage
<1>5. failed'[d] \/ Right(d, Offs, c)
  <2>1. SUFFICES ASSUME ~failed'[d], NEW i \in 1..Len(c), Offs + i - 1 \in DOMAIN Contents(d)
                 PROVE  c[i] = Contents(d)[Offs + i - 1]
    BY DEF Right
  <2>2. Contents(d)[Offs + i - 1] =
          IF Section.method \in {"zero", "ignore"} THEN Zero ELSE Offs + i - 1
    <3>1. /\ Offs + i - 1 \in Nat /\ Holds(t[asked.sect], Offs + i - 1)
          /\ asked.sect \in 1..Len(t) /\ Section = t[asked.sect] /\ DmgWhole(image[d])
      BY <1>1, <1>2, <1>3, <2>1
    <3> QED BY ONLY <2>1, <3>1, DmgContents, kind[d] = "dmg", DevTyped, d \in Devices DEF t
  <2> QED BY <2>1, <2>2
<1> HIDE DEF t
<1>6. Left > Len(c) =>
         \/ asked.sect + 1 <= Len(t) /\ Holds(t[asked.sect + 1], Offs + Len(c))
         \/ asked.sect + 1 > Len(t) /\ Offs + Len(c) >= image[d].size
  BY <1>1
<1>7. Len(c) <= Left /\ phase'[d] \in Running
  BY <1>1, <1>2
<1> QED BY <1>4, <1>5, <1>6, <1>7, DeliverKeeps DEF t

\* What serving a Read relies on.
ServeInv == DevTyped /\ (\A d \in Devices : DevInv(d)) /\ AskInv /\ ReadInv

LEMMA SameDevices ==
  ASSUME ServeInv, UNCHANGED <<opening, cache>>
  PROVE  DevTyped' /\ \A d \in Devices : DevInv(d)'
<1>1. UNCHANGED <<image, phase, kind, key, failed, table, next, node, cache>>
  BY DEF opening
<1>2. DevTyped'
  BY <1>1 DEF ServeInv, DevTyped
<1>3. \A d \in Devices : DevInv(d)'
  BY <1>1, DevFrame DEF ServeInv
<1> QED BY <1>2, <1>3

LEMMA SearchKeeps ==
  ASSUME ServeInv, NEW d \in Devices, AskOf(d), UNCHANGED main, SearchSection
  PROVE  ServeInv'
<1> DEFINE f == image[d]
           t == Sections(f)
           m == Middle
           T == [dev : Devices, offs : Nat, len : Nat \ {0}, data : Seq(Int), sect : Nat,
                 beg : Int, end : Int]
<1>1. /\ asked # Nothing /\ asked.dev = d /\ asked.offs \in Nat /\ asked.len \in Nat \ {0}
      /\ asked \in T /\ answer = Nothing /\ asked.beg \in Int /\ asked.end \in Int
  BY AskFacts DEF AskOf
<1>2. /\ kind[d] = "dmg" /\ asked.sect = 0 /\ asked.beg <= asked.end /\ answer' = Nothing
      /\ UNCHANGED <<opening, cache>> /\ UNCHANGED <<image, phase, kind, key, failed>>
  BY <1>1 DEF SearchSection, Searching, Reading, opening
<1>3. /\ DmgWhole(f) /\ table[d] = t /\ Len(t) \in Nat
      /\ asked.data = <<>> /\ asked.beg \in Nat \ {0} /\ asked.end \in 0..Len(t)
      /\ \A i \in 1..Len(t) : Holds(t[i], asked.offs) => asked.beg <= i /\ i <= asked.end
  BY <1>2, DmgFacts DEF ServeInv, SectInv
<1>4. Offs = asked.offs
  BY <1>1, <1>3 DEF Offs
<1>5. m \in 1..Len(t) /\ asked.beg <= m /\ m <= asked.end /\ m \in Nat \ {0}
  <2> DEFINE a == asked.beg
             b == asked.end
  <2>1. a \in Nat \ {0} /\ b \in Nat /\ a <= b /\ b <= Len(t) /\ Len(t) \in Nat
    BY <1>2, <1>3
  <2> HIDE DEF a, b, t
  <2>2. (a + b) \div 2 \in Nat /\ a <= (a + b) \div 2 /\ (a + b) \div 2 <= b
    BY <2>1
  <2>3. m = (a + b) \div 2
    BY DEF Middle, a, b
  <2> QED BY <2>1, <2>2, <2>3 DEF a, b
<1>6. t[m].first \in Nat /\ t[m].count \in Nat
  BY <1>3, <1>5, SectionFacts
<1>7. \A i \in 1..Len(t) : Holds(t[i], asked.offs) =>
        /\ asked.offs < t[m].first => i < m
        /\ asked.offs >= t[m].first + t[m].count => i > m
  <2>1. SUFFICES ASSUME NEW i \in 1..Len(t), Holds(t[i], asked.offs)
                 PROVE  /\ asked.offs < t[m].first => i < m
                        /\ asked.offs >= t[m].first + t[m].count => i > m
    OBVIOUS
  <2>2. t[i].first \in Nat /\ t[i].count \in Nat \ {0}
    BY <1>3, SectionFacts
  <2>3. t[i].first <= asked.offs /\ asked.offs < t[i].first + t[i].count
    BY SMTT(30), <1>1, <2>1, <2>2 DEF Holds, Sectors
  <2>4. /\ m < i => t[m].first + t[m].count <= t[i].first
        /\ i < m => t[i].first + t[i].count <= t[m].first
    <3>1. /\ m < i => i \in (m + 1)..Len(t)
          /\ i < m => m \in (i + 1)..Len(t)
      <4> HIDE DEF m, t
      <4> QED BY <1>3, <1>5, <2>1
    <3> QED BY <1>3, <1>5, <3>1 DEF DmgWhole
  <2>5. i = m \/ i < m \/ m < i
    <3> HIDE DEF m, t
    <3> QED BY <1>3, <1>5, <2>1
  <2> DEFINE o == asked.offs
             a == t[m].first
             b == t[m].count
  <2>6. a \in Nat /\ b \in Nat /\ o \in Nat
    BY <1>1, <1>6
  <2>7. /\ m < i => ~(o < a)
        /\ i < m => ~(o >= a + b)
        /\ i = m => ~(o < a) /\ ~(o >= a + b)
    <3> HIDE DEF o, a, b
    <3>1. m < i => a + b <= t[i].first
      BY <2>4 DEF a, b
    <3>2. i < m => t[i].first + t[i].count <= a
      BY <2>4 DEF a
    <3>3. i = m => a = t[i].first /\ b = t[i].count
      BY DEF a, b
    <3>4. t[i].first <= o /\ o < t[i].first + t[i].count
      BY <2>3 DEF o
    <3>5. m < i => ~(o < a)
      BY <2>2, <2>6, <3>1, <3>4
    <3>6. i < m => ~(o >= a + b)
      BY <2>2, <2>6, <3>2, <3>4
    <3>7. i = m => ~(o < a) /\ ~(o >= a + b)
      BY <3>3, <3>4, <2>6
    <3> QED BY <3>5, <3>6, <3>7
  <2> QED BY <2>5, <2>7
<1>8. \/ asked' = [asked EXCEPT !.sect = m] /\ Holds(t[m], asked.offs)
      \/ asked' = [asked EXCEPT !.end = m - 1] /\ asked.offs < t[m].first
      \/ asked' = [asked EXCEPT !.beg = m + 1] /\ asked.offs >= t[m].first + t[m].count
  BY <1>1, <1>3, <1>4 DEF SearchSection
<1> HIDE DEF m
<1>9. /\ asked' \in T /\ asked'.dev = d /\ asked'.offs = asked.offs /\ asked'.len = asked.len
      /\ asked'.data = <<>>
  BY <1>1, <1>3, <1>5, <1>8
<1>10. SectInv(t, f.size)'
  <2>1. Left' = asked.len /\ Offs' = asked.offs
    <3>1. Left' = asked'.len - Len(asked'.data) /\ Offs' = asked'.offs + Len(asked'.data)
      BY DEF Left, Offs
    <3> QED BY <1>1, <1>9, <3>1
  <2>2. t' = t /\ f' = f
    BY <1>2
  <2>3. CASE asked' = [asked EXCEPT !.sect = m] /\ Holds(t[m], asked.offs)
    <3>1. asked'.sect = m
      BY <1>1, <2>3
    <3>2. m # 0 /\ m <= Len(t)
      BY <1>3, <1>5
    <3> QED BY <2>1, <2>2, <2>3, <3>1, <3>2 DEF SectInv
  <2>4. CASE asked' = [asked EXCEPT !.end = m - 1] /\ asked.offs < t[m].first
    <3>1. asked'.sect = 0 /\ asked'.beg = asked.beg /\ asked'.end = m - 1
      BY <1>1, <1>2, <2>4
    <3>2. m - 1 \in 0..Len(t)
      <4> HIDE DEF t
      <4> QED BY <1>3, <1>5
    <3>3. \A i \in 1..Len(t) : Holds(t[i], asked.offs) => i <= m - 1
      <4>1. \A i \in 1..Len(t) : Holds(t[i], asked.offs) => i < m
        BY <1>7, <2>4
      <4> HIDE DEF t
      <4> QED BY <1>5, <4>1
    <3>a. /\ asked'.beg \in Nat \ {0} /\ asked'.end \in 0..Len(t)
          /\ \A i \in 1..Len(t) : Holds(t[i], asked'.offs) => asked'.beg <= i /\ i <= asked'.end
      BY <1>3, <1>9, <3>1, <3>2, <3>3
    <3> QED BY <1>9, <2>2, <3>1, <3>a DEF SectInv
  <2>5. CASE asked' = [asked EXCEPT !.beg = m + 1] /\ asked.offs >= t[m].first + t[m].count
    <3>1. asked'.sect = 0 /\ asked'.beg = m + 1 /\ asked'.end = asked.end
      BY <1>1, <1>2, <2>5
    <3>2. \A i \in 1..Len(t) : Holds(t[i], asked.offs) => m + 1 <= i
      <4>1. \A i \in 1..Len(t) : Holds(t[i], asked.offs) => i > m
        BY <1>7, <2>5
      <4> HIDE DEF t
      <4> QED BY <1>5, <4>1
    <3>3. m + 1 \in Nat \ {0}
      BY <1>5
    <3>a. /\ asked'.beg \in Nat \ {0} /\ asked'.end \in 0..Len(t)
          /\ \A i \in 1..Len(t) : Holds(t[i], asked'.offs) => asked'.beg <= i /\ i <= asked'.end
      BY <1>3, <1>9, <3>1, <3>2, <3>3
    <3> QED BY <1>9, <2>2, <3>1, <3>a DEF SectInv
  <2> QED BY <1>8, <2>3, <2>4, <2>5
<1>11. AskOf(d)'
  <2>1. Plausible(asked'.offs, asked'.data) /\ Right(d, asked.offs, asked.data)'
    BY <1>9 DEF Plausible, Right
  <2>2. Len(asked'.data) <= asked'.len
    BY <1>1, <1>9
  <2>3. kind[d] # "none" /\ phase[d] \in Running
    BY DEF AskOf
  <2> QED BY <1>2, <1>9, <1>10, <2>1, <2>2, <2>3 DEF AskOf
<1> QED BY <1>1, <1>2, <1>9, <1>11, SameDevices, GoesOn DEF ServeInv

LEMMA DmgEndKeeps ==
  ASSUME ServeInv, NEW d \in Devices, AskOf(d), UNCHANGED main,
         NoSection \/ NoMoreSections \/ SectionUnknown
  PROVE  ServeInv'
<1> DEFINE f == image[d]
           t == Sections(f)
           c == asked.data
           end == asked.offs + asked.len
<1>1. /\ asked # Nothing /\ asked.dev = d /\ asked.offs \in Nat /\ asked.len \in Nat \ {0}
      /\ c \in Seq(Int) /\ Len(c) \in Nat /\ Offs = asked.offs + Len(c) /\ Left = asked.len - Len(c)
      /\ Offs \in Nat
  BY AskFacts
<1>2. /\ kind[d] = "dmg" /\ UNCHANGED <<opening, cache>>
      /\ UNCHANGED <<image, phase, kind, key, failed>>
      /\ DevInv(d) /\ DevTyped
  BY <1>1 DEF NoSection, NoMoreSections, SectionUnknown, Searching, InSection, AtSection, Reading,
              opening, ServeInv
<1>3. /\ DmgWhole(f) /\ table[d] = t /\ Len(t) \in Nat /\ DOMAIN t = 1..Len(t) /\ f.size \in Nat
      /\ SectInv(t, f.size) /\ f.form = "udif" /\ ~Odd(d)
  BY <1>2, DmgFacts
<1>4. Return(FALSE, c) /\ Len(c) < asked.len
  <2>1. CASE NoSection
    <3>1. c = <<>>
      BY <1>3, <2>1 DEF NoSection, Searching, SectInv
    <3>2. Return(FALSE, c)
      BY <2>1, <3>1 DEF NoSection, Return
    <3>3. Len(c) = 0
      BY <3>1
    <3> HIDE DEF c
    <3>4. Len(c) < asked.len
      BY <1>1, <3>3
    <3> QED BY <3>2, <3>4
  <2>2. CASE NoMoreSections \/ SectionUnknown
    <3>1. Left > 0 /\ Return(FALSE, c)
      BY <2>2 DEF NoMoreSections, SectionUnknown, AtSection, InSection
    <3> HIDE DEF c
    <3>2. Len(c) < asked.len
      BY <1>1, <3>1
    <3> QED BY <3>1, <3>2
  <2> QED BY <2>1, <2>2
<1>5. ASSUME end <= f.size PROVE ~Kept(f, Offs)
  <2>1. SUFFICES ASSUME NEW i \in 1..Len(t), t[i].method \in {"raw"} \cup Packings, Holds(t[i], Offs)
                 PROVE  FALSE
    BY <1>3 DEF Kept
  <2>2. CASE NoSection
    <3>1. asked.sect = 0 /\ asked.beg > asked.end
      BY <2>2 DEF NoSection, Searching
    <3>2. /\ c = <<>> /\ asked.beg \in Nat /\ asked.end \in 0..Len(t)
          /\ Holds(t[i], asked.offs) => asked.beg <= i /\ i <= asked.end
      BY <1>3, <3>1, <2>1 DEF SectInv
    <3>3. Offs = asked.offs
      BY <1>1, <3>2
    <3> HIDE DEF t
    <3> QED BY <1>3, <2>1, <3>1, <3>2, <3>3
  <2>3. CASE NoMoreSections
    <3>1. asked.sect # 0 /\ Left > 0 /\ asked.sect > Len(t) /\ asked.sect \in Nat
      BY <1>1, <1>3, <2>3, AskFacts DEF NoMoreSections, InSection
    <3>2. Offs >= f.size
      BY <1>3, <3>1 DEF SectInv
    <3> HIDE DEF f, c
    <3> QED BY <1>1, <1>3, <1>4, <1>5, <3>2
  <2>4. CASE SectionUnknown
    <3>1. /\ asked.sect # 0 /\ Left > 0 /\ asked.sect <= Len(table[d])
          /\ t[asked.sect].method = "unknown"
      BY <1>1, <1>3, <2>4 DEF SectionUnknown, AtSection, InSection
    <3>2. asked.sect \in 1..Len(t) /\ Holds(t[asked.sect], Offs)
      BY <1>2, <3>1, AtFacts
    <3>3. i = asked.sect
      BY <1>1, <1>3, <2>1, <3>2, OneHolder
    <3> QED BY <2>1, <3>1, <3>3 DEF Packings
  <2> QED BY <2>2, <2>3, <2>4
<1>6. Plausible(asked.offs, c)
  BY <1>3 DEF AskOf
<1>7. Odd(d) \/ (kind[d] # "linux" /\ failed'[d]) \/ Right(d, asked.offs, c)
  BY <1>2 DEF AskOf, Broken
<1> HIDE DEF c
<1>8. AskInv' /\ ReadInv'
  BY <1>1, <1>2, <1>4, <1>5, <1>6, <1>7, ReturnKeeps DEF ServeInv
<1> QED BY <1>2, <1>8, SameDevices DEF ServeInv

LEMMA DoneKeeps ==
  ASSUME ServeInv, NEW d \in Devices, AskOf(d), UNCHANGED main, ReadDone
  PROVE  ServeInv'
<1>1. /\ asked # Nothing /\ asked.dev = d /\ asked.data \in Seq(Int)
      /\ Left = asked.len - Len(asked.data) /\ Len(asked.data) \in Nat /\ asked.len \in Nat
      /\ kind[d] \in {"sparse", "dmg"}
  BY AskFacts DEF ReadDone, Reading
<1>2. /\ UNCHANGED <<opening, cache>> /\ UNCHANGED <<image, kind, key, failed>>
      /\ Return(TRUE, asked.data) /\ Left = 0
  BY DEF ReadDone, opening
<1>3. Len(asked.data) = asked.len
  BY <1>1, <1>2
<1>4. Odd(d) \/ Plausible(asked.offs, asked.data)
  BY DEF AskOf
<1>5. Odd(d) \/ (kind[d] # "linux" /\ failed'[d]) \/ Right(d, asked.offs, asked.data)
  BY <1>2 DEF AskOf, Broken
<1>6. AskInv' /\ ReadInv'
  BY <1>1, <1>2, <1>3, <1>4, <1>5, ReturnKeeps DEF ServeInv
<1> QED BY <1>2, <1>6, SameDevices DEF ServeInv

(* A piece of a section is delivered from the file, or from nothing.        *)
LEMMA SectionKeeps ==
  ASSUME ServeInv, NEW d \in Devices, AskOf(d), UNCHANGED main, SectionRaw \/ SectionZero
  PROVE  ServeInv'
<1> DEFINE f == image[d]
           t == Sections(f)
           s == t[asked.sect]
           n == SizeInSection
<1>1. /\ asked # Nothing /\ asked.dev = d /\ Offs \in Nat /\ Left \in Nat
      /\ kind[d] = "dmg" /\ asked.sect # 0 /\ asked.sect <= Len(table[d]) /\ Left > 0
      /\ DevInv(d) /\ DevTyped /\ UNCHANGED <<image, phase, kind, key, table, next, node, cache>>
      /\ f.form # "absent"
  BY AskFacts DEF SectionRaw, SectionZero, AtSection, InSection, Reading, ServeInv,
                  UnchangedButStream, opening, AskOf, DevInv, PhaseInv
<1>2. /\ asked.sect \in 1..Len(t) /\ Section = s /\ s.first \in Nat /\ s.at \in Nat
      /\ s.count \in Nat \ {0} /\ InSect \in Nat /\ Offs = s.first + InSect
      /\ n \in Nat /\ n > 0 /\ n <= Left /\ InSect + n <= s.count
      /\ s.method = "raw" => s.len = s.count
  BY <1>1, AtFacts
<1>3. FileTyped(f) /\ DmgWhole(f) /\ f.form = "udif" /\ Clear(d) /\ (Sound(d) => ~failed[d])
  BY <1>1, DmgFacts
<1>4. CASE SectionRaw
  <2> DEFINE off == s.at + InSect
             c == ImageRead(d, off, n)
  <2>1. s.method = "raw" /\ Deliver(c) /\ Stream(d, off, n)
    <3>1. /\ Section.method = "raw"
          /\ Deliver(ImageRead(asked.dev, Section.at + InSect, SizeInSection))
          /\ Stream(asked.dev, Section.at + InSect, SizeInSection)
      BY <1>4 DEF SectionRaw, AtSection, Section
    <3>2. /\ ImageRead(asked.dev, Section.at + InSect, SizeInSection) = c
          /\ FailsAfter(asked.dev, Section.at + InSect, SizeInSection) = FailsAfter(d, off, n)
      BY <1>1, <1>2
    <3> HIDE DEF c, off, n, s
    <3> QED BY <1>1, <1>2, <3>1, <3>2 DEF Deliver, Stream
  <2>2. off \in Nat
    <3> HIDE DEF s
    <3> QED BY <1>2
  <2>3. ASSUME NEW i \in 1..n
        PROVE  off + i - 1 \in Nat /\ off + i - 1 < f.units /\ Body(f, off + i - 1) = Offs + i - 1
    <3> DEFINE k == InSect + i - 1
    <3>1. k \in 0..(s.len - 1)
      <4> DEFINE y == s.count
      <4>1. y \in Nat /\ InSect \in Nat /\ n \in Nat /\ InSect + n <= y /\ s.len = y
        BY <1>2, <2>1
      <4> HIDE DEF y, s, n
      <4> QED BY <4>1
    <3>2. s.at + k \in Nat /\ s.at + k < f.units /\ Body(f, s.at + k) = s.first + k
      <4> HIDE DEF k
      <4> QED BY <1>2, <1>3, <2>1, <3>1, SectionBody
    <3>3. s.at + k = off + i - 1 /\ s.first + k = Offs + i - 1
      <4> DEFINE x == s.first
                 y == s.at
      <4>1. x \in Nat /\ y \in Nat /\ InSect \in Nat /\ n \in Nat /\ Offs = x + InSect
        BY <1>2
      <4> HIDE DEF x, y, n
      <4> QED BY <4>1 DEF x, y
    <3> HIDE DEF k
    <3> QED BY <3>2, <3>3
  <2>4. /\ c \in Seq(Int) /\ Len(c) = n
        /\ \A i \in 1..n : \/ c[i] = Seen(d, off + i - 1)
                           \/ (FailsAfter(d, off, n) /\ c[i] = Garbage)
        /\ failed[d] => FailsAfter(d, off, n)
    <3>1. n \in Nat /\ off \in Nat /\ DevTyped /\ image[d].form # "absent"
      BY <1>1, <1>2, <2>2
    <3> HIDE DEF off, n, f
    <3> QED BY <3>1, ReadFacts
  <2>5. failed'[d] = FailsAfter(d, off, n)
    BY <1>1, <2>1 DEF Stream, DevTyped
  <2>6. Sound(d) => ~failed'[d]
    <3>1. n \in 1..n
      <4> HIDE DEF n
      <4> QED BY <1>2
    <3>2. off + n - 1 \in Nat /\ off + n - 1 < f.units
      BY <2>3, <3>1
    <3> HIDE DEF off, n
    <3> QED BY <1>1, <1>3, <2>2, <2>5, <3>2, ArrivesUndamaged DEF FailsAfter, Sound, DevInv
  <2> HIDE DEF off
  <2>7. \A i \in 1..Len(c) : c[i] = Offs + i - 1 \/ (failed'[d] /\ c[i] = Garbage)
    BY <1>3, <2>3, <2>4, <2>5 DEF Seen
  <2> HIDE DEF c
  <2>8. /\ AskOf(d)' /\ asked' # Nothing
        /\ asked'.dev = asked.dev /\ asked'.offs = asked.offs /\ asked'.len = asked.len
        /\ answer' = Nothing
    BY <1>1, <1>2, <2>1, <2>4, <2>5, <2>7, DmgPiece
  <2>9. DevTyped' /\ \A e \in Devices : DevInv(e)'
    <3>1. \E o, k \in Nat : Stream(d, o, k)
      BY <1>2, <2>1, <2>2
    <3> QED BY <1>1, <2>4, <2>5, <2>6, <3>1, StreamFrame DEF ServeInv, DevTyped
  <2> QED BY <1>1, <2>8, <2>9, GoesOn DEF ServeInv
<1>5. CASE SectionZero
  <2> DEFINE c == [i \in 1..n |-> Zero]
  <2>1. /\ s.method \in {"zero", "ignore"} /\ Deliver(c) /\ UNCHANGED <<opening, cache>>
        /\ failed' = failed
    <3>1. Section.method \in {"zero", "ignore"} /\ Deliver(c) /\ UNCHANGED <<opening, cache>>
      BY <1>5 DEF SectionZero, AtSection, Section
    <3> QED BY <1>2, <3>1 DEF opening
  <2>2. c \in Seq(Int) /\ Len(c) = n /\ \A i \in 1..Len(c) : c[i] = Zero
    <3> HIDE DEF n
    <3> QED BY <1>2 DEF Zero
  <2> HIDE DEF c
  <2>3. /\ AskOf(d)' /\ asked' # Nothing
        /\ asked'.dev = asked.dev /\ asked'.offs = asked.offs /\ asked'.len = asked.len
        /\ answer' = Nothing
    BY <1>1, <1>2, <2>1, <2>2, DmgPiece
  <2> QED BY <1>1, <2>1, <2>3, SameDevices, GoesOn DEF ServeInv
<1> QED BY <1>4, <1>5

(* What is decompressed is right, or the stream fails.                      *)
LEMMA Unpacked ==
  ASSUME DevTyped, NEW d \in Devices, image[d].form = "udif", Clear(d),
         FileTyped(image[d]), DmgWhole(image[d]), NEW j \in 1..Len(Sections(image[d])),
         Sections(image[d])[j].method \in Packings
  PROVE  LET s == Sections(image[d])[j]
             c == Decompressed(d, s)
         IN /\ c \in [1..s.count -> Int]
            /\ \A i \in 1..s.count :
                 c[i] = s.first + i - 1 \/ (FailsAfter(d, s.at, s.len) /\ c[i] = Garbage)
<1> DEFINE s == Sections(image[d])[j]
           x == ImageRead(d, s.at, s.len)
           y == [i \in 1..s.len |-> Packed(s, i - 1)]
<1>1. s.first \in Nat /\ s.count \in Nat \ {0} /\ s.at \in Nat /\ s.len \in Nat
  BY SectionFacts
<1>2. /\ x \in Seq(Int) /\ Len(x) = s.len
      /\ \A i \in 1..s.len :
           x[i] = Seen(d, s.at + i - 1) \/ (FailsAfter(d, s.at, s.len) /\ x[i] = Garbage)
  <2>1. image[d].form # "absent"
    OBVIOUS
  <2> DEFINE a == s.at
             b == s.len
  <2>2. a \in Nat /\ b \in Nat
    BY <1>1
  <2> HIDE DEF a, b
  <2> QED BY <2>1, <2>2, ReadFacts DEF a, b
<1>3. ASSUME NEW i \in 1..s.len PROVE Seen(d, s.at + i - 1) = Packed(s, i - 1)
  <2>1. i - 1 \in 0..(s.len - 1) /\ s.at + (i - 1) = s.at + i - 1
    BY <1>1
  <2>2. Body(image[d], s.at + (i - 1)) = IF s.method = "raw" THEN s.first + (i - 1) ELSE Packed(s, i - 1)
    BY <2>1, SectionBody
  <2> QED BY <2>1, <2>2 DEF Seen, Packings
<1> HIDE DEF s, x
<1>4. x = y \/ FailsAfter(d, s.at, s.len)
  <2>1. ASSUME ~FailsAfter(d, s.at, s.len) PROVE x = y
    <3>1. \A i \in 1..s.len : x[i] = Packed(s, i - 1)
      BY <1>2, <1>3, <2>1
    <3>2. x = [i \in 1..s.len |-> x[i]]
      BY <1>2
    <3> QED BY <3>1, <3>2
  <2> QED BY <2>1
<1>5. Decompressed(d, s) = [i \in 1..s.count |-> IF x = y THEN s.first + i - 1 ELSE Garbage]
  BY DEF Decompressed, Arrived, x
<1> HIDE DEF y
<1> QED BY <1>1, <1>4, <1>5 DEF s, Garbage

\* The device may stop.
LEMMA StopFacts ==
  ASSUME DevTyped, NEW d \in Devices, NEW s, NEW p \in AfterUnpacking(d, s), Goto(d, p)
  PROVE  /\ phase' \in [Devices -> Phases] /\ \A e \in Devices \ {d} : phase'[e] = phase[e]
         /\ phase'[d] \in Running
BY DEF DevTyped, AfterUnpacking, Goto, Phases, Running

LEMMA FillKeeps ==
  ASSUME ServeInv, NEW d \in Devices, AskOf(d), UNCHANGED main, FillCache
  PROVE  ServeInv'
<1> DEFINE f == image[d]
           t == Sections(f)
           s == t[asked.sect]
           c == Decompressed(d, s)
           fails == FailsAfter(d, s.at, s.len)
<1>1. /\ asked # Nothing /\ asked.dev = d
      /\ kind[d] = "dmg" /\ asked.sect # 0 /\ asked.sect <= Len(table[d]) /\ Left > 0
      /\ DevInv(d) /\ DevTyped /\ UNCHANGED <<image, kind, key, table, next, node, asked, answer>>
      /\ Section.method \in Packings /\ \E p \in AfterUnpacking(d, Section) : Goto(d, p)
  BY AskFacts DEF FillCache, AtSection, InSection, Reading, ServeInv, Section
<1>a. /\ phase' \in [Devices -> Phases] /\ \A e \in Devices \ {d} : phase'[e] = phase[e]
      /\ phase'[d] \in Running
  BY <1>1, StopFacts
<1>2. /\ asked.sect \in 1..Len(t) /\ Section = s /\ s.first \in Nat /\ s.at \in Nat
      /\ s.len \in Nat /\ s.len > 0 /\ s.count \in Nat \ {0} /\ s.method \in Packings
  BY <1>1, AtFacts
<1>3. /\ FileTyped(f) /\ DmgWhole(f) /\ f.form = "udif" /\ Clear(d) /\ (Sound(d) => ~failed[d])
      /\ ~Odd(d)
  BY <1>1, DmgFacts
<1>4. /\ cache' = [cache EXCEPT ![d] = [first |-> s.first, count |-> s.count, data |-> c]]
      /\ failed' = [failed EXCEPT ![d] = fails]
  <2>1. /\ cache' = [cache EXCEPT ![asked.dev] = [first |-> Section.first, count |-> Section.count,
                                                  data |-> Decompressed(asked.dev, Section)]]
        /\ Stream(asked.dev, Section.at, Section.len)
    BY DEF FillCache
  <2> HIDE DEF s
  <2> QED BY <1>1, <1>2, <2>1 DEF Stream
<1>5. failed'[d] = fails /\ cache'[d] = [first |-> s.first, count |-> s.count, data |-> c]
  BY <1>1, <1>4 DEF DevTyped
<1>6. /\ c \in [1..s.count -> Int]
      /\ \A i \in 1..s.count : c[i] = s.first + i - 1 \/ (fails /\ c[i] = Garbage)
  BY <1>1, <1>2, <1>3, Unpacked
<1>7. failed[d] => fails
  BY DEF FailsAfter, Arrives
<1>8. Sound(d) => ~fails
  <2>1. SUFFICES ASSUME Sound(d) PROVE Arrives(d, s.at, s.at + s.len - 1)
    BY DEF FailsAfter
  <2>2. s.len - 1 \in 0..(s.len - 1)
    <3> HIDE DEF s
    <3> QED BY <1>2
  <2>3. s.at + (s.len - 1) \in Nat /\ s.at + (s.len - 1) < f.units
    BY <1>2, <1>3, <2>2, SectionBody
  <2>4. s.at + (s.len - 1) = s.at + s.len - 1
    <3> DEFINE a == s.at
               b == s.len
    <3>1. a \in Nat /\ b \in Nat
      BY <1>2
    <3> HIDE DEF a, b
    <3> QED BY <3>1 DEF a, b
  <2>5. KeyInv(d) /\ image[d].bad = {} /\ ~failed[d]
    BY <1>1, <1>3, <2>1 DEF DevInv, Sound
  <2> HIDE DEF s
  <2> QED BY <1>1, <1>2, <2>3, <2>4, <2>5, ArrivesUndamaged
<1>9. CacheInv(d)'
  <2> HIDE DEF c, fails, s
  <2> QED BY <1>1, <1>2, <1>5, <1>6 DEF CacheInv
<1>10. DevTyped' /\ \A e \in Devices : DevInv(e)'
  <2>1. DOMAIN cache' = Devices /\ \A e \in Devices \ {d} : cache'[e] = cache[e]
    BY <1>1, <1>4 DEF DevTyped
  <2>2. \E o, k \in Nat : Stream(d, o, k)
    BY <1>2, <1>4 DEF Stream
  <2> HIDE DEF fails, c
  <2> QED BY <1>1, <1>5, <1>7, <1>8, <1>9, <1>a, <2>1, <2>2, StreamStopFrame DEF ServeInv
<1>11. AskOf(d)'
  <2>1. Contents(d)' = Contents(d) /\ Odd(d)' = Odd(d)
    BY <1>1, SameDisk
  <2>2. Broken(d) => Broken(d)'
    BY <1>1, <1>5, <1>7, <2>1 DEF Broken
  <2>3. Right(d, asked.offs, asked.data)' = Right(d, asked.offs, asked.data)
    BY <1>1, <2>1 DEF Right
  <2>4. SectInv(Sections(image[d]), image[d].size)' = SectInv(Sections(image[d]), image[d].size)
    BY <1>1 DEF SectInv, Left, Offs
  <2> QED BY <1>1, <1>a, <2>1, <2>2, <2>3, <2>4 DEF AskOf
<1> QED BY <1>1, <1>10, <1>11, GoesOn DEF ServeInv, AskOf

LEMMA CachedKeeps ==
  ASSUME ServeInv, NEW d \in Devices, AskOf(d), UNCHANGED main, SectionCached
  PROVE  ServeInv'
<1> DEFINE f == image[d]
           s == Sections(f)[asked.sect]
           n == SizeInSection
           x == cache[d].data
           c == SubSeq(x, InSect + 1, InSect + n)
<1>1. /\ asked # Nothing /\ asked.dev = d
      /\ kind[d] = "dmg" /\ asked.sect # 0 /\ asked.sect <= Len(table[d]) /\ Left > 0
      /\ DevInv(d) /\ DevTyped /\ UNCHANGED <<opening, cache>>
      /\ UNCHANGED <<image, phase, kind, key, failed>> /\ Section.method \in Packings
      /\ Cached(d, Section) /\ Deliver(c)
  BY AskFacts DEF SectionCached, AtSection, InSection, Reading, ServeInv, opening, Section, Deliver,
                  Cached
<1>2. /\ asked.sect \in 1..Len(Sections(f)) /\ Section = s /\ s.first \in Nat
      /\ s.count \in Nat \ {0} /\ InSect \in Nat /\ Offs = s.first + InSect
      /\ n \in Nat /\ n > 0 /\ InSect + n <= s.count
  BY <1>1, AtFacts
<1>3. cache[d].count = s.count /\ cache[d].first = s.first
  BY <1>1, <1>2 DEF Cached
<1>4. /\ x \in [1..s.count -> Int]
      /\ \A i \in 1..s.count : x[i] = s.first + i - 1 \/ (failed[d] /\ x[i] = Garbage)
  <2>1. cache[d] # NoCache
    BY <1>2, <1>3 DEF NoCache
  <2> QED BY <1>1, <1>3, <2>1 DEF DevInv, CacheInv
<1> DEFINE a == s.first
           b == s.count
<1> HIDE DEF s, x, n
<1>5. /\ c \in Seq(Int) /\ Len(c) = n
      /\ \A i \in 1..Len(c) : c[i] = Offs + i - 1 \/ (failed[d] /\ c[i] = Garbage)
  <2>1. x \in [1..b -> Int] /\ a \in Nat /\ b \in Nat /\ InSect + n <= b /\ Offs = a + InSect
    BY <1>2, <1>4
  <2>2. \A i \in 1..b : x[i] = a + i - 1 \/ (failed[d] /\ x[i] = Garbage)
    BY <1>4
  <2> HIDE DEF a, b
  <2>3. x \in Seq(Int) /\ Len(x) = b
    BY <2>1
  <2>4. c \in Seq(Int) /\ Len(c) = n /\ \A i \in 1..n : c[i] = x[InSect + i] /\ InSect + i \in 1..b
    BY <1>2, <2>1, <2>3
  <2> HIDE DEF c
  <2>5. \A i \in 1..n : a + (InSect + i) - 1 = Offs + i - 1
    BY <1>2, <2>1
  <2> QED BY <2>2, <2>4, <2>5
<1> HIDE DEF c
<1>6. /\ AskOf(d)' /\ asked' # Nothing
      /\ asked'.dev = asked.dev /\ asked'.offs = asked.offs /\ asked'.len = asked.len
      /\ answer' = Nothing
  <2>1. Len(c) = SizeInSection
    BY <1>5 DEF n
  <2>2. Section.method \notin {"zero", "ignore"}
    BY <1>1 DEF Packings
  <2> QED BY <1>1, <1>5, <2>1, <2>2, DmgPiece
<1> QED BY <1>1, <1>6, SameDevices, GoesOn DEF ServeInv

-----------------------------------------------------------------------------
(* Reading a sparse image.                                                  *)

LEMMA CrashFrame ==
  ASSUME ServeInv, NEW d \in Devices, kind[d] # "none",
         phase' = [phase EXCEPT ![d] = "crashed"],
         UNCHANGED <<image, kind, key, failed, table, next, node, cache>>
  PROVE  DevTyped' /\ \A e \in Devices : DevInv(e)'
<1>1. DevTyped' /\ DevTyped /\ \A e \in Devices : DevInv(e)
  BY DEF ServeInv, DevTyped, Phases
<1>2. phase'[d] = "crashed" /\ \A e \in Devices \ {d} : phase'[e] = phase[e]
  BY <1>1 DEF DevTyped
<1>3. \A e \in Devices \ {d} : DevInv(e)'
  BY <1>1, <1>2, DevFrame
<1>4. Clear(d)' = Clear(d) /\ IsDmg(d)' = IsDmg(d) /\ Sound(d)' = Sound(d)
  BY SameDisk
<1>5. PhaseInv(d)'
  BY <1>1, <1>2 DEF DevInv, PhaseInv, Running
<1>6. KeyInv(d)'
  BY <1>1, <1>2, <1>4 DEF DevInv, KeyInv
<1>7. TableInv(d)'
  BY <1>1, <1>2, <1>4 DEF DevInv, TableInv
<1>8. CacheInv(d)' /\ StreamInv(d)'
  BY <1>1, <1>4 DEF DevInv, CacheInv, StreamInv
<1> QED BY <1>1, <1>3, <1>5, <1>6, <1>7, <1>8 DEF DevInv

(* When the image is open, its table has all bands.                         *)
LEMMA SparseFacts ==
  ASSUME DevTyped, NEW d \in Devices, DevInv(d), kind[d] = "sparse"
  PROVE  LET f == image[d] IN
         /\ f.form = "sparse" /\ FileTyped(f) /\ SparseWhole(f) /\ Clear(d) /\ f.size \in Nat
         /\ f.band \in Nat \ {0} /\ table[d] \in [Bands(f) -> Nat] /\ (Sound(d) => ~failed[d])
         /\ ~failed[d] =>
              \A b \in Bands(f) :
                IF table[d][b] = 0
                  THEN \A p \in Used(f) : SlotOf(f, p) # b + 1
                  ELSE \E p \in Used(f) : SlotOf(f, p) = b + 1 /\ table[d][b] = PlaceOf(f, p)
<1> DEFINE f == image[d]
           t == table[d]
           nodes == DOMAIN f.table
<1>1. /\ f.form = "sparse" /\ Clear(d) /\ t \in [Bands(f) -> Nat] /\ next[d] = 0
      /\ ~failed[d] => Indexed(f, t, 0)
  BY DEF DevInv, TableInv
<1>2. FileTyped(f) /\ SparseWhole(f) /\ f.band \in Nat \ {0} /\ f.size \in Nat
  BY <1>1, Files DEF WholeFile, SparseWhole, FileTyped
<1>3. Sound(d) => ~failed[d]
  BY DEF DevInv, StreamInv
<1>4. ASSUME ~failed[d], NEW b \in Bands(f)
      PROVE  IF t[b] = 0
               THEN \A p \in Used(f) : SlotOf(f, p) # b + 1
               ELSE \E p \in Used(f) : SlotOf(f, p) = b + 1 /\ t[b] = PlaceOf(f, p)
  <2>1. PICK V \in SUBSET nodes :
          0 \in V /\ (\A m \in V : f.table[m].next \in V \cup {0}) /\ Placed(f, t, V)
    BY <1>1, <1>4 DEF Indexed
  <2>2. \A m \in V : f.table[m].next \in V
    BY <2>1
  <2>3. V = nodes
    <3>1. \A s \in SUBSET nodes : 0 \in s /\ (\A n \in s : f.table[n].next \in s) => s = nodes
      BY <1>2 DEF SparseWhole
    <3> HIDE DEF nodes
    <3> QED BY <2>1, <2>2, <3>1
  <2>4. ASSUME NEW p \in Used(f) PROVE p[1] \in V /\ PlaceOf(f, p) # 0
    <3>1. p[1] \in nodes /\ PlaceOf(f, p) \in Nat
      BY <1>2, BandFacts
    <3>2. PlaceOf(f, p) \in Sectors(PlaceOf(f, p), f.band)
      BY <1>2, <3>1 DEF Sectors
    <3>3. PlaceOf(f, p) \notin nodes /\ 0 \in nodes
      BY <1>2, <3>2 DEF SparseWhole
    <3> QED BY <2>3, <3>1, <3>3
  <2>5. \/ \E p \in Used(f) : SlotOf(f, p) = b + 1 /\ t[b] = PlaceOf(f, p)
        \/ t[b] = 0 /\ \A p \in Used(f) : p[1] \in V => SlotOf(f, p) # b + 1
    BY <2>1 DEF Placed
  <2> HIDE DEF f, t
  <2> QED BY <2>4, <2>5
<1> QED BY <1>1, <1>2, <1>3, <1>4

(* What is read of a band.                                                  *)
LEMMA InBandFacts ==
  ASSUME DevTyped, NEW d \in Devices, DevInv(d), AskOf(d), kind[d] = "sparse", Left > 0
  PROVE  LET B == image[d].band
             n == SizeInBand
             q == Offs \div B
         IN /\ InBand \in 0..(B - 1) /\ n \in Nat /\ n > 0 /\ n <= Left /\ InBand + n <= B
            /\ q \in Nat /\ Offs \in Nat /\ Offs = B * q + InBand
            /\ \A i \in 1..n : /\ InBand + i - 1 \in 0..(B - 1)
                               /\ Offs + i - 1 = B * q + (InBand + i - 1) /\ Offs + i - 1 \in Nat
                               /\ (Offs + i - 1) \div B = q
<1> DEFINE B == image[d].band
           n == SizeInBand
           q == Offs \div B
           m == B * q
<1>1. B \in Nat \ {0} /\ Offs \in Nat /\ Left \in Nat /\ asked.dev = d
  BY SparseFacts, AskFacts
<1>2. InBand = Offs % B /\ n = IF InBand + Left > B THEN B - InBand ELSE Left
  BY <1>1 DEF InBand, SizeInBand
<1> HIDE DEF B
<1>3. q \in Nat /\ m \in Nat /\ InBand \in 0..(B - 1) /\ Offs = m + InBand
  <2>1. /\ Offs \div B \in Nat /\ Offs % B \in 0..(B - 1) /\ B * (Offs \div B) \in Nat
        /\ Offs = B * (Offs \div B) + (Offs % B)
    BY <1>1, Euclid
  <2> QED BY <1>2, <2>1
<1> HIDE DEF q, m, n
<1>4. n \in Nat /\ n > 0 /\ n <= Left /\ InBand + n <= B
  BY <1>1, <1>2, <1>3
<1>5. ASSUME NEW i \in 1..n
      PROVE  /\ InBand + i - 1 \in 0..(B - 1) /\ Offs + i - 1 = m + (InBand + i - 1)
             /\ Offs + i - 1 \in Nat
  BY <1>1, <1>3, <1>4
<1>6. ASSUME NEW i \in 1..n PROVE (Offs + i - 1) \div B = q
  <2> DEFINE u == Offs + i - 1
             k == InBand + i - 1
  <2>1. u \in Nat /\ k \in 0..(B - 1) /\ u = B * q + k /\ q \in Int
    BY <1>3, <1>5 DEF m
  <2> HIDE DEF u, k
  <2>2. u \div B = q
    BY <1>1, <2>1, Quotient
  <2> QED BY <2>2 DEF u
<1> QED BY <1>1, <1>3, <1>4, <1>5, <1>6 DEF B, q, m, n

(* A sector of a band.                                                      *)
LEMMA BandSector ==
  ASSUME DevTyped, NEW d \in Devices, DevInv(d), AskOf(d), kind[d] = "sparse", Left > 0,
         NEW p \in Used(image[d]), SlotOf(image[d], p) = Offs \div image[d].band + 1,
         NEW i \in 1..SizeInBand
  PROVE  LET u == PlaceOf(image[d], p) + InBand + i - 1 IN
         /\ u \in Nat /\ u < image[d].units /\ Seen(d, u) = Offs + i - 1
<1> DEFINE f == image[d]
           B == f.band
           q == Offs \div B
           k == InBand + i - 1
           a == PlaceOf(f, p)
<1>1. /\ q \in Nat /\ k \in 0..(B - 1) /\ Offs + i - 1 = B * q + k /\ InBand \in Nat
      /\ i \in Nat
  <2>1. /\ SizeInBand \in Nat /\ InBand \in 0..(B - 1) /\ q \in Nat
        /\ k \in 0..(B - 1) /\ Offs + i - 1 = B * q + k
    BY InBandFacts
  <2> HIDE DEF B, q, k
  <2> QED BY <2>1
<1>2. f.form = "sparse" /\ FileTyped(f) /\ SparseWhole(f) /\ Clear(d)
  BY SparseFacts
<1>3. SlotOf(f, p) \in Nat /\ a \in Nat
  BY <1>2, BandFacts
<1>4. a + k \in Nat /\ a + k < f.units /\ Body(f, a + k) = B * (SlotOf(f, p) - 1) + k
  <2> HIDE DEF k, a
  <2> QED BY <1>1, <1>2, BandBody DEF a
<1>5. SlotOf(f, p) - 1 = q
  <2>1. SlotOf(f, p) = q + 1
    OBVIOUS
  <2> HIDE DEF q
  <2> QED BY <1>1, <2>1
<1>6. Seen(d, a + k) = Offs + i - 1
  BY <1>1, <1>2, <1>4, <1>5 DEF Seen
<1> HIDE DEF a
<1>7. a + k = a + InBand + i - 1
  BY <1>1, <1>3
<1> QED BY <1>4, <1>6, <1>7 DEF a

LEMMA BandKeeps ==
  ASSUME ServeInv, NEW d \in Devices, AskOf(d), UNCHANGED main, ReadBand
  PROVE  ServeInv'
<1> DEFINE f == image[d]
           B == f.band
           n == SizeInBand
           q == Offs \div B
           base == table[d][Band]
<1>1. /\ asked # Nothing /\ asked.dev = d /\ kind[d] = "sparse" /\ Left > 0 /\ DevTyped /\ DevInv(d)
      /\ UNCHANGED <<image, phase, kind, key, table, next, node, cache>>
      /\ phase[d] \in Running /\ Band \in DOMAIN table[d]
  BY AskFacts DEF ReadBand, Reading, ServeInv, UnchangedButStream, AskOf
<1>2. /\ f.form = "sparse" /\ FileTyped(f) /\ SparseWhole(f) /\ f.size \in Nat
      /\ B \in Nat \ {0} /\ table[d] \in [Bands(f) -> Nat] /\ (Sound(d) => ~failed[d])
      /\ ~failed[d] =>
           \A b \in Bands(f) :
             IF table[d][b] = 0
               THEN \A p \in Used(f) : SlotOf(f, p) # b + 1
               ELSE \E p \in Used(f) : SlotOf(f, p) = b + 1 /\ table[d][b] = PlaceOf(f, p)
  BY <1>1, SparseFacts
<1>3. /\ InBand \in 0..(B - 1) /\ n \in Nat /\ n > 0 /\ n <= Left /\ q \in Nat /\ Offs \in Nat
      /\ \A i \in 1..n : (Offs + i - 1) \in Nat /\ (Offs + i - 1) \div B = q
  BY <1>1, InBandFacts
<1>4. Band \in Bands(f) /\ base \in Nat /\ (~Odd(d) => Band = q)
  BY <1>1, <1>2 DEF Band, Odd
<1>5. \A u \in DOMAIN Contents(d) :
        Contents(d)[u] = IF \E p \in Used(f) : SlotOf(f, p) - 1 = u \div B THEN u ELSE Zero
  BY <1>1 DEF Contents
<1>6. CASE base = 0
  <2> DEFINE c == [i \in 1..n |-> Zero]
  <2>1. Deliver(c) /\ failed' = failed
    <3>1. table[asked.dev][Band] = 0
      BY <1>1, <1>6
    <3> QED BY <3>1 DEF ReadBand
  <2>2. c \in Seq(Int) /\ Len(c) = n /\ \A i \in 1..n : c[i] = Zero
    <3> HIDE DEF n
    <3> QED BY <1>3 DEF Zero
  <2> HIDE DEF c
  <2>3. Plausible(Offs, c)
    BY <2>2 DEF Plausible, Zero
  <2>4. ASSUME ~Odd(d), ~failed[d] PROVE Right(d, Offs, c)
    <3>1. \A p \in Used(f) : SlotOf(f, p) # q + 1
      BY <1>2, <1>4, <1>6, <2>4
    <3>2. \A p \in Used(f) : SlotOf(f, p) - 1 # q
      <4>1. \A p \in Used(f) : SlotOf(f, p) \in Nat
        BY <1>2, BandFacts
      <4> HIDE DEF q
      <4> QED BY <1>3, <3>1, <4>1
    <3>3. SUFFICES ASSUME NEW i \in 1..n, Offs + i - 1 \in DOMAIN Contents(d)
                   PROVE  Contents(d)[Offs + i - 1] = Zero
      BY <2>2 DEF Right
    <3>4. (Offs + i - 1) \div B = q
      BY <1>3
    <3> HIDE DEF q, B, f
    <3> QED BY <1>5, <3>2, <3>3, <3>4
  <2>5. /\ AskOf(d)' /\ asked' # Nothing
        /\ asked'.dev = asked.dev /\ asked'.offs = asked.offs /\ asked'.len = asked.len
        /\ answer' = Nothing
    BY <1>1, <1>3, <2>1, <2>2, <2>3, <2>4, DeliverKeeps
  <2>6. UNCHANGED <<opening, cache>>
    BY <1>1, <2>1 DEF opening
  <2> QED BY <1>1, <2>5, <2>6, SameDevices, GoesOn DEF ServeInv
<1>7. CASE base # 0
  <2> DEFINE off == base + InBand
             c == ImageRead(d, off, n)
             fails == FailsAfter(d, off, n)
  <2>1. Deliver(c) /\ failed' = [failed EXCEPT ![d] = fails]
    <3>1. /\ table[asked.dev][Band] # 0
          /\ ImageRead(asked.dev, table[asked.dev][Band] + InBand, SizeInBand) = c
          /\ FailsAfter(asked.dev, table[asked.dev][Band] + InBand, SizeInBand) = fails
      BY <1>1, <1>7
    <3>2. /\ Deliver(ImageRead(asked.dev, table[asked.dev][Band] + InBand, SizeInBand))
          /\ Stream(asked.dev, table[asked.dev][Band] + InBand, SizeInBand)
      BY <3>1 DEF ReadBand
    <3> HIDE DEF c, fails
    <3> QED BY <1>1, <3>1, <3>2 DEF Deliver, Stream
  <2>2. off \in Nat
    <3> HIDE DEF base, B
    <3> QED BY <1>2, <1>3, <1>4
  <2>3. /\ c \in Seq(Int) /\ Len(c) = n
        /\ \A i \in 1..n : c[i] = Seen(d, off + i - 1) \/ (fails /\ c[i] = Garbage)
        /\ failed[d] => fails /\ \A i \in 1..n : c[i] = Garbage
    <3>1. n \in Nat /\ f.form # "absent"
      BY <1>2, <1>3
    <3> HIDE DEF off, n
    <3> QED BY <1>1, <2>2, <3>1, ReadFacts
  <2>4. failed'[d] = fails
    BY <1>1, <2>1 DEF DevTyped
  <2>5. ASSUME ~Odd(d), ~failed[d]
        PROVE  /\ \A i \in 1..n : /\ off + i - 1 \in Nat /\ off + i - 1 < f.units
                                  /\ Seen(d, off + i - 1) = Offs + i - 1
               /\ \E p \in Used(f) : SlotOf(f, p) - 1 = q
    <3>1. PICK p \in Used(f) : SlotOf(f, p) = q + 1 /\ base = PlaceOf(f, p)
      BY <1>2, <1>4, <1>7, <2>5
    <3>2. off = PlaceOf(f, p) + InBand
      BY <3>1
    <3>3. \A i \in 1..n : LET u == PlaceOf(f, p) + InBand + i - 1
                          IN u \in Nat /\ u < f.units /\ Seen(d, u) = Offs + i - 1
      BY <1>1, <3>1, BandSector
    <3>4. SlotOf(f, p) - 1 = q
      <4> HIDE DEF q
      <4> QED BY <1>3, <3>1
    <3> HIDE DEF off
    <3> QED BY <3>2, <3>3, <3>4
  <2>6. Sound(d) => ~failed'[d]
    <3>1. SUFFICES ASSUME Sound(d) PROVE Arrives(d, off, off + n - 1)
      BY <2>4 DEF FailsAfter
    <3>2. n \in 1..n
      <4> HIDE DEF n
      <4> QED BY <1>3
    <3>3. ~failed[d] /\ ~Odd(d) /\ image[d].bad = {} /\ KeyInv(d)
      BY <1>1, <1>2, <3>1 DEF Sound, DevInv
    <3>4. off + n - 1 \in Nat /\ off + n - 1 < f.units
      BY <2>5, <3>2, <3>3
    <3> HIDE DEF off
    <3> QED BY <1>1, <2>2, <3>3, <3>4, ArrivesUndamaged
  <2> HIDE DEF off
  <2>7. Odd(d) \/ \A i \in 1..n : c[i] = Offs + i - 1 \/ (fails /\ c[i] = Garbage)
    BY <2>3, <2>5
  <2> HIDE DEF c
  <2>8. Odd(d) \/ Plausible(Offs, c)
    BY <2>3, <2>7 DEF Plausible, Garbage
  <2>9. Odd(d) \/ failed'[d] \/ Right(d, Offs, c)
    <3>1. SUFFICES ASSUME ~Odd(d), ~fails, NEW i \in 1..n, Offs + i - 1 \in DOMAIN Contents(d)
                   PROVE  c[i] = Contents(d)[Offs + i - 1]
      BY <2>3, <2>4 DEF Right
    <3>2. c[i] = Offs + i - 1 /\ (Offs + i - 1) \div B = q /\ ~failed[d]
      BY <1>3, <2>3, <2>7, <3>1
    <3>3. \E p \in Used(f) : SlotOf(f, p) - 1 = q
      BY <2>5, <3>1, <3>2
    <3> HIDE DEF q, B, f
    <3> QED BY <1>5, <3>1, <3>2, <3>3
  <2>10. /\ AskOf(d)' /\ asked' # Nothing
         /\ asked'.dev = asked.dev /\ asked'.offs = asked.offs /\ asked'.len = asked.len
         /\ answer' = Nothing
    BY <1>1, <1>3, <2>1, <2>3, <2>4, <2>8, <2>9, DeliverKeeps
  <2>11. DevTyped' /\ \A e \in Devices : DevInv(e)'
    <3>1. \E o, k \in Nat : Stream(d, o, k)
      BY <1>3, <2>1, <2>2 DEF Stream
    <3> HIDE DEF fails
    <3> QED BY <1>1, <2>3, <2>4, <2>6, <3>1, StreamFrame DEF ServeInv, DevTyped
  <2> QED BY <1>1, <2>10, <2>11, GoesOn DEF ServeInv
<1> QED BY <1>6, <1>7

(* There is no band behind the last one of the disk.                        *)
LEMMA BehindBands ==
  ASSUME NEW f, f.band \in Nat \ {0}, f.size \in Nat, NEW u \in Nat, u \div f.band \notin Bands(f)
  PROVE  u >= f.size
<1> DEFINE B == f.band
           e == f.size + B - 1
           q == u \div B
           l == e \div B
<1>1. B \in Nat \ {0} /\ f.size \in Nat
  OBVIOUS
<1>2. q \notin 0..(l - 1)
  BY DEF Bands
<1> HIDE DEF B
<1>3. e \in Nat
  BY <1>1
<1>4. q \in Nat /\ u % B \in 0..(B - 1) /\ u = B * q + (u % B) /\ B * q \in Nat
  BY <1>1, Euclid
<1> HIDE DEF e, q
<1>5. l \in Nat /\ e % B \in 0..(B - 1) /\ e = B * l + (e % B) /\ B * l \in Nat
  BY <1>1, <1>3, Euclid
<1> HIDE DEF l
<1>6. l <= q
  BY <1>2, <1>4, <1>5
<1>7. B * l <= B * q
  BY <1>1, <1>4, <1>5, <1>6, Multiples
<1> DEFINE x == B * l
           y == B * q
<1>8. /\ x \in Nat /\ y \in Nat /\ x <= y /\ u = y + (u % B) /\ u % B >= 0
      /\ e = x + (e % B) /\ e % B <= B - 1 /\ e % B \in Nat /\ u % B \in Nat
  BY <1>1, <1>4, <1>5, <1>7
<1> HIDE DEF x, y
<1>9. e = f.size + B - 1
  BY DEF e
<1> QED BY <1>1, <1>8, <1>9

LEMMA NoBandKeeps ==
  ASSUME ServeInv, NEW d \in Devices, AskOf(d), UNCHANGED main, NoSuchBand
  PROVE  ServeInv'
<1> DEFINE f == image[d]
           B == f.band
           n == SizeInBand
<1>1. /\ asked # Nothing /\ asked.dev = d /\ kind[d] = "sparse" /\ Left > 0 /\ DevTyped /\ DevInv(d)
      /\ UNCHANGED <<image, kind, key, failed, table, next, node, cache>>
      /\ phase[d] \in Running /\ Band \notin DOMAIN table[d]
  BY AskFacts DEF NoSuchBand, Reading, ServeInv, AskOf
<1>2. CASE phase' = [phase EXCEPT ![d] = "crashed"] /\ UNCHANGED <<asked, answer>>
  <2>1. DevTyped' /\ \A e \in Devices : DevInv(e)'
    BY <1>1, <1>2, CrashFrame
  <2>2. AskOf(d)'
    <3>1. phase'[d] = "crashed"
      BY <1>1, <1>2 DEF DevTyped
    <3>2. Contents(d)' = Contents(d) /\ Odd(d)' = Odd(d)
      BY <1>1, SameDisk
    <3>3. Broken(d)' = Broken(d)
      BY <1>1, <3>2 DEF Broken
    <3>4. Right(d, asked.offs, asked.data)' = Right(d, asked.offs, asked.data)
      BY <1>2, <3>2 DEF Right
    <3> QED BY <1>1, <1>2, <3>1, <3>2, <3>3, <3>4 DEF AskOf, Running
  <2> QED BY <1>1, <1>2, <2>1, <2>2, GoesOn DEF ServeInv, AskOf
<1>3. CASE Deliver([i \in 1..n |-> Garbage]) /\ UNCHANGED phase
  <2> DEFINE c == [i \in 1..n |-> Garbage]
  <2>1. /\ B \in Nat \ {0} /\ f.size \in Nat /\ table[d] \in [Bands(f) -> Nat]
    BY <1>1, SparseFacts
  <2>2. /\ n \in Nat /\ n <= Left /\ Offs \in Nat
        /\ \A i \in 1..n : Offs + i - 1 \in Nat /\ (Offs + i - 1) \div B = Offs \div B
    BY <1>1, InBandFacts
  <2>3. c \in Seq(Int) /\ Len(c) = n /\ \A i \in 1..n : c[i] = Garbage
    <3> HIDE DEF n
    <3> QED BY <2>2 DEF Garbage
  <2>4. Odd(d) \/ Offs \div B \notin Bands(f)
    <3>1. ~Odd(d) => Chunk = B
      BY <1>1 DEF Odd, DevInv, TableInv
    <3> QED BY <1>1, <2>1, <3>1 DEF Band
  <2> HIDE DEF c
  <2>5. Plausible(Offs, c)
    BY <2>3 DEF Plausible, Garbage
  <2>6. Odd(d) \/ Right(d, Offs, c)
    <3>1. SUFFICES ASSUME ~Odd(d), NEW i \in 1..n, Offs + i - 1 \in DOMAIN Contents(d) PROVE FALSE
      BY <2>3 DEF Right
    <3> DEFINE u == Offs + i - 1
    <3>2. u \in Nat /\ u \div B \notin Bands(f) /\ u \in DOMAIN Contents(d)
      BY <2>2, <2>4, <3>1
    <3> HIDE DEF u
    <3>3. u >= f.size
      BY <2>1, <3>2, BehindBands
    <3>4. DOMAIN Contents(d) = 0..(f.size - 1)
      BY <1>1 DEF Contents
    <3> HIDE DEF f
    <3> QED BY <2>1, <3>2, <3>3, <3>4
  <2>7. /\ AskOf(d)' /\ asked' # Nothing
        /\ asked'.dev = asked.dev /\ asked'.offs = asked.offs /\ asked'.len = asked.len
        /\ answer' = Nothing
    BY <1>1, <1>3, <2>2, <2>3, <2>5, <2>6, DeliverKeeps DEF c
  <2>8. UNCHANGED <<opening, cache>>
    BY <1>1, <1>3 DEF opening
  <2> QED BY <1>1, <2>7, <2>8, SameDevices, GoesOn DEF ServeInv
<1> QED BY <1>1, <1>2, <1>3 DEF NoSuchBand, Goto

-----------------------------------------------------------------------------
(* Reading a file as it is.                                                 *)

LEMMA LinuxKeeps ==
  ASSUME ServeInv, NEW d \in Devices, AskOf(d), UNCHANGED main, ReadLinux
  PROVE  ServeInv'
<1> DEFINE f == image[d]
           o == asked.offs
           n == asked.len
           ok == \A p \in Sectors(o, n) : Readable(f, p)
           c == [i \in 1..n |-> IF ok THEN Stored(f, o + i - 1) ELSE Garbage]
<1>1. /\ asked # Nothing /\ asked.dev = d /\ kind[d] = "linux" /\ DevTyped /\ DevInv(d)
      /\ UNCHANGED <<opening, cache>> /\ UNCHANGED <<image, kind, key, failed>>
      /\ asked.data = <<>> /\ o \in Nat /\ n \in Nat /\ f.form # "absent"
  BY AskFacts DEF ReadLinux, Reading, ServeInv, AskOf, opening, DevInv, PhaseInv
<1>2. Offs = o /\ Left = n
  BY <1>1 DEF Offs, Left
<1>3. Return(ok, c)
  <2>1. Return(\A p \in Sectors(Offs, Left) : Readable(image[asked.dev], p),
               [i \in 1..Left |-> IF \A p \in Sectors(Offs, Left) : Readable(image[asked.dev], p)
                                    THEN Stored(image[asked.dev], Offs + i - 1) ELSE Garbage])
    BY DEF ReadLinux
  <2> QED BY <1>1, <1>2, <2>1 DEF Return
<1>4. WholeFile(f) /\ FileTyped(f)
  BY <1>1, Files DEF WholeFile
<1>5. \A u \in Nat : Stored(f, u) \in Int /\ (f.form = "flat" => Stored(f, u) = u \/ Stored(f, u) < 0)
  BY <1>1, <1>4, BodyFacts DEF Stored, Cipher
<1>6. c \in Seq(Int) /\ Len(c) = n /\ \A i \in 1..n : c[i] = IF ok THEN Stored(f, o + i - 1) ELSE Garbage
  <2>1. \A i \in 1..n : o + i - 1 \in Nat
    BY <1>1
  <2>2. \A i \in 1..n : (IF ok THEN Stored(f, o + i - 1) ELSE Garbage) \in Int
    BY <1>5, <2>1 DEF Garbage
  <2> DEFINE e(i) == IF ok THEN Stored(f, o + i - 1) ELSE Garbage
  <2>3. c = [i \in 1..n |-> e(i)] /\ \A i \in 1..n : e(i) \in Int
    BY <2>2
  <2> HIDE DEF e, n, c
  <2>4. c \in Seq(Int) /\ Len(c) = n /\ \A i \in 1..n : c[i] = e(i)
    BY <1>1, <2>3
  <2> QED BY <2>4 DEF e
<1> HIDE DEF ok, c
<1>7. Misread(d) \/ Plausible(o, c)
  <2>1. SUFFICES ASSUME ~Misread(d) PROVE \A i \in 1..n : c[i] = o + i - 1 \/ c[i] < 0
    BY <1>6 DEF Plausible
  <2>2. f.form = "flat"
    BY <1>1, <1>4, <2>1 DEF Misread, FileTyped
  <2>3. \A i \in 1..n : o + i - 1 \in Nat
    BY <1>1
  <2> QED BY <1>5, <1>6, <2>2, <2>3 DEF Garbage
<1>8. ok => Right(d, o, c)
  <2>1. Contents(d) = [u \in 0..(FileLen(f) - 1) |-> Stored(f, u)]
    BY <1>1 DEF Contents
  <2>2. \A u \in DOMAIN Contents(d) : Contents(d)[u] = Stored(f, u)
    BY <2>1
  <2> QED BY <1>6, <2>2 DEF Right
<1>9. Sound(d) /\ o + n <= f.size => ok
  <2>1. SUFFICES ASSUME Sound(d), o + n <= f.size, NEW p \in Sectors(o, n) PROVE Readable(f, p)
    BY DEF ok
  <2>2. f.form = "flat" /\ f.bad = {} /\ f.crypt = "no"
    BY <1>1, <2>1, SoundFlat DEF Sound, DevInv, KeyInv, Clear
  <2>3. FileLen(f) = f.units /\ f.units = f.size /\ f.units \in Nat
    BY <1>4, <2>2 DEF FileLen, HeaderLen, FileTyped
  <2>4. p < f.size
    <3>1. p \in o..(o + n - 1) /\ f.size \in Nat
      BY <2>1, <2>3 DEF Sectors
    <3> HIDE DEF f
    <3> QED BY <1>1, <2>1, <3>1
  <2> QED BY <2>2, <2>3, <2>4 DEF Readable
<1>10. ok \in BOOLEAN
  BY DEF ok
<1>11. AskInv' /\ ReadInv'
  BY <1>1, <1>3, <1>6, <1>7, <1>8, <1>9, <1>10, ReturnKeeps DEF ServeInv
<1> QED BY <1>1, <1>11, SameDevices DEF ServeInv

(* What main has a device read is on it, before the blocks of a session.    *)
LEMMA AskedInside ==
  ASSUME ServeInv, MainInv, NEW d \in Devices, AskOf(d), ReadInside(d), Sound(d), kind[d] = "rawdmg"
  PROVE  asked.offs + asked.len <= image[d].units
<1> DEFINE f == image[d]
           o == asked.offs
           n == asked.len
<1>1. /\ asked # Nothing /\ asked.dev = d /\ DevTyped /\ DevInv(d) /\ Awaited(d, o, n)
      /\ call \in Calls /\ sector \in Nat
  BY AskFacts DEF ServeInv, ReadInv, MainInv, MainTyped
<1>2. f.form = "flat" /\ f.units = f.size /\ f.size \in Nat /\ f \in {s[d] : s \in Setups}
  BY <1>1, SoundFlat, Files DEF WholeFile, FileTyped, DevTyped
<1>3. /\ MapWhole(f) /\ 2 * BigSector <= f.size /\ 2 * call.blksize <= f.size
      /\ call.blksize \in Nat /\ BigSector \in Nat
  BY <1>1, <1>2, MountAssumption
<1>4. CASE pc = "header" /\ d = gptDev /\ o = sector /\ n = sector
  <2>1. sector = call.blksize \/ sector = BigSector
    BY <1>4 DEF MainInv, MapInv, MapOf
  <2> HIDE DEF f
  <2> QED BY <1>1, <1>2, <1>3, <1>4, <2>1 DEF f
<1>5. CASE pc = "map" /\ d = gptDev /\ o = 2 * sector /\ n = MapSectors
  <2>1. f.gpt # Nothing /\ f.gpt.good /\ f.gpt.sector = sector
    BY <1>5 DEF MainInv, MapInv, MapOf, HasMap
  <2>2. Kept(f, 2 * sector)
    BY <1>3, <2>1 DEF MapWhole
  <2>3. 2 * sector < f.units
    BY <1>2, <2>2 DEF Kept
  <2> HIDE DEF f
  <2> QED BY <1>1, <1>2, <1>5, <2>3 DEF f, MapSectors
<1>6. CASE pc = "superblock" /\ d = Main /\ o = start[Main] /\ n = Block
  BY <1>2, <1>6 DEF ReadInside
<1>7. pc # "session"
  BY DEF ReadInside
<1> QED BY <1>1, <1>4, <1>5, <1>6, <1>7 DEF Awaited

LEMMA RawKeeps ==
  ASSUME ServeInv, MainInv, NEW d \in Devices, AskOf(d), UNCHANGED main, ReadRawDmg
  PROVE  ServeInv' /\ InsideInv'
<1> DEFINE f == image[d]
           o == asked.offs
           n == asked.len
           c == ImageRead(d, o, n)
           fails == FailsAfter(d, o, n)
<1>1. /\ asked # Nothing /\ asked.dev = d /\ kind[d] = "rawdmg" /\ DevTyped /\ DevInv(d)
      /\ UNCHANGED <<image, phase, kind, key, table, next, node, cache>>
      /\ asked.data = <<>> /\ o \in Nat /\ n \in Nat \ {0} /\ f.form # "absent"
  BY AskFacts DEF ReadRawDmg, Reading, ServeInv, AskOf, UnchangedButStream, DevInv, PhaseInv
<1>2. Offs = o /\ Left = n
  BY <1>1 DEF Offs, Left
<1>3. Return(TRUE, c) /\ failed' = [failed EXCEPT ![d] = fails]
  <2>1. ImageRead(asked.dev, Offs, Left) = c /\ FailsAfter(asked.dev, Offs, Left) = fails
    BY <1>1, <1>2
  <2>2. Return(TRUE, ImageRead(asked.dev, Offs, Left)) /\ Stream(asked.dev, Offs, Left)
    BY DEF ReadRawDmg
  <2> HIDE DEF c, fails
  <2> QED BY <1>1, <2>1, <2>2 DEF Return, Stream
<1>4. failed'[d] = fails /\ \A e \in Devices \ {d} : failed'[e] = failed[e]
  BY <1>1, <1>3 DEF DevTyped
<1>5. /\ c \in Seq(Int) /\ Len(c) = n
      /\ \A i \in 1..n : c[i] = Seen(d, o + i - 1) \/ (fails /\ c[i] = Garbage)
      /\ failed[d] => fails /\ \A i \in 1..n : c[i] = Garbage
  <2> HIDE DEF o, n, f
  <2> QED BY <1>1, ReadFacts DEF f
<1>6. WholeFile(f) /\ FileTyped(f) /\ KeyInv(d) /\ key[d] \in {"none", "right", "wrong"}
  BY <1>1, Files DEF WholeFile, DevInv, DevTyped
<1>7. \A i \in 1..n : o + i - 1 \in Nat
  BY <1>1
<1> HIDE DEF c, fails
<1>8. Plausible(o, c)
  <2>1. SUFFICES ASSUME NEW i \in 1..n PROVE c[i] = o + i - 1 \/ c[i] < 0
    BY <1>5 DEF Plausible
  <2>2. CASE c[i] = Garbage
    BY <2>2 DEF Garbage
  <2>3. CASE c[i] = Seen(d, o + i - 1)
    <3>1. CASE ~Clear(d)
      BY <2>3, <3>1 DEF Seen, Cipher, Garbage
    <3>2. CASE f.form = "flat" /\ Clear(d)
      BY <1>1, <1>6, <1>7, <2>3, <3>2, BodyFacts DEF Seen
    <3>3. CASE f.form = "udif" /\ Clear(d)
      BY <1>1, <1>5, <1>6, <3>3 DEF KeyInv, Clear, Garbage
    <3>4. f.form \in {"flat", "udif"}
      BY <1>1, <1>6 DEF KeyInv, FileTyped, IsDmg
    <3> QED BY <3>1, <3>2, <3>3, <3>4
  <2> QED BY <1>5, <2>2, <2>3
<1>9. fails \/ Right(d, o, c)
  <2>1. SUFFICES ASSUME ~fails, NEW i \in 1..n, o + i - 1 \in DOMAIN Contents(d)
                 PROVE  c[i] = Contents(d)[o + i - 1]
    BY <1>5 DEF Right
  <2> DEFINE u == o + i - 1
  <2>2. c[i] = Seen(d, u) /\ ~failed[d]
    BY <1>5, <2>1
  <2>3. \A v \in DOMAIN Contents(d) :
          Contents(d)[v] = IF key[d] = "right" \/ f.crypt = "no" THEN Body(f, v) ELSE Garbage
    BY <1>1 DEF Contents
  <2>4. Contents(d)[u] = IF key[d] = "right" \/ f.crypt = "no" THEN Body(f, u) ELSE Garbage
    BY <2>1, <2>3
  <2> HIDE DEF u
  <2>5. key[d] = "none" => f.crypt = "no"
    BY <1>1, <1>6, <2>2 DEF KeyInv
  <2>6. key[d] # "none" => f.crypt # "no"
    BY <1>6 DEF KeyInv
  <2>7. Seen(d, u) = IF key[d] = "right" \/ f.crypt = "no" THEN Body(f, u) ELSE Garbage
    BY <1>6, <2>5, <2>6 DEF Seen, Clear
  <2> QED BY <2>2, <2>4, <2>7 DEF u
<1>10. AskInv' /\ ReadInv'
  BY <1>1, <1>3, <1>4, <1>5, <1>8, <1>9, ReturnKeeps DEF ServeInv
<1>11. DevTyped' /\ \A e \in Devices : DevInv(e)'
  <2>1. \E off, k \in Nat : Stream(d, off, k)
    BY <1>1, <1>3 DEF Stream, fails
  <2> QED BY <1>1, <1>4, <1>5, <2>1, StreamFrame DEF ServeInv, DevTyped
<1>12. InsideInv'
  <2>1. SUFFICES ASSUME NEW e \in Devices, ReadInside(e), Sound(e), kind[e] = "rawdmg"
                 PROVE  ~failed'[e]
    <3>1. UNCHANGED <<pc, start>>
      BY DEF main
    <3>2. \A e \in Devices : ReadInside(e)' = ReadInside(e) /\ Sound(e)' = Sound(e)
      BY <1>1, <3>1, SameDisk DEF ReadInside
    <3> QED BY <1>1, <3>2 DEF InsideInv
  <2>2. ~failed[e]
    BY <2>1 DEF MainInv, InsideInv
  <2>3. CASE e = d
    <3>1. o + n <= f.units /\ f.units \in Nat
      BY <1>1, <1>6, <2>1, <2>3, AskedInside DEF FileTyped
    <3>2. o + n - 1 \in Nat /\ o + n - 1 < f.units
      <4> HIDE DEF f
      <4> QED BY <1>1, <3>1
    <3> HIDE DEF n, o
    <3>3. Arrives(d, o, o + n - 1)
      BY <1>1, <1>6, <2>1, <2>2, <2>3, <3>2, ArrivesUndamaged DEF Sound
    <3> QED BY <1>4, <2>3, <3>3 DEF fails, FailsAfter
  <2> QED BY <1>4, <2>2, <2>3
<1> QED BY <1>10, <1>11, <1>12 DEF ServeInv

-----------------------------------------------------------------------------
(* A device acts, and main waits.                                           *)

LEMMA MainFrame ==
  ASSUME MainInv, InsideInv', UNCHANGED main, UNCHANGED image,
         \A d \in Devices : kind[d] # "none" => kind'[d] = kind[d] /\ key'[d] = key[d],
         \A d \in Devices : phase'[d] = "closed" => phase[d] = "closed" /\ kind'[d] = kind[d]
  PROVE  MainInv'
<1>1. UNCHANGED <<call, pc, gptDev, sector, part, start, paddr>>
  BY DEF main
<1>2. MainTyped'
  BY <1>1 DEF MainInv, MainTyped
<1>4. ASSUME NEW d \in Devices, kind[d] # "none"
      PROVE  /\ Lost(d)' = Lost(d) /\ Located(d)' = Located(d) /\ Misread(d)' = Misread(d)
             /\ Odd(d)' = Odd(d)
  <2>1. /\ HasMap(d)' = HasMap(d) /\ HasGap(d)' = HasGap(d) /\ Meant(d)' = Meant(d)
        /\ Odd(d)' = Odd(d)
    BY <1>1 DEF HasMap, HasGap, Meant, Entries, APFSEntries, FirstSector, Odd
  <2>2. Lost(d)' = Lost(d)
    BY <1>1, <1>4, <2>1 DEF Lost
  <2> QED BY <1>1, <1>4, <2>1, <2>2 DEF Located, Strays, Misread
<1>5. pc \in MapSteps \cup Later => \A d \in Given : d \in Devices /\ kind[d] # "none"
  BY MountAssumption DEF MainInv, OpenedInv, Given
<1>6. Main \in Given /\ Given' = Given
  BY <1>1 DEF Given
<1>7. StartInv'
  BY <1>1, <1>4, <1>5, <1>6 DEF MainInv, StartInv
<1>8. MapInv'
  <2>1. SUFFICES ASSUME NEW d \in Devices, d = gptDev PROVE MapOf(d)'
    BY <1>1 DEF MapInv
  <2>2. MapOf(d)
    BY <2>1 DEF MainInv, MapInv
  <2>3. HasMap(d)' = HasMap(d)
    BY <1>1 DEF HasMap
  <2>4. pc = "header" => Lost(d)' = Lost(d)
    BY <1>4, <1>5, <2>1 DEF MainInv, StartInv, MapSteps
  <2> QED BY <1>1, <2>2, <2>3, <2>4 DEF MapOf
<1>3. OpenedInv'
  BY <1>1, <1>5, <1>6 DEF MainInv, OpenedInv
<1>9. FoundInv'
  BY <1>1, <1>4, <1>5, <1>6 DEF MainInv, FoundInv, Later
<1> QED BY <1>2, <1>3, <1>7, <1>8, <1>9 DEF MainInv

LEMMA ServingKeeps ==
  ASSUME ServeInv, MainInv, Serving, UNCHANGED main
  PROVE  ServeInv' /\ MainInv'
<1>1. asked # Nothing
  BY DEF Serving, ReadLinux, ReadRawDmg, SearchSection, NoSection, NoMoreSections, SectionRaw,
         SectionZero, SectionUnknown, FillCache, SectionCached, ReadBand, NoSuchBand, ReadDone,
         AtSection, InSection, Searching, Reading
<1>2. PICK d \in Devices : AskOf(d)
  BY <1>1 DEF ServeInv, AskInv
<1>3. ServeInv'
  BY <1>2, SearchKeeps, DmgEndKeeps, DoneKeeps, SectionKeeps, FillKeeps, CachedKeeps,
     BandKeeps, NoBandKeeps, LinuxKeeps, RawKeeps DEF Serving
<1>4. /\ UNCHANGED <<image, kind, key>>
      /\ \A e \in Devices : phase'[e] \in {phase[e]} \cup Running
  <2>1. phase \in [Devices -> Phases] /\ asked.dev = d
    BY <1>2, AskFacts DEF ServeInv, DevTyped
  <2>2. CASE NoSuchBand
    BY <2>1, <2>2 DEF NoSuchBand, Goto, Running
  <2>4. CASE FillCache
    <3>1. UNCHANGED <<image, kind, key>> /\ \E p \in AfterUnpacking(d, Section) : Goto(d, p)
      BY <2>1, <2>4 DEF FillCache
    <3> QED BY <3>1, StopFacts DEF ServeInv
  <2>3. CASE ~NoSuchBand /\ ~FillCache
    BY <2>3 DEF Serving, ReadLinux, ReadRawDmg, SearchSection, NoSection, NoMoreSections, SectionRaw,
         SectionZero, SectionUnknown, SectionCached, ReadBand, ReadDone,
         opening, UnchangedButStream
  <2> QED BY <2>2, <2>3, <2>4
<1>5. InsideInv'
  <2>1. CASE ReadRawDmg
    BY <1>2, <2>1, RawKeeps
  <2>2. CASE ~ReadRawDmg
    <3>1. asked.dev = d /\ DevTyped
      BY <1>2, AskFacts DEF ServeInv
    <3>2. failed' = failed \/ (kind[d] # "rawdmg" /\ \E b \in BOOLEAN : failed' = [failed EXCEPT ![d] = b])
      BY <2>2, <3>1 DEF Serving, ReadLinux, SearchSection, NoSection, NoMoreSections, SectionRaw,
         SectionZero, SectionUnknown, FillCache, SectionCached, ReadBand, NoSuchBand, ReadDone,
         AtSection, InSection, Searching, Reading, opening, Stream, FailsAfter
    <3>3. \A e \in Devices : kind[e] = "rawdmg" => failed'[e] = failed[e]
      BY <3>1, <3>2 DEF DevTyped
    <3>4. \A e \in Devices : ReadInside(e)' = ReadInside(e) /\ Sound(e)' = Sound(e)
      BY <1>4, SameDisk DEF ReadInside, main
    <3> QED BY <1>4, <3>3, <3>4 DEF MainInv, InsideInv
  <2> QED BY <2>1, <2>2
<1>6. \A e \in Devices : phase'[e] = "closed" => phase[e] = "closed"
  BY <1>4 DEF Running
<1> QED BY <1>3, <1>4, <1>5, <1>6, MainFrame

(* Nothing is known of a device that is still being opened.                 *)
LEMMA DeliveredFrame ==
  ASSUME NEW d \in Devices, NEW o \in Nat, NEW n \in Nat, UNCHANGED <<image, answer>>,
         kind'[d] = kind[d], key'[d] = key[d], failed'[d] = failed[d], Delivered(d, o, n, answer)
  PROVE  Delivered(d, o, n, answer)'
<1>1. Contents(d)' = Contents(d)
  BY DEF Contents
<1>2. /\ Odd(d)' = Odd(d) /\ Misread(d)' = Misread(d) /\ Clear(d)' = Clear(d)
      /\ Broken(d)' = Broken(d) /\ Sound(d)' = Sound(d)
  BY DEF Odd, Misread, Clear, Broken, Sound
<1>3. Right(d, o, answer.data)' = Right(d, o, answer.data)
  BY <1>1 DEF Right
<1> QED BY <1>2, <1>3 DEF Delivered

LEMMA OpeningStepKeeps ==
  ASSUME IInv, NEW d \in Devices, Opening(d), UNCHANGED main
  PROVE  IInv'
<1>1. /\ DevTyped /\ (\A e \in Devices : DevInv(e)) /\ kind[d] = "none"
      /\ phase[d] \in {"crypt", "head", "index", "raw"}
  BY DEF IInv, DevInv, PhaseInv, Running, Opening, OpenRaw, NoSignature, SetupEncryption, KeysUnread, TakeRaw,
         LoadSections, NotSparse, LoadHeader, LoadIndex, IndexUnread, IndexLoaded
<1>2. DevTyped' /\ \A e \in Devices : DevInv(e)'
  BY <1>1, OpeningKeeps
<1>3. /\ UNCHANGED <<image, asked, answer>>
      /\ \A e \in Devices \ {d} : /\ phase'[e] = phase[e] /\ kind'[e] = kind[e] /\ key'[e] = key[e]
                                  /\ failed'[e] = failed[e]
      /\ phase'[d] # "closed"
  BY <1>1 DEF Opening, OpenRaw, NoSignature, SetupEncryption, KeysUnread, TakeRaw, LoadSections, NotSparse,
         LoadHeader, LoadIndex, IndexUnread, IndexLoaded, Goto, DevTyped
<1>4. UNCHANGED <<call, pc, gptDev, sector, part, start, paddr>>
  BY DEF main
<1>5. AskInv'
  <2>1. SUFFICES ASSUME asked # Nothing PROVE \E e \in Devices : AskOf(e)'
    BY <1>3 DEF AskInv
  <2>2. PICK e \in Devices : AskOf(e)
    BY <2>1 DEF IInv, AskInv
  <2>3. e # d
    BY <1>1, <2>2 DEF AskOf
  <2>4. Contents(e)' = Contents(e) /\ Odd(e)' = Odd(e) /\ Broken(e)' = Broken(e)
    <3>1. Odd(e)' = Odd(e)
      BY <1>3, <2>3 DEF Odd
    <3>2. Broken(e)' = Broken(e)
      BY <1>3, <2>3, <3>1 DEF Broken
    <3>3. Contents(e)' = Contents(e)
      BY <1>3, <2>3 DEF Contents
    <3> QED BY <3>1, <3>2, <3>3
  <2>5. Right(e, asked.offs, asked.data)' = Right(e, asked.offs, asked.data)
    BY <1>3, <2>4 DEF Right
  <2>6. SectInv(Sections(image[e]), image[e].size)' = SectInv(Sections(image[e]), image[e].size)
    BY <1>3 DEF SectInv, Left, Offs
  <2>7. AskOf(e)'
    BY <1>3, <2>2, <2>3, <2>4, <2>5, <2>6 DEF AskOf
  <2> QED BY <2>7
<1>6. ReadInv'
  <2>1. asked # Nothing => Awaited(asked.dev, asked.offs, asked.len)'
    BY <1>3, <1>4 DEF IInv, ReadInv, Awaited, Given
  <2>2. ASSUME answer # Nothing, pc \in Waiting
        PROVE  \E e \in Devices, o, n \in Nat :
                 answer.dev = e /\ Awaited(e, o, n)' /\ Delivered(e, o, n, answer)'
    <3>1. PICK e \in Devices, o \in Nat, n \in Nat :
            answer.dev = e /\ Awaited(e, o, n) /\ Delivered(e, o, n, answer)
      BY <2>2 DEF IInv, ReadInv
    <3>2. e # d
      <4>1. e \in Given /\ pc \in MapSteps \cup Later
        BY <3>1, <2>2 DEF Awaited, IInv, MainInv, StartInv, MapSteps, Later, Waiting, Given
      <4> QED BY <1>1, <4>1 DEF IInv, MainInv, OpenedInv
    <3>3. Awaited(e, o, n)'
      BY <1>4, <3>1 DEF Awaited, Given
    <3>4. Delivered(e, o, n, answer)'
      BY <1>3, <3>1, <3>2, DeliveredFrame
    <3> QED BY <3>1, <3>3, <3>4
  <2>3. pc = "volume" => answer = Nothing
    BY DEF IInv, ReadInv
  <2> QED BY <1>3, <1>4, <2>1, <2>2, <2>3 DEF ReadInv
<1>7. InsideInv'
  <2>1. SUFFICES ASSUME NEW e \in Devices, ReadInside(e)', Sound(e)', kind'[e] = "rawdmg"
                 PROVE  ~failed'[e]
    BY DEF InsideInv
  <2>2. CASE e = d
    <3>1. TakeRaw(d)
      BY <1>1, <2>1, <2>2 DEF Opening, OpenRaw, NoSignature, SetupEncryption, KeysUnread, TakeRaw, LoadSections,
         NotSparse, LoadHeader, LoadIndex, IndexUnread, IndexLoaded, DevTyped
    <3> DEFINE u == image[d].units - 1
    <3>2. /\ failed' = [failed EXCEPT ![d] = FailsAfter(d, u, 1)] /\ phase[d] = "head"
          /\ image[d].form # "absent" /\ image[d].bad = {} /\ KeyInv(d)
      BY <1>1, <1>3, <2>1, <2>2, <3>1 DEF TakeRaw, DevInv, PhaseInv, Sound
    <3>3. ~failed[d]
      BY <3>2 DEF KeyInv
    <3>4. u \in Nat /\ u < image[d].units
      BY <1>1, <3>2, Files DEF WholeFile, FileTyped
    <3> HIDE DEF u
    <3>5. ~FailsAfter(d, u, 1)
      BY <1>1, <3>2, <3>3, <3>4, ReadOne
    <3> QED BY <1>1, <2>2, <3>2, <3>5 DEF DevTyped
  <2>3. CASE e # d
    <3>1. Sound(e) /\ ReadInside(e)
      BY <1>3, <1>4, <2>1, <2>3 DEF Sound, Clear, Odd, ReadInside
    <3> QED BY <1>3, <2>1, <2>3, <3>1 DEF IInv, MainInv, InsideInv
  <2> QED BY <2>2, <2>3
<1>8. MainInv'
  BY <1>1, <1>3, <1>7, MainFrame DEF IInv
<1> QED BY <1>2, <1>5, <1>6, <1>8 DEF IInv

-----------------------------------------------------------------------------
(* Main.                                                                    *)

(* What is not lost is sound.                                               *)
LEMMA NotLost ==
  ASSUME DevTyped, NEW d \in Devices, DevInv(d), kind[d] # "none", ~Lost(d)
  PROVE  Sound(d)
<1>1. image[d].form # "absent" /\ KeyInv(d) /\ key[d] \in {"none", "right", "wrong"}
  BY DEF DevInv, PhaseInv, DevTyped
<1>2. image[d].bad = {} /\ ~Odd(d) /\ (image[d].crypt # "no" => key[d] = "right")
  BY DEF Lost
<1> QED BY <1>1, <1>2 DEF Sound, Clear, KeyInv

(* What a Read of something that is kept delivers.                          *)
LEMMA WholeRead ==
  ASSUME DevTyped, NEW d \in Devices, DevInv(d), kind[d] # "none", Sound(d),
         kind[d] = "rawdmg" => ~failed[d],
         NEW o \in Nat, NEW n \in Nat \ {0}, NEW a, Delivered(d, o, n, a), o + n <= image[d].size
  PROVE  /\ Kept(image[d], o) => a.data # <<>> /\ a.data[1] = o
         /\ (\A i \in 1..n : Kept(image[d], o + i - 1)) => a.ok
         /\ n = 1 /\ Kept(image[d], o) => a.data = <<o>>
<1>1. /\ ~failed[d] /\ ~Odd(d) /\ kind[d] \in {"linux", "dmg", "sparse", "rawdmg"}
  BY DEF DevInv, StreamInv, KeyInv, Sound, DevTyped, Kinds
<1>2. /\ a.ok \in BOOLEAN /\ a.data \in Seq(Int) /\ (a.ok => Len(a.data) = n)
      /\ (kind[d] = "linux" /\ ~a.ok) \/ Right(d, o, a.data)
      /\ ~a.ok => kind[d] # "linux" /\ Len(a.data) < n /\ ~Kept(image[d], o + Len(a.data))
  BY <1>1 DEF Delivered, Broken
<1> DEFINE x == a.data
           l == Len(x)
<1>3. x \in Seq(Int) /\ l \in Nat /\ Right(d, o, x)
  BY <1>2
<1>4. ASSUME Kept(image[d], o) PROVE x # <<>> /\ x[1] = o
  <2>1. o + 0 = o
    OBVIOUS
  <2>2. l # 0
    BY <1>2, <1>4, <2>1
  <2> HIDE DEF x
  <2>3. 1 \in 1..Len(x) /\ o + 1 - 1 = o /\ x # <<>>
    BY <1>3, <2>2
  <2>4. o \in DOMAIN Contents(d) /\ Contents(d)[o] = o
    BY <1>4, KeptFacts
  <2> QED BY <1>3, <2>3, <2>4 DEF Right
<1>5. ASSUME \A i \in 1..n : Kept(image[d], o + i - 1) PROVE a.ok
  <2>1. SUFFICES ASSUME ~a.ok PROVE FALSE
    OBVIOUS
  <2>2. l < n /\ ~Kept(image[d], o + l)
    BY <1>2, <2>1
  <2> HIDE DEF l
  <2>3. l + 1 \in 1..n /\ o + (l + 1) - 1 = o + l
    BY <1>3, <2>2
  <2>4. Kept(image[d], o + (l + 1) - 1)
    BY <1>5, <2>3
  <2> QED BY <2>2, <2>3, <2>4
<1>6. ASSUME n = 1, Kept(image[d], o) PROVE x = <<o>>
  <2>1. \A i \in 1..n : i = 1
    BY <1>6
  <2>2. o + 1 - 1 = o
    OBVIOUS
  <2>3. a.ok
    BY <1>5, <1>6, <2>1, <2>2
  <2>4. Len(x) = 1 /\ x[1] = o
    BY <1>2, <1>4, <1>6, <2>3
  <2> HIDE DEF x
  <2> QED BY <1>3, <2>4
<1> QED BY <1>4, <1>5, <1>6

(* Main reads from an open device.                                          *)
LEMMA ReadKeeps ==
  ASSUME DevTyped, \A e \in Devices : DevInv(e), NEW d \in Devices, NEW o \in Nat, NEW n \in Nat \ {0},
         Read(d, o, n)
  PROVE  /\ DevTyped' /\ (\A e \in Devices : DevInv(e)') /\ AskInv'
         /\ asked'.dev = d /\ asked'.offs = o /\ asked'.len = n
         /\ answer' = Nothing /\ UNCHANGED <<image, phase, kind, key, failed>>
<1> DEFINE end == IF kind[d] = "dmg" THEN Len(table[d]) ELSE 0
           T == [dev : Devices, offs : Nat, len : Nat \ {0}, data : Seq(Int), sect : Nat,
                 beg : Int, end : Int]
<1>1. /\ UNCHANGED <<image, phase, kind, key, failed, table, next, node, cache>> /\ phase[d] = "open"
      /\ asked' = [dev |-> d, offs |-> o, len |-> n, data |-> <<>>, sect |-> 0, beg |-> 1, end |-> end]
      /\ answer' = Nothing
  BY DEF Read, opening
<1>2. DevTyped' /\ (\A e \in Devices : DevInv(e)')
  <2>1. DevTyped'
    BY <1>1 DEF DevTyped
  <2> QED BY <1>1, <2>1, DevFrame
<1>3. kind[d] # "none" /\ (kind[d] = "dmg" => table[d] = Sections(image[d]) /\ DmgWhole(image[d]))
  BY <1>1, Files DEF DevInv, PhaseInv, TableInv, WholeFile
<1>4. end \in Nat /\ (kind[d] = "dmg" => end = Len(Sections(image[d])) /\ end \in Nat)
  BY <1>3 DEF DmgWhole
<1> HIDE DEF end
<1>5. /\ asked' \in T /\ asked'.dev = d /\ asked'.offs = o /\ asked'.len = n /\ asked'.data = <<>>
      /\ asked'.sect = 0 /\ asked'.beg = 1 /\ asked'.end = end
  BY <1>1, <1>4
<1>6. kind[d] = "dmg" => SectInv(Sections(image[d]), image[d].size)'
  <2>1. SUFFICES ASSUME kind[d] = "dmg" PROVE SectInv(Sections(image[d]), image[d].size)'
    OBVIOUS
  <2> DEFINE t == Sections(image[d])
             size == image[d].size
  <2>2. t' = t /\ end = Len(t) /\ end \in Nat /\ size' = size
    BY <1>1, <1>4, <2>1
  <2> HIDE DEF t, size
  <2>3. SectInv(t, size)'
    BY <1>5, <2>2 DEF SectInv
  <2> QED BY <2>3 DEF t, size
<1>7. Plausible(o, <<>>) /\ Right(d, o, <<>>)'
  BY DEF Plausible, Right
<1>8. Right(d, asked.offs, asked.data)'
  BY <1>5 DEF Right
<1>9. AskOf(d)'
  <2>1. Len(asked'.data) = 0 /\ 0 <= asked'.len
    BY <1>5
  <2> QED BY <1>1, <1>3, <1>5, <1>6, <1>7, <1>8, <2>1 DEF AskOf, Running
<1> QED BY <1>1, <1>2, <1>5, <1>9 DEF AskInv

(* What is known of a disk stays.                                           *)
LEMMA LostFrame ==
  ASSUME UNCHANGED <<image, key, call>>, NEW d \in Devices
  PROVE  /\ Lost(d)' = Lost(d) /\ Strays(d)' = Strays(d) /\ Meant(d)' = Meant(d)
         /\ HasMap(d)' = HasMap(d) /\ Odd(d)' = Odd(d) /\ Given' = Given
<1>1. /\ HasMap(d)' = HasMap(d) /\ HasGap(d)' = HasGap(d) /\ Meant(d)' = Meant(d)
      /\ Odd(d)' = Odd(d) /\ Given' = Given
  BY DEF HasMap, HasGap, Meant, Entries, APFSEntries, FirstSector, Odd, Given
<1>2. Lost(d)' = Lost(d)
  BY <1>1 DEF Lost
<1> QED BY <1>1, <1>2 DEF Strays

LEMMA InsideFrame ==
  ASSUME MainInv, UNCHANGED <<image, kind, key, failed>>,
         \A d \in Devices : ReadInside(d)' => ReadInside(d)
  PROVE  InsideInv'
<1>1. \A d \in Devices : Sound(d)' = Sound(d)
  BY SameDisk
<1> QED BY <1>1 DEF MainInv, InsideInv

(* Main waits for a Read in some places only.                               *)
LEMMA Idle ==
  ASSUME IInv, pc \notin Waiting
  PROVE  asked = Nothing
BY DEF IInv, ReadInv, Awaited, Waiting

LEMMA GivenFacts ==
  ASSUME MainTyped
  PROVE  /\ Main \in Given /\ Given \subseteq Devices /\ Tier2 \in Devices /\ Main # Tier2
         /\ Devices = {Main, Tier2} /\ call \in Calls /\ call.fusion \in BOOLEAN
         /\ call.offset \in Nat /\ call.blksize \in Nat \ {0} /\ Block \in Nat \ {0}
         /\ BigSector \in Nat \ {0} /\ call.part \in Nat \cup {NoPartition}
         /\ Given = IF call.fusion THEN {Main, Tier2} ELSE {Main}
BY MountAssumption DEF MainTyped, Given

LEMMA StillDevices ==
  ASSUME IInv, UNCHANGED devVars, asked = Nothing
  PROVE  /\ DevTyped' /\ (\A d \in Devices : DevInv(d)') /\ AskInv'
         /\ UNCHANGED <<image, phase, kind, key, failed, table, next, node, cache, asked, answer>>
<1>1. UNCHANGED <<image, phase, kind, key, failed, table, next, node, cache, asked, answer>>
  BY DEF devVars, opening
<1>2. DevTyped'
  BY <1>1 DEF IInv, DevTyped
<1>3. \A d \in Devices : DevInv(d)'
  BY <1>1, DevFrame DEF IInv
<1>4. AskInv'
  BY <1>1 DEF AskInv
<1> QED BY <1>1, <1>2, <1>3, <1>4

LEMMA ParseKeeps ==
  ASSUME IInv, ParseOptions
  PROVE  IInv'
<1>1. /\ pc = "args" /\ pc' = "main" /\ part' = call.part
      /\ start' = [start EXCEPT ![Main] = call.offset]
      /\ UNCHANGED devVars /\ UNCHANGED <<call, gptDev, sector, paddr>> /\ asked = Nothing
  BY Idle DEF ParseOptions, Waiting
<1>2. /\ DevTyped' /\ (\A d \in Devices : DevInv(d)') /\ AskInv'
      /\ UNCHANGED <<image, phase, kind, key, failed, asked, answer>>
  BY <1>1, StillDevices
<1>3. MainTyped /\ OpenedInv /\ StartInv /\ MainInv
  BY DEF IInv, MainInv
<1>4. call.offset \in Nat /\ Main # Tier2 /\ Devices = {Main, Tier2}
  BY <1>3, GivenFacts
<1>5. MainTyped'
  BY <1>1, <1>3, <1>4 DEF MainTyped
<1>6. OpenedInv'
  BY <1>1, <1>2, <1>3 DEF OpenedInv, MapSteps, Later
<1>7. StartInv'
  BY <1>1, <1>3, <1>4 DEF StartInv, MapSteps, Later, MainTyped
<1>8. MapInv' /\ FoundInv' /\ ReadInv'
  BY <1>1, <1>2 DEF MapInv, MapOf, FoundInv, ReadInv, Waiting
<1>9. InsideInv'
  BY <1>1, <1>2, <1>3, InsideFrame DEF ReadInside
<1> QED BY <1>2, <1>5, <1>6, <1>7, <1>8, <1>9 DEF IInv, MainInv

LEMMA OpenStepKeeps ==
  ASSUME IInv, OpenMain \/ OpenTier2
  PROVE  IInv'
<1>1. /\ pc \in {"main", "tier2"} /\ pc' \in {"tier2", "devices"}
      /\ UNCHANGED <<call, gptDev, sector, part, start, paddr>> /\ asked = Nothing
      /\ \E d \in Devices : OpenDevice(d)
  BY Idle, GivenFacts DEF OpenMain, OpenTier2, Waiting, Continue, IInv, MainInv, MainTyped
<1>2. PICK d \in Devices : OpenDevice(d)
  BY <1>1
<1>3. MainTyped /\ OpenedInv /\ StartInv /\ MainInv /\ DevTyped /\ \A e \in Devices : DevInv(e)
  BY DEF IInv, MainInv
<1>4. /\ UNCHANGED <<image, kind, key, failed, table, next, node, cache, asked, answer>>
      /\ \A e \in Devices \ {d} : phase'[e] = phase[e]
      /\ phase[d] = "closed" /\ phase'[d] # "closed"
  BY <1>2, <1>3 DEF OpenDevice, Goto, DevTyped
<1>5. kind[d] = "none"
  BY <1>1, <1>3, <1>4 DEF OpenedInv
<1>6. DevTyped' /\ \A e \in Devices : DevInv(e)'
  <2>1. DevTyped' /\ DevInv(d)'
    BY <1>2, <1>3, <1>5, OpenDeviceKeeps
  <2>2. \A e \in Devices \ {d} : DevInv(e)'
    BY <1>3, <1>4, DevFrame
  <2> QED BY <2>1, <2>2
<1>7. AskInv'
  BY <1>1, <1>4 DEF AskInv
<1>8. MainTyped'
  BY <1>1, <1>3 DEF MainTyped
<1>9. OpenedInv'
  BY <1>1, <1>3, <1>4 DEF OpenedInv, MapSteps, Later
<1>10. StartInv'
  BY <1>1, <1>3 DEF StartInv, MapSteps, Later
<1>11. MapInv' /\ FoundInv' /\ ReadInv'
  BY <1>1, <1>4 DEF MapInv, MapOf, FoundInv, ReadInv, Waiting
<1>12. InsideInv'
  BY <1>1, <1>3, <1>4, InsideFrame DEF ReadInside
<1> QED BY <1>6, <1>7, <1>8, <1>9, <1>10, <1>11, <1>12 DEF IInv, MainInv

(* A program returns.                                                       *)
LEMMA ExitKeeps ==
  ASSUME IInv, UNCHANGED devVars, asked = Nothing, pc' = "exit",
         UNCHANGED <<call, gptDev, sector, part, start, paddr>>
  PROVE  IInv'
<1>1. /\ DevTyped' /\ (\A d \in Devices : DevInv(d)') /\ AskInv'
      /\ UNCHANGED <<image, phase, kind, key, failed, asked, answer>>
  BY StillDevices
<1>2. MainTyped /\ MainInv
  BY DEF IInv, MainInv
<1>3. MainTyped' /\ OpenedInv' /\ StartInv' /\ MapInv' /\ FoundInv' /\ ReadInv'
  BY <1>1, <1>2 DEF MainTyped, OpenedInv, StartInv, MapInv, MapOf, FoundInv, ReadInv, MapSteps, Later, Waiting
<1>4. InsideInv'
  BY DEF InsideInv, ReadInside
<1> QED BY <1>1, <1>3, <1>4 DEF IInv, MainInv

LEMMA DevicesKeeps ==
  ASSUME IInv, NoDevice \/ CheckDevices
  PROVE  IInv'
<1>1. pc = "devices" /\ UNCHANGED devVars /\ asked = Nothing
  BY Idle DEF NoDevice, CheckDevices, Waiting
<1>2. CASE pc' = "exit"
  BY <1>1, <1>2, ExitKeeps DEF NoDevice, CheckDevices, Exit, Continue
<1>3. CASE pc' # "exit"
  <2>1. /\ CheckDevices /\ Opened /\ UNCHANGED <<call, sector, part, start, paddr>>
        /\ \/ start[Main] = 0 /\ pc' = "gpt" /\ gptDev' = gptDev
           \/ start[Main] # 0 /\ call.fusion /\ pc' = "gpt" /\ gptDev' = Tier2
           \/ start[Main] # 0 /\ ~call.fusion /\ pc' = "container" /\ gptDev' = gptDev
    BY <1>3 DEF NoDevice, CheckDevices, Exit, Continue
  <2>2. /\ DevTyped' /\ (\A d \in Devices : DevInv(d)') /\ AskInv'
        /\ UNCHANGED <<image, phase, kind, key, failed, asked, answer>>
    BY <1>1, StillDevices
  <2>3. MainTyped /\ OpenedInv /\ StartInv /\ MainInv /\ \A d \in Devices : DevInv(d)
    BY DEF IInv, MainInv
  <2>4. /\ Main \in Given /\ Given \subseteq Devices /\ Tier2 \in Devices /\ Main # Tier2
        /\ Devices = {Main, Tier2} /\ call.fusion \in BOOLEAN
        /\ Given = (IF call.fusion THEN {Main, Tier2} ELSE {Main}) /\ Given' = Given
    BY <2>1, <2>3, GivenFacts DEF Given
  <2>5. \A d \in Given : kind[d] # "none"
    BY <2>1, <2>3, <2>4 DEF Opened, DevInv, PhaseInv
  <2>6. MainTyped'
    BY <2>1, <2>3, <2>4 DEF MainTyped, MapSteps, Later
  <2>7. OpenedInv'
    BY <1>1, <2>2, <2>3, <2>4, <2>5 DEF OpenedInv
  <2>8. start[Main] # 0 => Located(Main)'
    BY <1>1, <2>1, <2>3 DEF StartInv, Located, Meant
  <2>9. StartInv'
    BY <1>1, <2>1, <2>3, <2>4, <2>8 DEF StartInv, MapSteps, Later
  <2>10. MapInv' /\ FoundInv' /\ ReadInv'
    BY <2>1, <2>2, <1>1 DEF MapInv, MapOf, FoundInv, ReadInv, Waiting
  <2>11. InsideInv'
    BY <1>1, <2>2, <2>3, InsideFrame DEF ReadInside
  <2> QED BY <2>2, <2>6, <2>7, <2>9, <2>10, <2>11 DEF IInv, MainInv
<1> QED BY <1>2, <1>3

(* What was read of the header and the map of a device that is not lost.    *)
LEMMA Answered ==
  ASSUME IInv, pc \in {"header", "map"}, Got, NEW d \in Devices, d = gptDev, ~Lost(d), HasMap(d),
         image[d].gpt.sector = sector, pc = "header" => sector \in {call.blksize, BigSector}
  PROVE  /\ pc = "header" => Signature
         /\ pc = "map" => answer.data = <<2 * sector>>
<1> DEFINE f == image[d]
<1>1. /\ DevTyped /\ DevInv(d) /\ MainTyped /\ d \in Given /\ kind[d] # "none"
      /\ pc \in MapSteps /\ sector \in Nat
  BY DEF IInv, MainInv, StartInv, OpenedInv, MapSteps, MainTyped
<1>2. PICK o \in Nat, n \in Nat : Awaited(d, o, n) /\ Delivered(d, o, n, answer)
  BY DEF IInv, ReadInv, Got, Waiting, Awaited
<1>3. Sound(d) /\ (kind[d] = "rawdmg" => ~failed[d])
  <2>1. Sound(d)
    BY <1>1, NotLost
  <2> QED BY <2>1 DEF IInv, MainInv, InsideInv, ReadInside
<1>4. /\ MapWhole(f) /\ 2 * BigSector <= f.size /\ 2 * call.blksize <= f.size
      /\ call.blksize \in Nat \ {0} /\ BigSector \in Nat \ {0} /\ f.size \in Nat
  <2>1. f.form # "absent"
    BY <1>3 DEF Sound
  <2>2. f \in {s[d] : s \in Setups} /\ FileTyped(f)
    BY <1>1, Files DEF DevTyped, WholeFile
  <2> QED BY <1>1, <2>1, <2>2, MountAssumption DEF MainTyped, FileTyped
<1>5. f.gpt # Nothing /\ Kept(f, sector) /\ Kept(f, 2 * sector)
  BY <1>4 DEF MapWhole, HasMap
<1>6. CASE pc = "header"
  <2>1. o = sector /\ n = sector
    BY <1>2, <1>6 DEF Awaited
  <2>2. n \in Nat \ {0} /\ o + n <= f.size
    <3> HIDE DEF f
    <3> QED BY <1>1, <1>4, <1>6, <2>1
  <2>3. answer.data # <<>> /\ answer.data[1] = sector
    BY <1>1, <1>2, <1>3, <1>5, <2>1, <2>2, WholeRead
  <2> QED BY <1>5, <1>6, <2>3 DEF Signature
<1>7. CASE pc = "map"
  <2>1. o = 2 * sector /\ n = 1
    BY <1>2, <1>7 DEF Awaited, MapSectors
  <2>2. o < f.size
    BY <1>1, <1>2, <1>3, <1>5, <2>1, KeptFacts
  <2>3. n \in Nat \ {0} /\ o + n <= f.size
    <3> HIDE DEF f
    <3> QED BY <1>2, <1>4, <2>1, <2>2
  <2>4. answer.data = <<o>>
    BY <1>1, <1>2, <1>3, <1>5, <2>1, <2>3, WholeRead
  <2> QED BY <1>7, <2>1, <2>4
<1> QED BY <1>6, <1>7

(* The header and the map are read.                                         *)
LEMMA MapReadKeeps ==
  ASSUME IInv, ReadHeader \/ RetryHeader \/ ReadMap
  PROVE  IInv'
<1>1. /\ MainTyped /\ OpenedInv /\ StartInv /\ MapInv /\ MainInv /\ DevTyped
      /\ \A e \in Devices : DevInv(e)
  BY DEF IInv, MainInv
<1>2. PICK d \in Devices : d = gptDev
  BY <1>1 DEF MainTyped
<1>3. call.blksize \in Nat \ {0} /\ BigSector \in Nat \ {0} /\ sector \in Nat
  BY <1>1, GivenFacts DEF MainTyped
<1>4. /\ UNCHANGED <<call, gptDev, part, start, paddr>>
      /\ pc \in {"gpt", "header"} /\ pc' \in {"header", "map"}
      /\ \E o, n \in Nat \ {0} :
           /\ Read(d, o, n)
           /\ \/ pc' = "header" /\ o = sector' /\ n = sector' /\ sector' \in Nat
              \/ pc' = "map" /\ o = 2 * sector' /\ n = MapSectors /\ sector' = sector
  <2>1. CASE ReadHeader
    BY <1>2, <1>3, <2>1 DEF ReadHeader
  <2>2. CASE RetryHeader
    BY <1>2, <1>3, <2>2 DEF RetryHeader
  <2>3. CASE ReadMap
    <3>1. sector \in Nat \ {0}
      <4>1. image[d].gpt.sector = sector /\ image[d].gpt # Nothing
        BY <1>2, <2>3 DEF ReadMap, Signature
      <4>2. image[d] \in {s[d] : s \in Setups}
        BY <1>1 DEF DevTyped
      <4>3. MapWhole(image[d])
        BY <4>2, MountAssumption
      <4> QED BY <4>1, <4>3 DEF MapWhole
    <3>2. 2 * sector \in Nat \ {0} /\ MapSectors \in Nat \ {0}
      BY <3>1 DEF MapSectors
    <3> QED BY <1>2, <2>3, <3>2 DEF ReadMap
  <2> QED BY <2>1, <2>2, <2>3
<1>5. PICK o \in Nat \ {0}, n \in Nat \ {0} :
           /\ Read(d, o, n)
           /\ \/ pc' = "header" /\ o = sector' /\ n = sector' /\ sector' \in Nat
              \/ pc' = "map" /\ o = 2 * sector' /\ n = MapSectors /\ sector' = sector
  BY <1>4
<1>6. /\ DevTyped' /\ (\A e \in Devices : DevInv(e)') /\ AskInv'
      /\ asked'.dev = d /\ asked'.offs = o /\ asked'.len = n
      /\ answer' = Nothing /\ UNCHANGED <<image, phase, kind, key, failed>>
  BY <1>1, <1>5, ReadKeeps
<1>7. ReadInv'
  BY <1>2, <1>4, <1>5, <1>6 DEF ReadInv, Awaited
<1>8. MainTyped' /\ OpenedInv'
  BY <1>1, <1>3, <1>4, <1>5, <1>6 DEF MainTyped, OpenedInv, MapSteps, Given
<1>9. /\ \A e \in Devices : /\ Lost(e)' = Lost(e) /\ Strays(e)' = Strays(e)
                             /\ Meant(e)' = Meant(e) /\ HasMap(e)' = HasMap(e)
      /\ Given' = Given
  BY <1>4, <1>6, LostFrame, MountAssumption
<1>10. Main \in Devices /\ Tier2 \in Devices
  BY MountAssumption
<1>11. StartInv'
  BY <1>1, <1>4, <1>9, <1>10 DEF StartInv, MapSteps, Later, Located
<1>12. MapInv'
  <2>1. SUFFICES MapOf(d)'
    BY <1>2, <1>4 DEF MapInv
  <2>2. MapOf(d)
    BY <1>1, <1>2 DEF MapInv
  <2>3. CASE ReadHeader
    BY <2>3 DEF ReadHeader, MapOf
  <2>4. CASE RetryHeader
    <3>1. /\ pc = "header" /\ pc' = "header" /\ Got /\ ~Signature /\ sector # BigSector
          /\ sector' = BigSector
      BY <2>4 DEF RetryHeader
    <3>2. sector = call.blksize
      BY <2>2, <3>1 DEF MapOf
    <3>3. ~HasMap(d) \/ image[d].gpt.sector # call.blksize \/ Lost(d)
      BY <1>2, <3>1, <3>2, Answered
    <3> QED BY <1>4, <1>6, <1>9, <3>1, <3>3 DEF MapOf
  <2>5. CASE ReadMap
    BY <1>2, <1>4, <1>6, <1>9, <2>5 DEF ReadMap, MapOf, Signature, HasMap
  <2> QED BY <2>3, <2>4, <2>5
<1>13. InsideInv'
  BY <1>1, <1>4, <1>6, InsideFrame DEF ReadInside
<1>14. FoundInv'
  BY <1>4 DEF FoundInv
<1> QED BY <1>6, <1>7, <1>8, <1>11, <1>12, <1>13, <1>14 DEF IInv, MainInv

(* The search for a partition map on a device ends.                         *)
LEMMA ProceedKeeps ==
  ASSUME IInv, pc \in {"header", "map"}, asked = Nothing, UNCHANGED devVars,
         UNCHANGED <<call, sector, paddr>>, Proceed, NEW d \in Devices, d = gptDev,
         start' \in [Devices -> Nat], \A e \in Devices \ {d} : start'[e] = start[e], Located(d)'
  PROVE  IInv'
<1>1. /\ MainTyped /\ OpenedInv /\ StartInv /\ MapInv /\ MainInv
  BY DEF IInv, MainInv
<1>2. /\ DevTyped' /\ (\A e \in Devices : DevInv(e)') /\ AskInv'
      /\ UNCHANGED <<image, phase, kind, key, failed, asked, answer>>
  BY StillDevices
<1>3. /\ \A e \in Devices : Strays(e)' = Strays(e) /\ Meant(e)' = Meant(e)
      /\ Given' = Given
  BY <1>2, LostFrame, MountAssumption
<1>4. /\ Main \in Given /\ Tier2 \in Devices /\ Main # Tier2 /\ Devices = {Main, Tier2}
      /\ Given = (IF call.fusion THEN {Main, Tier2} ELSE {Main})
  BY <1>1, GivenFacts
<1>5. \/ gptDev = Main /\ call.fusion /\ pc' = "gpt" /\ gptDev' = Tier2
      \/ ~(gptDev = Main /\ call.fusion) /\ pc' = "container" /\ gptDev' = gptDev
  BY DEF Proceed
<1>6. MainTyped' /\ OpenedInv'
  BY <1>1, <1>2, <1>3, <1>4, <1>5 DEF MainTyped, OpenedInv, MapSteps, Later
<1>7. \A e \in Devices \ {d} : Located(e) => Located(e)'
  BY <1>3 DEF Located
<1>8. gptDev \in Given /\ start[Tier2] = 0 /\ (gptDev = Tier2 => Located(Main))
  BY <1>1 DEF StartInv, MapSteps
<1>9. StartInv'
  <2>1. CASE pc' = "gpt"
    BY <1>3, <1>4, <1>5, <1>8, <2>1 DEF StartInv, MapSteps, Later
  <2>2. CASE pc' = "container"
    <3>1. \A e \in Given : Located(e)'
      BY <1>4, <1>5, <1>7, <1>8, <2>2
    <3> QED BY <1>3, <2>2, <3>1 DEF StartInv, MapSteps, Later
  <2> QED BY <1>5, <2>1, <2>2
<1>10. MapInv' /\ FoundInv' /\ ReadInv'
  BY <1>2, <1>5 DEF MapInv, MapOf, FoundInv, ReadInv, Waiting
<1>11. InsideInv'
  BY <1>1, <1>2, <1>5, InsideFrame DEF ReadInside
<1> QED BY <1>2, <1>6, <1>9, <1>10, <1>11 DEF IInv, MainInv

(* No map that is good is left out.                                         *)
LEMMA NoGptKeeps ==
  ASSUME IInv, NoGpt
  PROVE  IInv'
<1>1. /\ MainTyped /\ StartInv /\ MapInv
  BY DEF IInv, MainInv
<1>2. /\ pc \in {"header", "map"} /\ Got /\ asked = Nothing /\ Proceed
      /\ UNCHANGED devVars /\ UNCHANGED <<call, sector, paddr, start>>
  BY DEF NoGpt, Got
<1>3. PICK d \in Devices : d = gptDev
  BY <1>1 DEF MainTyped
<1>4. start[d] = 0 /\ (d = Main => call.offset = 0)
  BY <1>1, <1>2, <1>3, MountAssumption DEF StartInv, MapSteps
<1>5. Lost(d) \/ ~HasMap(d)
  <2>1. SUFFICES ASSUME ~Lost(d), HasMap(d) PROVE FALSE
    OBVIOUS
  <2>2. image[d].gpt.sector \in {call.blksize, BigSector} /\ MapOf(d) /\ image[d].gpt.good
    BY <1>1, <1>3, <2>1 DEF Lost, MapInv, HasMap
  <2>3. CASE pc = "header" /\ ~Signature /\ sector = BigSector
    <3>1. sector \in {call.blksize, BigSector}
      BY <2>3
    <3>2. image[d].gpt.sector # sector
      BY <1>2, <1>3, <2>1, <2>3, <3>1, Answered
    <3> QED BY <2>1, <2>2, <2>3, <3>2 DEF MapOf
  <2>4. CASE pc = "header" /\ Signature /\ ~image[gptDev].gpt.good
    BY <1>3, <2>2, <2>4
  <2>5. CASE pc = "map" /\ answer.data # <<2 * sector>>
    <3>1. image[d].gpt.sector = sector
      BY <2>2, <2>5 DEF MapOf
    <3> QED BY <1>2, <1>3, <2>1, <2>5, <3>1, Answered
  <2> QED BY <2>3, <2>4, <2>5 DEF NoGpt
<1>6. Located(d)
  BY <1>4, <1>5 DEF Located, Strays, Meant
<1>7. Located(d)'
  <2>1. UNCHANGED <<image, key>>
    BY <1>2 DEF devVars, opening
  <2>2. Strays(d)' = Strays(d) /\ Meant(d)' = Meant(d)
    BY <1>2, <2>1, LostFrame
  <2> QED BY <1>2, <1>6, <2>2 DEF Located
<1>8. start' \in [Devices -> Nat]
  BY <1>1, <1>2 DEF MainTyped
<1> QED BY <1>2, <1>3, <1>7, <1>8, ProceedKeeps

(* The entries of a map, and the first that holds a container.              *)
LEMMA EntryFacts ==
  ASSUME DevTyped, NEW d \in Devices, HasMap(d)
  PROVE  /\ DOMAIN Entries(d) \subseteq Nat \ {0} /\ image[d].gpt.sector \in Nat
         /\ \A i \in DOMAIN Entries(d) : 1..i \subseteq DOMAIN Entries(d)
         /\ \A i \in DOMAIN Entries(d) :
              Entries(d)[i].first \in Nat /\ (Entries(d)[i].apfs => Entries(d)[i].first > 0)
<1> DEFINE e == Entries(d)
<1>1. MapWhole(image[d])
  <2>1. image[d] \in {s[d] : s \in Setups}
    BY DEF DevTyped
  <2> QED BY <2>1, MountAssumption
<1>2. /\ e \in Seq(Entry) /\ image[d].gpt.sector \in Nat
      /\ \A i \in DOMAIN e : e[i].apfs => e[i].first > 0
  BY <1>1 DEF MapWhole, HasMap, Entries
<1> HIDE DEF e
<1>3. DOMAIN e = 1..Len(e) /\ Len(e) \in Nat /\ \A i \in DOMAIN e : e[i] \in Entry
  BY <1>2
<1>4. \A i \in DOMAIN e : e[i].first \in Nat
  BY <1>3 DEF Entry
<1>5. DOMAIN e \subseteq Nat \ {0} /\ \A i \in DOMAIN e : 1..i \subseteq DOMAIN e
  BY <1>3
<1> QED BY <1>2, <1>4, <1>5 DEF e

LEMMA FirstEntry ==
  ASSUME NEW S \in SUBSET Nat, S # {}
  PROVE  \E i \in S : \A j \in S : i <= j
<1> DEFINE R == OpToRel(<, Nat)
<1>1. PICK i \in S : \A j \in S : ~(<<j, i>> \in R)
  <2>1. IsWellFoundedOn(R, Nat)
    BY NatLessThanWellFounded
  <2> HIDE DEF R
  <2> QED BY <2>1, WFMin
<1>2. \A j \in S : ~(j < i)
  BY <1>1 DEF OpToRel
<1> QED BY <1>2

(* A map without a gap gives the first partition with a container.          *)
LEMMA FirstPartition ==
  ASSUME DevTyped, NEW d \in Devices, HasMap(d), ~HasGap(d), sector = image[d].gpt.sector
  PROVE  LET p == FindFirstAPFSPartition(d) IN
         IF APFSEntries(d) = {} THEN p = NoPartition
         ELSE /\ p \in Nat
              /\ PartitionStart(d, p) =
                   FirstSector(d, CHOOSE i \in APFSEntries(d) : \A j \in APFSEntries(d) : i <= j)
<1> DEFINE e == Entries(d)
           S == APFSEntries(d)
           found == {i \in DOMAIN e : e[i].apfs /\ \A j \in 1..i : ~IsEmpty(e[j])}
           c == CHOOSE i \in S : \A j \in S : i <= j
<1>1. /\ DOMAIN e \subseteq Nat \ {0} /\ \A i \in DOMAIN e : 1..i \subseteq DOMAIN e
      /\ \A i \in DOMAIN e : e[i].apfs => e[i].first > 0
  BY EntryFacts
<1>2. found = S
  <2>1. SUFFICES ASSUME NEW i \in DOMAIN e, e[i].apfs, NEW j \in 1..i PROVE ~IsEmpty(e[j])
    BY DEF APFSEntries
  <2>2. i \in Nat /\ j \in Nat /\ j \in DOMAIN e /\ (j < i \/ j = i)
    BY <1>1
  <2>3. CASE j = i
    <3>1. e[j].first > 0
      BY <1>1, <2>1, <2>3
    <3>2. e[j].first # 0
      BY <3>1
    <3> QED BY <3>2 DEF IsEmpty
  <2>4. CASE j < i
    BY <2>1, <2>2, <2>4 DEF HasGap
  <2> QED BY <2>2, <2>3, <2>4
<1>3. FindFirstAPFSPartition(d) = IF S = {} THEN NoPartition ELSE c - 1
  <2>1. FindFirstAPFSPartition(d) =
          IF found = {} THEN NoPartition ELSE (CHOOSE i \in found : \A j \in found : i <= j) - 1
    BY DEF FindFirstAPFSPartition
  <2> HIDE DEF found, S
  <2> QED BY <1>2, <2>1
<1>4. CASE S = {}
  BY <1>3, <1>4
<1>5. CASE S # {}
  <2>1. S \in SUBSET Nat /\ S \subseteq DOMAIN e
    BY <1>1 DEF APFSEntries
  <2>2. c \in S
    <3>1. \E i \in S : \A j \in S : i <= j
      BY <1>5, <2>1, FirstEntry
    <3> HIDE DEF S
    <3> QED BY <3>1
  <2> HIDE DEF c
  <2>3. c \in DOMAIN e /\ c - 1 \in Nat /\ (c - 1) + 1 = c
    BY <1>1, <2>1, <2>2
  <2>4. PartitionStart(d, c - 1) = FirstSector(d, c)
    BY <2>3 DEF PartitionStart, FirstSector
  <2> HIDE DEF S
  <2> QED BY <1>3, <1>5, <2>3, <2>4 DEF c, S
<1> QED BY <1>4, <1>5

(* The map is used.                                                         *)
LEMMA UseMapKeeps ==
  ASSUME IInv, UseMap
  PROVE  IInv'
<1>1. /\ MainTyped /\ StartInv /\ MapInv /\ DevTyped
  BY DEF IInv, MainInv
<1>2. /\ pc = "map" /\ Got /\ asked = Nothing /\ Proceed
      /\ UNCHANGED devVars /\ UNCHANGED <<call, sector, paddr>>
  BY DEF UseMap, Got
<1>3. PICK d \in Devices : d = gptDev
  BY <1>1 DEF MainTyped
<1>4. start[d] = 0 /\ (d = Main => call.offset = 0 /\ part = call.part)
  BY <1>1, <1>2, <1>3, MountAssumption DEF StartInv, MapSteps
<1>5. HasMap(d) /\ image[d].gpt.sector = sector
  BY <1>1, <1>2, <1>3 DEF MapInv, MapOf
<1>6. call.part \in Nat \cup {NoPartition} /\ sector \in Nat
  BY <1>1, GivenFacts DEF MainTyped
<1> DEFINE p == IF d = Main /\ part # NoPartition THEN part ELSE FindFirstAPFSPartition(d)
           s == PartitionStart(d, p)
<1>7. start' = IF p = NoPartition THEN start ELSE [start EXCEPT ![d] = s]
  BY <1>3 DEF UseMap
<1>8. s \in Nat
  <2>1. p + 1 \in DOMAIN Entries(d) => Entries(d)[p + 1].first \in Nat
    BY <1>1, <1>5, EntryFacts
  <2> HIDE DEF p
  <2> QED BY <1>6, <2>1 DEF PartitionStart
<1>9. Strays(d) \/ (IF p = NoPartition THEN 0 ELSE s) = Meant(d)
  <2>1. SUFFICES ASSUME ~Strays(d) PROVE (IF p = NoPartition THEN 0 ELSE s) = Meant(d)
    OBVIOUS
  <2>2. ~HasGap(d) /\ Meant(d) # NoContainer
    BY <2>1 DEF Strays, Lost
  <2>3. CASE d = Main /\ part # NoPartition
    <3>1. p = call.part /\ p # NoPartition
      BY <1>4, <2>3
    <3>2. Meant(d) = IF call.part + 1 \in DOMAIN Entries(d) THEN FirstSector(d, call.part + 1) ELSE NoContainer
      BY <1>4, <1>5, <2>3 DEF Meant
    <3> QED BY <1>5, <2>2, <3>1, <3>2 DEF PartitionStart, FirstSector
  <2>4. CASE ~(d = Main /\ part # NoPartition)
    <3>1. p = FindFirstAPFSPartition(d)
      BY <2>4
    <3>2. Meant(d) = IF APFSEntries(d) = {} THEN 0
            ELSE FirstSector(d, CHOOSE i \in APFSEntries(d) : \A j \in APFSEntries(d) : i <= j)
      BY <1>4, <1>5, <2>4 DEF Meant
    <3>3. p \in Nat => p # NoPartition
      BY DEF NoPartition
    <3> QED BY <1>1, <1>5, <2>2, <3>1, <3>2, <3>3, FirstPartition
  <2> QED BY <2>3, <2>4
<1> HIDE DEF p, s
<1>10. /\ start' \in [Devices -> Nat] /\ \A e \in Devices \ {d} : start'[e] = start[e]
       /\ start'[d] = IF p = NoPartition THEN 0 ELSE s
  BY <1>1, <1>4, <1>7, <1>8 DEF MainTyped
<1>11. Located(d)'
  <2>1. UNCHANGED <<image, key>>
    BY <1>2 DEF devVars, opening
  <2>2. Strays(d)' = Strays(d) /\ Meant(d)' = Meant(d)
    BY <1>2, <2>1, LostFrame
  <2> QED BY <1>9, <1>10, <2>2 DEF Located
<1> QED BY <1>2, <1>3, <1>10, <1>11, ProceedKeeps

-----------------------------------------------------------------------------
(* The container is looked for, found or given up.                          *)
LEMMA InitKeeps ==
  ASSUME IInv, InitContainer
  PROVE  IInv'
<1>1. /\ MainTyped /\ OpenedInv /\ StartInv /\ MainInv /\ DevTyped /\ \A e \in Devices : DevInv(e)
  BY DEF IInv, MainInv
<1>2. /\ pc = "container" /\ pc' = "superblock" /\ Read(Main, start[Main], Block)
      /\ UNCHANGED <<call, gptDev, sector, part, start, paddr>>
  BY DEF InitContainer, Continue
<1>3. Main \in Devices /\ start[Main] \in Nat /\ Block \in Nat \ {0} /\ Main \in Given
  BY <1>1, GivenFacts DEF MainTyped
<1>4. /\ DevTyped' /\ (\A e \in Devices : DevInv(e)') /\ AskInv'
      /\ asked'.dev = Main /\ asked'.offs = start[Main] /\ asked'.len = Block
      /\ answer' = Nothing /\ UNCHANGED <<image, phase, kind, key, failed>>
  BY <1>1, <1>2, <1>3, ReadKeeps
<1>5. /\ \A e \in Devices : Strays(e)' = Strays(e) /\ Meant(e)' = Meant(e)
      /\ Given' = Given /\ Given \subseteq Devices
  BY <1>1, <1>2, <1>4, LostFrame, GivenFacts
<1>6. MainTyped' /\ OpenedInv'
  BY <1>1, <1>2, <1>4, <1>5 DEF MainTyped, OpenedInv, MapSteps, Later
<1>7. StartInv'
  BY <1>1, <1>2, <1>5 DEF StartInv, MapSteps, Later, Located
<1>8. MapInv' /\ FoundInv'
  BY <1>2 DEF MapInv, MapOf, FoundInv
<1>9. ReadInv'
  BY <1>2, <1>3, <1>4 DEF ReadInv, Awaited
<1>10. InsideInv'
  BY <1>1, <1>2, <1>4, InsideFrame DEF ReadInside
<1> QED BY <1>4, <1>6, <1>7, <1>8, <1>9, <1>10 DEF IInv, MainInv

LEMMA LoadKeeps ==
  ASSUME IInv, LoadContainer
  PROVE  IInv'
<1>1. /\ MainTyped /\ OpenedInv /\ StartInv /\ MainInv /\ DevTyped /\ \A e \in Devices : DevInv(e)
  BY DEF IInv, MainInv
<1>2. /\ pc = "superblock" /\ pc' = "volume" /\ Superblock /\ answer # Nothing
      /\ asked = Nothing /\ asked' = Nothing /\ answer' = Nothing
      /\ UNCHANGED <<call, gptDev, sector, part, start, paddr>>
      /\ UNCHANGED <<image, phase, kind, key, failed, table, next, node, cache>>
  BY DEF LoadContainer, Continue, Got, opening
<1>3. DevTyped' /\ AskInv' /\ ReadInv'
  BY <1>1, <1>2 DEF DevTyped, AskInv, ReadInv, Waiting
<1>4. \A e \in Devices : DevInv(e)'
  BY <1>1, <1>2, DevFrame
<1>5. Main \in Devices /\ start[Main] \in Nat /\ Block \in Nat \ {0} /\ Given \subseteq Devices
  BY <1>1, GivenFacts DEF MainTyped
<1>6. /\ \A e \in Devices : Strays(e)' = Strays(e) /\ Meant(e)' = Meant(e) /\ Odd(e)' = Odd(e)
      /\ Given' = Given
  BY <1>2, <1>5, LostFrame
<1>7. MainTyped' /\ OpenedInv'
  BY <1>1, <1>2, <1>6 DEF MainTyped, OpenedInv, MapSteps, Later
<1>8. StartInv'
  BY <1>1, <1>2, <1>5, <1>6 DEF StartInv, MapSteps, Later, Located
<1>9. FoundInv'
  <2>1. SUFFICES ASSUME ~Odd(Main), ~Misread(Main) PROVE start[Main] = image[Main].container
    BY <1>2, <1>5, <1>6 DEF FoundInv, Misread
  <2>2. Delivered(Main, start[Main], Block, answer)
    BY <1>2 DEF IInv, ReadInv, Waiting, Awaited
  <2>3. /\ answer.data \in Seq(Int) /\ Len(answer.data) = Block
        /\ Plausible(start[Main], answer.data)
    BY <1>2, <2>1, <2>2 DEF Delivered, Superblock
  <2>4. image[Main].container \in Nat
    <3>1. image[Main] \in {s[Main] : s \in Setups}
      BY <1>1 DEF DevTyped
    <3>2. ContainerWhole(image[Main])
      BY <1>5, <3>1, MountAssumption
    <3> QED BY <1>2, <3>2 DEF ContainerWhole, Superblock
  <2>5. 1 \in 1..Len(answer.data) /\ start[Main] + 1 - 1 = start[Main]
    BY <1>5, <2>3
  <2>6. answer.data[1] = start[Main] \/ answer.data[1] < 0
    BY <2>3, <2>5 DEF Plausible
  <2> QED BY <1>2, <2>4, <2>6 DEF Superblock
<1>10. MapInv' /\ InsideInv'
  BY <1>2 DEF MapInv, MapOf, InsideInv, ReadInside
<1> QED BY <1>3, <1>4, <1>7, <1>8, <1>9, <1>10 DEF IInv, MainInv

LEMMA VolumeKeeps ==
  ASSUME IInv, NoSuperblock \/ GetVolume
  PROVE  IInv'
<1>1. /\ pc \in {"superblock", "volume"} /\ UNCHANGED devVars /\ asked = Nothing
      /\ UNCHANGED <<call, gptDev, sector, part, start, paddr>>
      /\ pc' = "exit" \/ (pc = "volume" /\ pc' = "session")
  BY Idle DEF NoSuperblock, GetVolume, Exit, Continue, Got, Waiting
<1>2. CASE pc' = "exit"
  BY <1>1, <1>2, ExitKeeps
<1>3. CASE pc = "volume" /\ pc' = "session"
  <2>1. /\ MainTyped /\ OpenedInv /\ StartInv /\ MainInv /\ FoundInv
    BY DEF IInv, MainInv
  <2>2. /\ DevTyped' /\ (\A d \in Devices : DevInv(d)') /\ AskInv'
        /\ UNCHANGED <<image, phase, kind, key, failed, asked, answer>>
    BY <1>1, StillDevices
  <2>3. /\ \A e \in Devices : Strays(e)' = Strays(e) /\ Meant(e)' = Meant(e) /\ Odd(e)' = Odd(e)
        /\ Given' = Given /\ Given \subseteq Devices /\ Main \in Devices
    BY <1>1, <2>1, <2>2, LostFrame, GivenFacts
  <2>4. MainTyped' /\ OpenedInv'
    BY <1>1, <1>3, <2>1, <2>2, <2>3 DEF MainTyped, OpenedInv, MapSteps, Later
  <2>5. StartInv'
    BY <1>1, <1>3, <2>1, <2>3 DEF StartInv, MapSteps, Later, Located
  <2>6. FoundInv' /\ MapInv' /\ InsideInv'
    BY <1>1, <1>3, <2>1, <2>2, <2>3 DEF FoundInv, Misread, MapInv, MapOf, InsideInv, ReadInside
  <2>7. ReadInv'
    BY <1>1, <1>3, <2>2 DEF IInv, ReadInv
  <2> QED BY <2>2, <2>4, <2>5, <2>6, <2>7 DEF IInv, MainInv
<1> QED BY <1>1, <1>2, <1>3

-----------------------------------------------------------------------------
(* The session: a block is read, and the devices are closed.                *)
LEMMA BlockKeeps ==
  ASSUME IInv, NEW tier2 \in BOOLEAN, NEW p \in Nat, ReadBlock(tier2, p)
  PROVE  IInv'
<1>1. /\ MainTyped /\ OpenedInv /\ StartInv /\ MainInv /\ FoundInv /\ DevTyped
      /\ \A e \in Devices : DevInv(e)
  BY DEF IInv, MainInv
<1> DEFINE D == IF tier2 THEN Tier2 ELSE Main
<1>2. /\ D \in Given /\ D \in Devices /\ Given \subseteq Devices /\ Block \in Nat \ {0}
      /\ Main \in Devices
  BY <1>1, GivenFacts DEF ReadBlock
<1>3. PICK d \in Devices : d = D
  BY <1>2
<1>4. PICK o \in Nat : o = start[d] + Block * p
  <2>1. start[d] \in Nat
    BY <1>1 DEF MainTyped
  <2>2. \A b, k \in Nat : b * k \in Nat
    OBVIOUS
  <2>3. Block * p \in Nat
    BY <1>2, <2>2
  <2> QED BY <2>1, <2>3
<1>5. /\ pc = "session" /\ pc' = "session" /\ Read(d, o, Block) /\ paddr' = p
      /\ UNCHANGED <<call, gptDev, sector, part, start>>
  BY <1>3, <1>4 DEF ReadBlock, BlockAddr, PartStart
<1>6. /\ DevTyped' /\ (\A e \in Devices : DevInv(e)') /\ AskInv'
      /\ asked'.dev = d /\ asked'.offs = o /\ asked'.len = Block
      /\ answer' = Nothing /\ UNCHANGED <<image, phase, kind, key, failed>>
  BY <1>1, <1>2, <1>5, ReadKeeps
<1>7. /\ \A e \in Devices : Strays(e)' = Strays(e) /\ Meant(e)' = Meant(e) /\ Odd(e)' = Odd(e)
      /\ Given' = Given
  BY <1>5, <1>6, LostFrame
<1>8. MainTyped' /\ OpenedInv'
  BY <1>1, <1>5, <1>6, <1>7 DEF MainTyped, OpenedInv, MapSteps, Later
<1>9. StartInv'
  BY <1>1, <1>2, <1>5, <1>7 DEF StartInv, MapSteps, Later, Located
<1>10. FoundInv' /\ MapInv' /\ InsideInv'
  BY <1>1, <1>2, <1>5, <1>6, <1>7 DEF FoundInv, Misread, MapInv, MapOf, InsideInv, ReadInside
<1>11. ReadInv'
  BY <1>2, <1>3, <1>4, <1>5, <1>6, <1>7 DEF ReadInv, Awaited
<1> QED BY <1>6, <1>8, <1>9, <1>10, <1>11 DEF IInv, MainInv

LEMMA UnmountKeeps ==
  ASSUME IInv, Unmount
  PROVE  IInv'
<1>1. /\ MainTyped /\ OpenedInv /\ StartInv /\ MainInv /\ DevTyped /\ \A e \in Devices : DevInv(e)
  BY DEF IInv, MainInv
<1>2. /\ pc' = "exit" /\ asked = Nothing /\ asked' = Nothing /\ answer' = Nothing
      /\ UNCHANGED <<call, gptDev, sector, part, start, paddr>>
      /\ UNCHANGED <<image, kind, key, failed, table, next, node, cache>>
      /\ phase' = [d \in Devices |-> IF phase[d] = "open" THEN "closed" ELSE phase[d]]
  BY DEF Unmount, Exit
<1>3. DevTyped'
  BY <1>1, <1>2 DEF DevTyped, Phases
<1>4. ASSUME NEW d \in Devices PROVE DevInv(d)'
  <2>1. /\ phase'[d] = phase[d] \/ (phase[d] = "open" /\ phase'[d] = "closed")
        /\ phase[d] = "open" => kind[d] # "none"
    BY <1>1, <1>2 DEF DevInv, PhaseInv
  <2>2. PhaseInv(d)' /\ KeyInv(d)'
    BY <1>1, <1>2, <2>1 DEF DevInv, PhaseInv, KeyInv, IsDmg, Clear
  <2>3. TableInv(d)'
    <3>1. Clear(d)' = Clear(d)
      BY <1>2 DEF Clear
    <3> QED BY <1>1, <1>2, <2>1, <3>1 DEF DevInv, TableInv, Indexed
  <2>4. CacheInv(d)' /\ StreamInv(d)'
    BY <1>1, <1>2 DEF DevInv, CacheInv, StreamInv, Sound, Clear, Odd
  <2> QED BY <2>2, <2>3, <2>4 DEF DevInv
<1>5. MainTyped' /\ OpenedInv' /\ StartInv' /\ MapInv' /\ FoundInv' /\ ReadInv' /\ AskInv'
  BY <1>1, <1>2 DEF MainTyped, OpenedInv, StartInv, MapInv, MapOf, FoundInv, ReadInv, AskInv,
     MapSteps, Later, Waiting
<1>6. InsideInv'
  BY <1>2 DEF InsideInv, ReadInside
<1> QED BY <1>3, <1>4, <1>5, <1>6 DEF IInv, MainInv

-----------------------------------------------------------------------------
LEMMA InitInv ==
  ASSUME MountInit
  PROVE  IInv
<1>1. /\ image \in Setups /\ call \in Calls /\ pc = "args" /\ gptDev = Main /\ sector = 0
      /\ start = [d \in Devices |-> 0] /\ paddr = 0
      /\ phase = [d \in Devices |-> "closed"] /\ kind = [d \in Devices |-> "none"]
      /\ key = [d \in Devices |-> "none"] /\ failed = [d \in Devices |-> FALSE]
      /\ table = [d \in Devices |-> Nothing] /\ next = [d \in Devices |-> 0]
      /\ node = [d \in Devices |-> Nothing] /\ cache = [d \in Devices |-> NoCache]
      /\ asked = Nothing /\ answer = Nothing
  BY DEF MountInit, Init
<1>2. DevTyped
  BY <1>1 DEF DevTyped, Phases, Kinds
<1>3. \A d \in Devices : DevInv(d)
  BY <1>1 DEF DevInv, PhaseInv, KeyInv, TableInv, CacheInv, StreamInv
<1>4. MainTyped /\ OpenedInv
  BY <1>1, MountAssumption DEF MainTyped, OpenedInv, MapSteps, Later
<1>5. StartInv /\ MapInv /\ FoundInv /\ AskInv /\ ReadInv
  BY <1>1 DEF StartInv, MapInv, MapOf, FoundInv, AskInv, ReadInv, Waiting, MapSteps, Later
<1>6. InsideInv
  BY <1>1 DEF InsideInv
<1> QED BY <1>2, <1>3, <1>4, <1>5, <1>6 DEF IInv, MainInv

LEMMA Stuttering ==
  ASSUME IInv, UNCHANGED vars
  PROVE  IInv'
<1>1. /\ UNCHANGED main /\ UNCHANGED <<call, pc, gptDev, sector, part, start, paddr>>
      /\ UNCHANGED <<image, phase, kind, key, failed, table, next, node, cache, asked, answer>>
  BY DEF vars, main, devVars, opening
<1>2. DevTyped'
  BY <1>1 DEF IInv, DevTyped
<1>3. \A d \in Devices : DevInv(d)'
  BY <1>1, DevFrame DEF IInv
<1>4. MainInv'
  <2>1. InsideInv'
    BY <1>1, InsideFrame DEF IInv, ReadInside
  <2> QED BY <1>1, <2>1, MainFrame DEF IInv
<1>5. ASSUME NEW d \in Devices, AskOf(d) PROVE AskOf(d)'
  <2>1. Odd(d)' = Odd(d) /\ Contents(d)' = Contents(d)
    BY <1>1 DEF Odd, Contents
  <2>2. Broken(d)' = Broken(d)
    BY <1>1, <2>1 DEF Broken
  <2>3. Right(d, asked.offs, asked.data)' = Right(d, asked.offs, asked.data)
    BY <1>1, <2>1 DEF Right
  <2>4. SectInv(Sections(image[d]), image[d].size)' = SectInv(Sections(image[d]), image[d].size)
    BY <1>1 DEF SectInv, Left, Offs
  <2> QED BY <1>1, <1>5, <2>1, <2>2, <2>3, <2>4 DEF AskOf
<1>6. AskInv'
  BY <1>1, <1>5 DEF IInv, AskInv
<1>7. ReadInv'
  <2>1. \A d, o, n : Awaited(d, o, n) => Awaited(d, o, n)'
    BY <1>1 DEF Awaited, Given
  <2>2. \A d \in Devices, o, n \in Nat : Delivered(d, o, n, answer) => Delivered(d, o, n, answer)'
    BY <1>1, DeliveredFrame
  <2> QED BY <1>1, <2>1, <2>2 DEF IInv, ReadInv
<1> QED BY <1>2, <1>3, <1>4, <1>6, <1>7 DEF IInv

LEMMA StepInv ==
  ASSUME IInv, [Next]_vars
  PROVE  IInv'
<1>1. CASE Starting
  BY <1>1, ParseKeeps, OpenStepKeeps, DevicesKeeps, MapReadKeeps, NoGptKeeps, UseMapKeeps,
     InitKeeps, LoadKeeps, VolumeKeeps DEF Starting
<1>2. CASE DeviceStep
  <2>1. CASE \E d \in Devices : Opening(d)
    BY <1>2, <2>1, OpeningStepKeeps DEF DeviceStep
  <2>2. CASE Serving
    <3>1. ServeInv /\ MainInv
      BY DEF IInv, ServeInv
    <3>2. UNCHANGED main
      BY <1>2 DEF DeviceStep
    <3>3. ServeInv' /\ MainInv'
      BY <2>2, <3>1, <3>2, ServingKeeps
    <3> QED BY <3>3 DEF IInv, ServeInv
  <2> QED BY <1>2, <2>1, <2>2 DEF DeviceStep
<1>3. CASE \E tier2 \in BOOLEAN : \E p \in 0..MaxPaddr : ReadBlock(tier2, p)
  <2>1. PICK tier2 \in BOOLEAN, p \in 0..MaxPaddr : ReadBlock(tier2, p)
    BY <1>3
  <2>2. p \in Nat
    BY MountAssumption
  <2> QED BY <2>1, <2>2, BlockKeeps
<1>4. CASE Unmount
  BY <1>4, UnmountKeeps
<1>5. CASE UNCHANGED vars
  BY <1>5, Stuttering
<1> QED BY <1>1, <1>2, <1>3, <1>4, <1>5 DEF Next

(* The invariant holds in every state of every program on every disk.       *)
THEOREM Invariance == Spec => []IInv
<1>1. MountInit => IInv
  BY InitInv
<1>2. IInv /\ [Next]_vars => IInv'
  BY StepInv
<1> QED BY <1>1, <1>2, PTL DEF Spec

-----------------------------------------------------------------------------
(* The partition map of a disk is not written to.                           *)
LEMMA ImagesStay ==
  ASSUME [Next]_vars
  PROVE  image' = image
<1>1. CASE DeviceStep
  BY <1>1 DEF DeviceStep, Opening, OpenRaw, NoSignature, SetupEncryption, KeysUnread, TakeRaw,
         LoadSections, NotSparse, LoadHeader, LoadIndex, IndexUnread, IndexLoaded,
         Serving, ReadLinux, ReadRawDmg, SearchSection, NoSection, NoMoreSections, SectionRaw,
         SectionZero, SectionUnknown, FillCache, SectionCached, ReadBand, NoSuchBand, ReadDone,
         opening, UnchangedButStream
<1>2. CASE Starting
  BY <1>2 DEF Starting, ParseOptions, OpenMain, OpenTier2, OpenDevice, NoDevice, CheckDevices,
         ReadHeader, RetryHeader, ReadMap, NoGpt, UseMap, InitContainer, NoSuperblock,
         LoadContainer, GetVolume, Read, devVars, opening
<1>3. CASE \E tier2 \in BOOLEAN : \E p \in 0..MaxPaddr : ReadBlock(tier2, p)
  BY <1>3 DEF ReadBlock, Read, opening
<1>4. CASE Unmount \/ UNCHANGED vars
  BY <1>4 DEF Unmount, vars, devVars, opening
<1> QED BY <1>1, <1>2, <1>3, <1>4 DEF Next

LEMMA NoGapStays ==
  ASSUME NEW d \in Devices, [Next]_vars, ~HasGap(d)
  PROVE  ~HasGap(d)'
<1>1. image' = image
  BY ImagesStay
<1> QED BY <1>1 DEF HasGap, HasMap, Entries

(* The blocks that ApfsContainer::ReadBlocks delivers are those of the        *)
(* container: no nesting of image, encryption, partition map and offset, and  *)
(* no sequence of reads, shifts them.  That takes a map of tier 2 without a   *)
(* gap; the container of the main device was seen in its superblock.          *)
LEMMA BlocksFollow ==
  ASSUME IInv, ~HasGap(Tier2)
  PROVE  BlocksRight
<1>1. SUFFICES ASSUME pc = "session", answer # Nothing, answer.ok, ~Broken(answer.dev),
                      ~(IF answer.dev = Main THEN Misread(Main) ELSE Lost(answer.dev))
               PROVE  RightBlock(answer.dev)
  BY DEF BlocksRight
<1>2. PICK d \in Devices, o \in Nat, n \in Nat :
        answer.dev = d /\ Awaited(d, o, n) /\ Delivered(d, o, n, answer)
  BY <1>1 DEF IInv, ReadInv, Waiting
<1>3. d \in Given /\ o = start[d] + Block * paddr /\ n = Block
  BY <1>1, <1>2 DEF Awaited
<1>4. start[d] = image[d].container
  <2>1. CASE d = Main
    BY <1>1, <1>2, <2>1 DEF IInv, MainInv, FoundInv, Broken
  <2>2. CASE d # Main
    <3>1. d = Tier2
      BY <2>2, GivenFacts DEF IInv, MainInv
    <3>2. Located(d)
      BY <1>1, <1>3 DEF IInv, MainInv, StartInv, Later
    <3>3. ~Strays(d)
      BY <1>1, <1>2, <2>2, <3>1 DEF Strays
    <3> QED BY <3>2, <3>3 DEF Located, Strays, Lost
  <2> QED BY <2>1, <2>2
<1>5. answer.data \in Seq(Int) /\ Len(answer.data) = Block /\ Right(d, o, answer.data)
  BY <1>1, <1>2, <1>3 DEF Delivered
<1>6. o = image[d].container + Block * paddr
  BY <1>3, <1>4
<1> QED BY <1>2, <1>5, <1>6 DEF RightBlock, Right

THEOREM RightBlocks == Spec /\ ~HasGap(Tier2) => []BlocksRight
<1>1. IInv /\ ~HasGap(Tier2) => BlocksRight
  BY BlocksFollow
<1>2. ~HasGap(Tier2) /\ [Next]_vars => ~HasGap(Tier2)'
  BY NoGapStays, MountAssumption
<1> QED BY <1>1, <1>2, Invariance, PTL DEF Spec

-----------------------------------------------------------------------------
(* A container that is not lost is on the disk.                             *)
LEMMA ContainerKept ==
  ASSUME DevTyped, NEW d \in Devices, DevInv(d), kind[d] # "none", Sound(d),
         image[d].container # NoContainer
  PROVE  /\ image[d].container \in Nat
         /\ image[d].container + Block <= image[d].size
         /\ \A i \in 1..Block : Kept(image[d], image[d].container + i - 1)
<1>1. image[d] \in {s[d] : s \in Setups}
  BY DEF DevTyped
<1>2. ContainerWhole(image[d]) /\ Block \in Nat \ {0}
  BY <1>1, MountAssumption
<1> DEFINE c == image[d].container
<1>3. c \in Nat /\ \A i \in 1..Block : Kept(image[d], c + i - 1)
  BY <1>2 DEF ContainerWhole
<1> HIDE DEF c
<1>4. Kept(image[d], c + Block - 1) /\ c + Block - 1 \in Nat
  BY <1>2, <1>3
<1>5. PICK l \in Nat : l = c + Block - 1
  BY <1>4
<1>6. l < image[d].size /\ image[d].size \in Nat
  BY <1>4, <1>5, KeptFacts, Files DEF WholeFile, FileTyped
<1>7. c + Block <= image[d].size
  BY <1>2, <1>3, <1>5, <1>6
<1> QED BY <1>3, <1>7 DEF c

(* GetSize of an image that was opened as what it is.                       *)
LEMMA SoundSize ==
  ASSUME DevTyped, NEW d \in Devices, DevInv(d), Sound(d), kind[d] # "none"
  PROVE  GetSize(d) = image[d].size /\ image[d].size \in Nat \ {0}
<1>1. /\ FileTyped(image[d]) /\ image[d].form # "absent"
      /\ kind[d] \in {"dmg", "rawdmg", "sparse", "linux"}
  BY Files DEF WholeFile, DevTyped, Kinds, Sound
<1>2. image[d].size \in Nat \ {0}
  BY <1>1 DEF FileTyped
<1>3. CASE kind[d] \in {"dmg", "sparse"}
  BY <1>2, <1>3 DEF GetSize
<1>4. CASE kind[d] \in {"rawdmg", "linux"}
  <2>1. image[d].form = "flat" /\ image[d].units = image[d].size
    BY <1>1, <1>4, SoundFlat DEF FileTyped
  <2>2. kind[d] = "linux" => image[d].crypt = "no"
    BY DEF Sound, Clear, DevInv, KeyInv
  <2>3. kind[d] = "linux" => FileLen(image[d]) = image[d].units
    BY <1>2, <2>1, <2>2 DEF FileLen, HeaderLen
  <2> QED BY <1>2, <1>4, <2>1, <2>3 DEF GetSize
<1> QED BY <1>1, <1>3, <1>4

(* The container of the main device is there when it is not lost.           *)
LEMMA SuperblockSeen ==
  ASSUME IInv, pc = "superblock", Got, ~Lost(Main), ~HasGap(Main)
  PROVE  Superblock
<1>1. /\ DevTyped /\ Main \in Devices /\ Main \in Given /\ DevInv(Main) /\ kind[Main] # "none"
      /\ Block \in Nat \ {0}
  BY GivenFacts DEF IInv, MainInv, OpenedInv, Later
<1>2. Sound(Main)
  BY <1>1, NotLost
<1>3. start[Main] = image[Main].container /\ image[Main].container # NoContainer
  BY <1>1 DEF IInv, MainInv, StartInv, Later, Located, Strays, Lost
<1>4. /\ start[Main] \in Nat /\ start[Main] + Block <= image[Main].size
      /\ \A i \in 1..Block : Kept(image[Main], start[Main] + i - 1)
  BY <1>1, <1>2, <1>3, ContainerKept
<1>5. PICK o \in Nat : o = start[Main]
  BY <1>4
<1>6. Delivered(Main, o, Block, answer)
  BY <1>5 DEF IInv, ReadInv, Got, Waiting, Awaited
<1>7. kind[Main] = "rawdmg" => ~failed[Main]
  BY <1>1, <1>2, <1>4 DEF IInv, MainInv, InsideInv, ReadInside
<1>8. Kept(image[Main], o)
  <2>1. 1 \in 1..Block /\ o + 1 - 1 = o
    BY <1>1
  <2>2. Kept(image[Main], o + 1 - 1)
    BY <1>4, <1>5, <2>1
  <2> QED BY <2>1, <2>2
<1>9. answer.ok /\ answer.data[1] = o
  <2>1. o + Block <= image[Main].size /\ \A i \in 1..Block : Kept(image[Main], o + i - 1)
    BY <1>4, <1>5
  <2>2. answer.data[1] = o
    BY <1>1, <1>2, <1>6, <1>7, <1>8, <2>1, WholeRead
  <2>3. answer.ok
    BY <1>1, <1>2, <1>6, <1>7, <2>1, WholeRead
  <2> QED BY <2>2, <2>3
<1> QED BY <1>3, <1>5, <1>9 DEF Superblock

(* A main of apfs-fuse, apfsutil or apfs-dump-quick that ends before it has a *)
(* volume had no device, or lost the container by one of the causes named:    *)
(* none of the fallbacks of OpenDevice and LoadAndVerify gives up too early.  *)
(* The entry that is not in use before that of APFS is no such cause: without *)
(* one in the map of the main device, every other disk is opened.             *)
LEMMA GivesUpForCause ==
  ASSUME IInv, Next, pc' = "exit", pc \in {"devices", "superblock"}, ~HasGap(Main)
  PROVE  MayFail
<1>1. NoDevice \/ CheckDevices \/ NoSuperblock
  BY DEF Next, Starting, DeviceStep, ReadBlock, Unmount, ParseOptions, OpenMain, OpenTier2,
     ReadHeader, RetryHeader, ReadMap, NoGpt, UseMap, InitContainer, LoadContainer, GetVolume,
     main, Continue
<1>2. /\ MainTyped /\ DevTyped /\ Main \in Given /\ Given \subseteq Devices /\ Main \in Devices
      /\ Block \in Nat \ {0} /\ call.offset \in Nat
      /\ \A d \in Devices : DevInv(d)
  <2>1. MainTyped
    BY DEF IInv, MainInv
  <2> QED BY <2>1, GivenFacts DEF IInv, MainInv
<1>3. CASE NoDevice
  <2>1. PICK d \in Given : phase[d] = "failed"
    BY <1>3 DEF NoDevice, Opened
  <2> QED BY <1>2, <2>1 DEF MayFail, DevInv, PhaseInv
<1>4. CASE CheckDevices
  <2>1. pc = "devices" /\ Opened /\ start[Main] >= GetSize(Main)
    BY <1>4 DEF CheckDevices, Exit, Continue
  <2>2. SUFFICES ASSUME ~Lost(Main) PROVE FALSE
    BY DEF MayFail
  <2>3. kind[Main] # "none"
    BY <1>2, <2>1 DEF Opened, DevInv, PhaseInv
  <2>4. Sound(Main)
    BY <1>2, <2>2, <2>3, NotLost
  <2>5. GetSize(Main) = image[Main].size /\ image[Main].size \in Nat \ {0}
    BY <1>2, <2>3, <2>4, SoundSize
  <2>6. start[Main] = call.offset
    BY <2>1 DEF IInv, MainInv, StartInv
  <2>7. CASE call.offset = 0
    BY <2>1, <2>5, <2>6, <2>7
  <2>8. CASE call.offset # 0
    <3>1. image[Main].container = call.offset /\ image[Main].container # NoContainer
      BY <2>2, <2>8 DEF Lost, Meant
    <3>2. call.offset + Block <= image[Main].size
      BY <1>2, <2>3, <2>4, <3>1, ContainerKept
    <3> QED BY <1>2, <2>1, <2>5, <2>6, <3>2
  <2> QED BY <2>7, <2>8
<1>5. CASE NoSuperblock
  BY <1>5, SuperblockSeen DEF NoSuperblock, MayFail
<1> QED BY <1>1, <1>3, <1>4, <1>5

THEOREM OpensWhenItCan == Spec /\ ~HasGap(Main) => OpensIfItCan
<1>1. IInv /\ ~HasGap(Main) /\ [Next]_vars =>
        [pc' = "exit" /\ pc \in {"devices", "superblock"} => MayFail]_vars
  BY GivesUpForCause
<1>2. ~HasGap(Main) /\ [Next]_vars => ~HasGap(Main)'
  BY NoGapStays, MountAssumption
<1> QED BY <1>1, <1>2, Invariance, PTL DEF Spec, OpensIfItCan

-----------------------------------------------------------------------------
(* The main device as a flat disk.                                          *)
Disk == IF Ready(Main) THEN Contents(Main) ELSE Nothing
Question == IF OfMain(asked) = Nothing THEN Nothing ELSE [offs |-> asked.offs, len |-> asked.len]
Reply == OfMain(answer)
flatNext == [MainDisk!FlatNext]_(MainDisk!flat)

LEMMA FlatStart == MountInit => MainDisk!FlatInit
BY MountAssumption
   DEF MountInit, Init, MainDisk!FlatInit, MainDisk!Nothing, Nothing, Ready, OfMain, Broken, Odd

LEMMA BrokenStays ==
  ASSUME UNCHANGED image, kind'[Main] = kind[Main], failed[Main] => failed'[Main]
  PROVE  Broken(Main) => Broken(Main)'
<1>1. Odd(Main)' = Odd(Main)
  BY DEF Odd
<1> QED BY <1>1 DEF Broken

LEMMA DiskStays ==
  ASSUME UNCHANGED image, kind'[Main] = kind[Main], key'[Main] = key[Main]
  PROVE  Disk' = Disk
<1>1. Contents(Main)' = Contents(Main)
  BY DEF Contents
<1> QED BY <1>1 DEF Disk, Ready

(* There is a disk in every image that is opened.                           *)
LEMMA DiskThere ==
  ASSUME DevTyped, Main \in Devices, DevInv(Main), kind[Main] # "none"
  PROVE  Disk # Nothing
<1> DEFINE f == image[Main]
<1>1. /\ f.form # "absent" /\ FileTyped(f) /\ kind[Main] \in {"dmg", "rawdmg", "sparse", "linux"}
  BY Files DEF DevInv, PhaseInv, WholeFile, DevTyped, Kinds
<1>2. f.units \in Nat \ {0} /\ f.size \in Nat \ {0}
  BY <1>1 DEF FileTyped
<1>3. FileLen(f) \in Nat \ {0}
  <2>1. HeaderLen(f) \in Nat
    BY DiskAssumption DEF HeaderLen
  <2> HIDE DEF f
  <2> QED BY <1>2, <2>1 DEF FileLen
<1> HIDE DEF f
<1>4. \A n \in Nat \ {0} : 0 \in 0..(n - 1)
  OBVIOUS
<1>5. 0 \in DOMAIN Contents(Main)
  BY <1>1, <1>2, <1>3, <1>4 DEF Contents, f
<1>6. DOMAIN Nothing = {}
  BY DEF Nothing
<1> QED BY <1>5, <1>6 DEF Disk, Ready

LEMMA QuietStep ==
  ASSUME Disk' = Disk, Question' = Question, Reply' = Reply,
         Broken(Main) => Broken(Main)'
  PROVE  flatNext
<1>1. CASE Broken(Main)' = Broken(Main)
  <2>1. MainDisk!flat = <<Disk, Question, Reply, Broken(Main)>>
    BY DEF MainDisk!flat, Disk, Question, Reply
  <2>2. MainDisk!flat' = <<Disk, Question, Reply, Broken(Main)>>'
    BY DEF MainDisk!flat, Disk, Question, Reply
  <2>3. MainDisk!flat' = MainDisk!flat
    BY <1>1, <2>1, <2>2
  <2> QED BY <2>3 DEF flatNext
<1>2. CASE Broken(Main)' # Broken(Main)
  <2>1. Broken(Main)'
    <3>1. Broken(Main) \in BOOLEAN /\ Broken(Main)' \in BOOLEAN
      BY DEF Broken
    <3> QED BY <1>2, <3>1
  <2> QED BY <2>1 DEF flatNext, MainDisk!FlatNext, MainDisk!Break, Disk, Question, Reply
<1> QED BY <1>1, <1>2

LEMMA ForgetStep ==
  ASSUME Disk' = Disk, Question' = Question, Reply' = Nothing,
         Broken(Main) => Broken(Main)'
  PROVE  flatNext
BY DEF flatNext, MainDisk!FlatNext, MainDisk!Forget, MainDisk!Nothing, Nothing, Disk, Question, Reply

LEMMA AskStep ==
  ASSUME Disk # Nothing, Disk' = Disk, Question = Nothing, Question' # Nothing, Reply' = Nothing,
         Broken(Main)' = Broken(Main)
  PROVE  flatNext
BY DEF flatNext, MainDisk!FlatNext, MainDisk!Ask, MainDisk!Nothing, Nothing, Disk, Question, Reply

LEMMA AnswerStep ==
  ASSUME Disk' = Disk, Question # Nothing, Question' = Nothing, Reply'.ok \in BOOLEAN,
         Broken(Main) => Broken(Main)',
         Reply'.ok /\ ~Broken(Main)' =>
           /\ Len(Reply'.data) = Question.len
           /\ \A i \in 1..Question.len :
                Question.offs + i - 1 \in DOMAIN Disk => Reply'.data[i] = Disk[Question.offs + i - 1]
  PROVE  flatNext
BY DEF flatNext, MainDisk!FlatNext, MainDisk!Answer, MainDisk!IsSlice, MainDisk!Nothing, Nothing,
       Disk, Question, Reply

LEMMA OpenStep ==
  ASSUME Disk = Nothing, Question' = Question, Reply' = Reply
  PROVE  flatNext
BY DEF flatNext, MainDisk!FlatNext, MainDisk!Insert, MainDisk!Nothing, Nothing, Disk, Question, Reply

(* A device goes on with a Read, or returns from it.                        *)
LEMMA ServingSteps ==
  ASSUME Serving, NEW d \in Devices, AskOf(d), DevTyped
  PROVE  /\ UNCHANGED <<image, kind, key>>
         /\ \A e \in Devices : failed[e] => failed'[e]
         /\ \A e \in Devices \ {d} : failed'[e] = failed[e]
         /\ \/ asked' = Nothing /\ answer' # Nothing /\ answer'.dev = d
            \/ /\ asked' # Nothing /\ answer' = answer
               /\ asked'.dev = d /\ asked'.offs = asked.offs /\ asked'.len = asked.len
<1>1. asked.dev = d /\ DOMAIN asked = {"dev", "offs", "len", "data", "sect", "beg", "end"}
  BY DEF AskOf
<1> DEFINE SameFlat == /\ asked' # Nothing /\ answer' = answer
                    /\ asked'.dev = d /\ asked'.offs = asked.offs /\ asked'.len = asked.len
           Returns == asked' = Nothing /\ answer' # Nothing /\ answer'.dev = d
           Streams == \E off, n : Stream(d, off, n)
<1>2. \A ok, data : Return(ok, data) => Returns
  BY <1>1 DEF Return, Nothing
<1>3. DOMAIN Nothing = {}
  BY DEF Nothing
<1>4. \A data : Deliver(data) => SameFlat
  <2>1. SUFFICES ASSUME NEW data, Deliver(data) PROVE SameFlat
    OBVIOUS
  <2>2. asked' = [asked EXCEPT !.data = asked.data \o data, !.sect = asked.sect + 1] /\ answer' = answer
    BY <2>1 DEF Deliver
  <2>3. DOMAIN asked' = DOMAIN asked /\ asked'.dev = asked.dev /\ asked'.offs = asked.offs
        /\ asked'.len = asked.len
    BY <1>1, <2>2
  <2> QED BY <1>1, <1>3, <2>2, <2>3
<1>5. SearchSection => SameFlat
  <2>1. SUFFICES ASSUME SearchSection PROVE SameFlat
    OBVIOUS
  <2>2. /\ answer' = answer
        /\ \E s, b, e : asked' = [asked EXCEPT !.sect = s] \/ asked' = [asked EXCEPT !.end = e]
                        \/ asked' = [asked EXCEPT !.beg = b]
    BY <2>1 DEF SearchSection
  <2>3. DOMAIN asked' = DOMAIN asked /\ asked'.dev = asked.dev /\ asked'.offs = asked.offs
        /\ asked'.len = asked.len
    BY <1>1, <2>2
  <2> QED BY <1>1, <1>3, <2>2, <2>3
<1>6. (asked' = asked /\ answer' = answer) => SameFlat
  BY <1>1, <1>3
<1>7. SameFlat \/ Returns
  <2> HIDE DEF SameFlat, Returns
  <2> QED BY <1>2, <1>4, <1>5, <1>6
        DEF Serving, ReadLinux, ReadRawDmg, NoSection, NoMoreSections, SectionRaw,
            SectionZero, SectionUnknown, FillCache, SectionCached, ReadBand, NoSuchBand, ReadDone
<1>8. UNCHANGED <<image, kind, key>>
  BY DEF Serving, ReadLinux, ReadRawDmg, SearchSection, NoSection, NoMoreSections, SectionRaw,
         SectionZero, SectionUnknown, FillCache, SectionCached, ReadBand, NoSuchBand, ReadDone,
         opening, UnchangedButStream
<1>9. failed' = failed \/ Streams
  <2> HIDE DEF Streams
  <2>1. \A off, n : Stream(d, off, n) => Streams
    BY DEF Streams
  <2> QED BY <1>1, <2>1
        DEF Serving, ReadLinux, ReadRawDmg, SearchSection, NoSection, NoMoreSections, SectionRaw,
            SectionZero, SectionUnknown, FillCache, SectionCached, ReadBand, NoSuchBand, ReadDone,
            opening
<1>10. /\ \A e \in Devices : failed[e] => failed'[e]
       /\ \A e \in Devices \ {d} : failed'[e] = failed[e]
  BY <1>9 DEF Stream, FailsAfter, Arrives, DevTyped
<1> QED BY <1>7, <1>8, <1>10

(* What a device delivers is what a flat disk would.                        *)
LEMMA FlatServing ==
  ASSUME IInv, IInv', Serving, UNCHANGED main
  PROVE  flatNext
<1>1. asked # Nothing
  BY DEF Serving, ReadLinux, ReadRawDmg, SearchSection, NoSection, NoMoreSections, SectionRaw,
         SectionZero, SectionUnknown, FillCache, SectionCached, ReadBand, NoSuchBand, ReadDone,
         AtSection, InSection, Searching, Reading
<1>2. PICK d \in Devices : AskOf(d)
  BY <1>1 DEF IInv, AskInv
<1>3. /\ UNCHANGED <<image, kind, key>>
      /\ \A e \in Devices : failed[e] => failed'[e]
      /\ \A e \in Devices \ {d} : failed'[e] = failed[e]
      /\ \/ asked' = Nothing /\ answer' # Nothing /\ answer'.dev = d
         \/ /\ asked' # Nothing /\ answer' = answer
            /\ asked'.dev = d /\ asked'.offs = asked.offs /\ asked'.len = asked.len
  BY <1>2, ServingSteps DEF IInv
<1>4. /\ asked.dev = d /\ asked.offs \in Nat /\ asked.len \in Nat \ {0} /\ answer = Nothing
      /\ Awaited(asked.dev, asked.offs, asked.len)
  BY <1>1, <1>2, AskFacts DEF AskOf, IInv, ReadInv
<1>5. Main \in Devices
  BY MountAssumption
<1>6. Disk' = Disk /\ (Broken(Main) => Broken(Main)')
  BY <1>3, <1>5, DiskStays, BrokenStays
<1>7. CASE d # Main
  <2>1. OfMain(asked) = Nothing /\ OfMain(asked)' = Nothing
    BY <1>3, <1>4, <1>7 DEF OfMain
  <2>2. OfMain(answer) = Nothing /\ OfMain(answer)' = Nothing
    BY <1>3, <1>4, <1>7 DEF OfMain
  <2>3. Question = Nothing /\ Question' = Nothing /\ Reply = Nothing /\ Reply' = Nothing
    BY <2>1, <2>2 DEF Question, Reply
  <2> QED BY <1>6, <2>3, QuietStep
<1>8. CASE d = Main /\ asked' # Nothing
  <2>1. OfMain(asked) = asked /\ OfMain(asked)' = asked'
    BY <1>1, <1>3, <1>4, <1>8 DEF OfMain
  <2>2. Question' = Question
    BY <1>1, <1>3, <1>8, <2>1 DEF Question
  <2>3. Reply' = Reply
    BY <1>3, <1>8 DEF Reply, OfMain
  <2> QED BY <1>6, <2>2, <2>3, QuietStep
<1>9. CASE d = Main /\ asked' = Nothing
  <2>1. OfMain(asked) = asked /\ OfMain(asked)' = Nothing
    BY <1>1, <1>4, <1>9 DEF OfMain
  <2>2. /\ Question = [offs |-> asked.offs, len |-> asked.len]
        /\ Question' = Nothing /\ Reply' = answer'
    BY <1>1, <1>3, <1>9, <2>1 DEF Question, Reply, OfMain
  <2>3. Question # Nothing /\ Question.offs = asked.offs /\ Question.len = asked.len
    BY <2>2 DEF Nothing
  <2>4. pc \in Waiting /\ UNCHANGED <<pc, gptDev, sector, start, paddr, call>>
    BY <1>4 DEF Awaited, Waiting, main
  <2>5. PICK o \in Nat, n \in Nat : Awaited(d, o, n)' /\ Delivered(d, o, n, answer)'
    BY <1>3, <1>9, <2>4 DEF IInv, ReadInv
  <2>6. o = asked.offs /\ n = asked.len
    BY <1>4, <2>4, <2>5 DEF Awaited
  <2>7. Reply'.ok \in BOOLEAN /\ (Reply'.ok /\ ~Broken(Main)' =>
          Len(Reply'.data) = asked.len /\ Right(Main, o, answer.data)')
    BY <1>9, <2>2, <2>5, <2>6 DEF Delivered
  <2>8. kind[Main] # "none"
    BY <1>2, <1>9 DEF AskOf
  <2>9. Contents(Main)' = Disk
    BY <1>3, <2>8, DiskStays DEF Disk, Ready, Contents
  <2>10. Right(Main, o, answer.data)' =>
           \A i \in 1..Len(answer'.data) :
             o + i - 1 \in DOMAIN Disk => answer'.data[i] = Disk[o + i - 1]
    <3>1. Right(Main, o, answer.data)' =>
           \A i \in 1..Len(answer'.data) :
             o + i - 1 \in DOMAIN Contents(Main)' => answer'.data[i] = Contents(Main)'[o + i - 1]
      BY DEF Right
    <3> QED BY <2>9, <3>1
  <2> QED BY <1>6, <2>2, <2>3, <2>6, <2>7, <2>10, AnswerStep
<1> QED BY <1>7, <1>8, <1>9

LEMMA FlatOpening ==
  ASSUME IInv, IInv', NEW d \in Devices, Opening(d), UNCHANGED main
  PROVE  flatNext
<1>1. /\ kind[d] = "none" /\ UNCHANGED <<image, asked, answer>> /\ DevTyped /\ Main \in Devices
      /\ \A e \in Devices \ {d} : kind'[e] = kind[e] /\ key'[e] = key[e] /\ failed'[e] = failed[e]
  BY MountAssumption
     DEF IInv, DevInv, PhaseInv, Running, Opening, OpenRaw, NoSignature, SetupEncryption, KeysUnread, TakeRaw,
         LoadSections, NotSparse, LoadHeader, LoadIndex, IndexUnread, IndexLoaded, Goto, DevTyped
<1>2. Question' = Question /\ Reply' = Reply
  BY <1>1 DEF Question, Reply, OfMain
<1>3. CASE d = Main
  <2>1. Disk = Nothing
    BY <1>1, <1>3 DEF Disk, Ready
  <2> QED BY <1>2, <2>1, OpenStep
<1>4. CASE d # Main
  <2>1. kind'[Main] = kind[Main] /\ key'[Main] = key[Main] /\ failed'[Main] = failed[Main]
    BY <1>1, <1>4
  <2>2. Disk' = Disk /\ (Broken(Main) => Broken(Main)')
    BY <1>1, <2>1, DiskStays, BrokenStays
  <2> QED BY <1>2, <2>2, QuietStep
<1> QED BY <1>3, <1>4

LEMMA FlatRead ==
  ASSUME IInv, NEW d \in Devices, NEW o \in Nat, NEW n \in Nat \ {0}, Read(d, o, n)
  PROVE  flatNext
<1>1. /\ phase[d] = "open" /\ asked = Nothing /\ answer' = Nothing
      /\ asked' # Nothing /\ asked'.dev = d
      /\ UNCHANGED <<image, kind, key, failed>> /\ DevTyped /\ Main \in Devices
  BY MountAssumption DEF Read, opening, IInv, Nothing
<1>2. Disk' = Disk /\ (Broken(Main) => Broken(Main)') /\ Broken(Main)' = Broken(Main)
  BY <1>1, DiskStays, BrokenStays DEF Broken, Odd
<1>3. Question = Nothing /\ Reply' = Nothing
  BY <1>1 DEF Question, Reply, OfMain
<1>4. CASE d = Main
  <2>1. Disk # Nothing
    BY <1>1, <1>4, DiskThere DEF IInv, DevInv, PhaseInv
  <2>2. Question' # Nothing
    <3>1. Question' = [offs |-> asked'.offs, len |-> asked'.len]
      BY <1>1, <1>4 DEF Question, OfMain
    <3> QED BY <3>1 DEF Nothing
  <2> QED BY <1>2, <1>3, <2>1, <2>2, AskStep
<1>5. CASE d # Main
  <2>1. Question' = Nothing
    BY <1>1, <1>5 DEF Question, OfMain
  <2> QED BY <1>2, <1>3, <2>1, ForgetStep
<1> QED BY <1>4, <1>5

(* Main reads from a sector on, and at least one.                           *)
LEMMA AnyRead ==
  ASSUME IInv,
         \/ ReadHeader \/ RetryHeader \/ ReadMap \/ InitContainer
         \/ \E tier2 \in BOOLEAN : \E p \in 0..MaxPaddr : ReadBlock(tier2, p)
  PROVE  \E d \in Devices, o \in Nat, n \in Nat \ {0} : Read(d, o, n)
<1>1. /\ MainTyped /\ Main \in Devices /\ Tier2 \in Devices /\ Block \in Nat \ {0}
      /\ call.blksize \in Nat \ {0} /\ BigSector \in Nat \ {0} /\ MaxPaddr \in Nat
      /\ gptDev \in Devices /\ sector \in Nat /\ start[Main] \in Nat /\ start[Tier2] \in Nat
  <2>1. MainTyped
    BY DEF IInv, MainInv
  <2> QED BY <2>1, GivenFacts, MountAssumption DEF MainTyped
<1>2. CASE ReadHeader
  BY <1>1, <1>2 DEF ReadHeader
<1>3. CASE RetryHeader
  BY <1>1, <1>3 DEF RetryHeader
<1>4. CASE ReadMap
  <2>1. 2 * sector \in Nat /\ MapSectors \in Nat \ {0}
    BY <1>1 DEF MapSectors
  <2> QED BY <1>1, <1>4, <2>1 DEF ReadMap
<1>5. CASE InitContainer
  BY <1>1, <1>5 DEF InitContainer
<1>6. CASE \E tier2 \in BOOLEAN : \E p \in 0..MaxPaddr : ReadBlock(tier2, p)
  <2>1. PICK tier2 \in BOOLEAN, p \in 0..MaxPaddr : ReadBlock(tier2, p)
    BY <1>6
  <2>2. \A a, b, c \in Nat : a + b * c \in Nat
    OBVIOUS
  <2>3. BlockAddr(tier2, p) \in Nat
    BY <1>1, <2>2 DEF BlockAddr, PartStart
  <2> QED BY <1>1, <2>1, <2>3 DEF ReadBlock
<1> QED BY <1>2, <1>3, <1>4, <1>5, <1>6

(* Every step of a program is one of the flat disk, or none.                *)
LEMMA FlatStep ==
  ASSUME IInv, IInv', [Next]_vars
  PROVE  flatNext
<1>1. /\ Main \in Devices /\ Tier2 \in Devices /\ Block \in Nat \ {0} /\ DevTyped /\ MainTyped
  BY MountAssumption DEF IInv, MainInv
<1>2. CASE DeviceStep
  BY <1>2, FlatOpening, FlatServing DEF DeviceStep
<1>3. CASE ReadHeader \/ RetryHeader \/ ReadMap \/ InitContainer
           \/ \E tier2 \in BOOLEAN : \E p \in 0..MaxPaddr : ReadBlock(tier2, p)
  <2>1. \E d \in Devices, o \in Nat, n \in Nat \ {0} : Read(d, o, n)
    BY <1>1, <1>3, AnyRead DEF IInv, MainInv
  <2> QED BY <2>1, FlatRead
<1>4. CASE ParseOptions \/ NoDevice \/ CheckDevices \/ NoGpt \/ UseMap \/ NoSuperblock \/ GetVolume
           \/ OpenMain \/ OpenTier2 \/ UNCHANGED vars
  <2>1. UNCHANGED <<image, kind, key, failed, asked, answer>>
    BY <1>4 DEF ParseOptions, NoDevice, CheckDevices, NoGpt, UseMap, NoSuperblock, GetVolume,
         OpenMain, OpenTier2, OpenDevice, vars, devVars, opening
  <2>2. Question' = Question /\ Reply' = Reply
    BY <2>1 DEF Question, Reply, OfMain
  <2>3. Disk' = Disk /\ (Broken(Main) => Broken(Main)')
    BY <2>1, DiskStays, BrokenStays
  <2> QED BY <2>2, <2>3, QuietStep
<1>5. CASE LoadContainer \/ Unmount
  <2>1. UNCHANGED <<image, kind, key, failed, asked>> /\ answer' = Nothing
    BY <1>5 DEF LoadContainer, Unmount, opening
  <2>2. Question' = Question /\ Reply' = Nothing
    BY <2>1 DEF Question, Reply, OfMain
  <2>3. Disk' = Disk /\ (Broken(Main) => Broken(Main)')
    BY <2>1, DiskStays, BrokenStays
  <2> QED BY <2>2, <2>3, ForgetStep
<1> QED BY <1>2, <1>3, <1>4, <1>5 DEF Next, Starting

(* Whatever kind of image it is read from, through whatever sequence of reads *)
(* and opened in whatever way, the main device is a flat disk until it breaks: *)
(* Device::Read of every kind of device implements the abstract specification. *)
THEOREM FlatDevice == Spec => MainIsFlat
<1>1. MountInit => MainDisk!FlatInit
  BY FlatStart
<1>2. IInv /\ IInv' /\ [Next]_vars => [MainDisk!FlatNext]_(MainDisk!flat)
  BY FlatStep DEF flatNext
<1> QED BY <1>1, <1>2, Invariance, PTL DEF Spec, MainIsFlat, MainDisk!FlatSpec
=============================================================================
