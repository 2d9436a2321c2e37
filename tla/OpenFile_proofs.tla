--------------------------- MODULE OpenFile_proofs ---------------------------
(***************************************************************************)
(* Proof that the sizes the kernel keeps are those of the data, and that    *)
(* what apfs_read replies from a compressed file is its content up to the   *)
(* first damage, whatever the files, the size of a block and the damage.    *)
(***************************************************************************)
EXTENDS OpenFile, TLAPS

\* A file that a handle may have been opened for with data in strict mode.
Sound(f) ==
  /\ OnDisk[f].mode = "reg"
  /\ OnDisk[f].packed
  /\ OnDisk[f].header # Nothing
  /\ OnDisk[f].header.algo \in Supported

\* Units up to n that are right in data.
RightUpTo(data, n) == \A u \in DOMAIN data : u <= n => data[u] = u

\* What an open file holds.
HandleOK(hd) ==
  /\ hd.file \in Files
  /\ OnDisk[hd.file].packed =>
       /\ hd.data \in Seq(Int)
       /\ OnDisk[hd.file].header # Nothing
       /\ ~lax => Sound(hd.file) /\ Len(hd.data) = OnDisk[hd.file].header.size
       /\ ~Large(hd.file) => RightUpTo(hd.data, Safe(hd))

HandleInv == \A h \in Handles : handle[h] # NotOpen => HandleOK(handle[h])

\* The size the kernel keeps of a file, if it was found out.
KnownInv ==
  \A f \in Files :
    known[f] # Nothing /\ known[f].ok /\ ~lax /\ Sound(f) =>
      known[f].size = OnDisk[f].header.size

\* The buffer is right up to the block that is next, as far as nothing is damaged.
BufferOK ==
  /\ OnDisk[req.file].header.fork
  /\ OnDisk[req.file].fork # Nothing
  /\ req.loss.what = "data"
  /\ out \in Seq(Int)
  /\ Len(out) = Rounded(OnDisk[req.file].header.size)
  /\ ~Large(req.file) =>
       \A u \in 1..OnDisk[req.file].header.size :
         u <= Place(req.block) /\ u <= Block * ((req.loss.at - 1) \div 2) => out[u] = u

ReqInv ==
  req # Nothing =>
    /\ reply = Nothing
    /\ req = [file |-> req.file, handle |-> req.handle, loss |-> req.loss, block |-> req.block]
    /\ req.file \in Files
    /\ req.handle \in Handles
    /\ Sound(req.file)
    /\ req.loss \in Losses(req.file)
    /\ req.loss.what \in {"fork", "data"}
    /\ req.block \in Nat \cup {None}
    /\ req.block > 0 => BufferOK

Types ==
  /\ OnDisk \in Volumes
  /\ lax \in BOOLEAN
  /\ DOMAIN handle = Handles
  /\ DOMAIN known = Files

Inv == Types /\ HandleInv /\ KnownInv /\ ReqInv /\ ReadsRight

-----------------------------------------------------------------------------
(* Blocks of a file: Blocks, Rounded and Place.                             *)

(* The blocks of n units hold them, and the last one holds one.             *)
LEMMA BlocksHold ==
  ASSUME NEW n \in Nat
  PROVE  /\ Blocks(n) \in Nat
         /\ n <= Block * Blocks(n)
         /\ Block * Blocks(n) < n + Block
<1> DEFINE q == (n + Block - 1) \div Block
           m == (n + Block - 1) % Block
<1>1. Block \in Nat /\ Block > 0
  BY BlockAssumption
<1>2. n + Block - 1 \in Nat
  BY <1>1
<1>3. q \in Nat /\ m \in 0..(Block - 1) /\ n + Block - 1 = Block * q + m
  BY <1>1, <1>2
<1> HIDE DEF q, m
<1>4. Block * q \in Nat
  BY <1>1, <1>3
<1>5. n <= Block * q /\ Block * q < n + Block
  BY <1>1, <1>3, <1>4
<1> QED BY <1>3, <1>5 DEF Blocks, q

(* The buffer has room for the blocks, but for files that are too large.    *)
LEMMA RoundedHolds ==
  ASSUME NEW n \in Nat
  PROVE  /\ Rounded(n) \in Nat
         /\ n <= Width - Block => Rounded(n) = Block * Blocks(n)
<1>1. Block \in Nat /\ Width \in Nat /\ Width > 0
  BY BlockAssumption
<1> DEFINE p == Block * Blocks(n)
<1>2. p \in Nat /\ p < n + Block
  BY <1>1, BlocksHold
<1>3. Rounded(n) = p % Width
  BY DEF Rounded
<1> HIDE DEF p
<1>4. p % Width \in Nat
  BY <1>1, <1>2
<1>5. ASSUME n <= Width - Block PROVE p % Width = p
  <2>1. p < Width
    BY <1>1, <1>2, <1>5
  <2> QED BY <1>1, <1>2, <2>1
<1> QED BY <1>3, <1>4, <1>5 DEF p

(* Blocks follow each other.                                                *)
LEMMA PlaceNext ==
  ASSUME NEW k \in Nat \ {0}
  PROVE  Place(k) \in Nat /\ Place(k + 1) = Place(k) + Block
<1>1. Block \in Nat
  BY BlockAssumption
<1>2. k - 1 \in Nat
  OBVIOUS
<1>3. Block * (k - 1) \in Nat
  BY <1>1, <1>2
<1>4. Block * ((k + 1) - 1) = Block * (k - 1) + Block
  BY <1>1, <1>2
<1> QED BY <1>3, <1>4 DEF Place

(* What is behind block k - 1 is not before block k.                        *)
LEMMA PlaceMonotone ==
  ASSUME NEW k \in Nat, NEW j \in Int, j <= k - 1
  PROVE  Block * j <= Place(k)
<1>1. Block \in Nat
  BY BlockAssumption
<1>2. (k - 1) - j \in Nat
  OBVIOUS
<1> DEFINE x == k - 1
<1>3. Block * (x - j) \in Nat
  BY <1>1, <1>2
<1>4. Block * (x - j) = Block * x - Block * j
  BY <1>1
<1>5. Block * x \in Int /\ Block * j \in Int
  BY <1>1
<1> QED BY <1>3, <1>4, <1>5 DEF Place

(* A block of a file begins within it.                                      *)
LEMMA PlaceWithin ==
  ASSUME NEW n \in Nat, NEW k \in Nat \ {0}, k <= Blocks(n)
  PROVE  Place(k) < n
<1>1. Block \in Nat
  BY BlockAssumption
<1>2. Blocks(n) \in Nat /\ Block * Blocks(n) < n + Block
  BY BlocksHold
<1>3. Place(k) \in Nat /\ Place(k + 1) = Place(k) + Block
  BY PlaceNext
<1>4. Blocks(n) + 1 \in Nat \ {0} /\ k <= (Blocks(n) + 1) - 1
  BY <1>2
<1>5. Block * k <= Place(Blocks(n) + 1)
  BY <1>4, PlaceMonotone
<1>6. Place(Blocks(n) + 1) = Block * Blocks(n) /\ Place(k + 1) = Block * k
  BY <1>2 DEF Place
<1> QED BY <1>1, <1>2, <1>3, <1>5, <1>6

-----------------------------------------------------------------------------
(* Facts of any state of the invariant.                                     *)

(* What the volume holds of a compressed file.                              *)
LEMMA FileFacts ==
  ASSUME Types, NEW f \in Files, OnDisk[f].header # Nothing
  PROVE  /\ OnDisk[f].fork \in Seq({"raw", "packed"})
         /\ OnDisk[f].header.size \in Nat
         /\ OnDisk[f].usize \in {None, OnDisk[f].header.size}
         /\ OnDisk[f].header.fork /\ OnDisk[f].fork # Nothing =>
              Len(OnDisk[f].fork) = Blocks(OnDisk[f].header.size)
  BY VolumeAssumption DEF Types

(* Where the first damage may be.                                           *)
LEMMA LossFacts ==
  ASSUME Types, NEW f \in Files, OnDisk[f].header # Nothing,
         NEW loss \in Losses(f), loss.what = "data"
  PROVE  loss.at \in Nat
<1>1. Len(OnDisk[f].fork) \in Nat
  BY FileFacts
<1>2. PICK i \in 0..(2 * Len(OnDisk[f].fork) + 1) : loss = [what |-> "data", at |-> i]
  BY DEF Losses
<1> QED BY <1>1, <1>2

(* Half of an odd or even number, for the block of a piece of the fork.     *)
LEMMA HalfBelow ==
  ASSUME NEW at \in Nat, NEW k \in Nat, at <= 2 * k
  PROVE  (at - 1) \div 2 \in Int /\ (at - 1) \div 2 <= k - 1
  OBVIOUS

(* Before the first damage at a block there is nothing but earlier blocks.  *)
LEMMA DamageAhead ==
  ASSUME NEW at \in Nat, NEW k \in Nat, at <= 2 * k
  PROVE  Block * ((at - 1) \div 2) \in Int /\ Block * ((at - 1) \div 2) <= Place(k)
<1>1. (at - 1) \div 2 \in Int /\ (at - 1) \div 2 <= k - 1
  BY HalfBelow
<1>2. Block \in Nat
  BY BlockAssumption
<1> DEFINE q == (at - 1) \div 2
<1> HIDE DEF q
<1>3. Block * q \in Int /\ Block * q <= Place(k)
  BY <1>1, <1>2, PlaceMonotone DEF q
<1> QED BY <1>3 DEF q

-----------------------------------------------------------------------------
(* The three ends of an open.                                               *)

(* An open that succeeds keeps the invariant if what it leaves is right.    *)
LEMMA OpenedKeeps ==
  ASSUME Inv, NEW h \in Handles, NEW f, NEW loss, NEW data,
         HandleOK([file |-> f, data |-> data, loss |-> loss]),
         Opened(h, f, loss, data), UNCHANGED <<OnDisk, lax, known>>
  PROVE  Inv'
<1> DEFINE hd == [file |-> f, data |-> data, loss |-> loss]
<1>1. handle' = [handle EXCEPT ![h] = hd]
  BY DEF Opened
<1>2. /\ reply' = [to |-> "open", file |-> f, ok |-> TRUE, size |-> Len(data)]
      /\ req' = Nothing
  BY DEF Opened, Reply
<1>3. Types'
  BY <1>1 DEF Inv, Types
<1>4. HandleInv'
  <2> SUFFICES ASSUME NEW g \in Handles, handle'[g] # NotOpen
               PROVE  HandleOK(handle[g])'
    BY DEF HandleInv
  <2>1. CASE g = h
    <3>1. handle'[g] = hd
      BY <1>1, <2>1 DEF Inv, Types
    <3> QED BY <3>1 DEF HandleOK, Sound, Large, RightUpTo, Safe
  <2>2. CASE g # h
    <3>1. handle'[g] = handle[g]
      BY <1>1, <2>2 DEF Inv, Types
    <3>2. HandleOK(handle[g])
      BY <3>1 DEF Inv, HandleInv
    <3> QED BY <3>1, <3>2 DEF HandleOK, Sound, Large, RightUpTo, Safe
  <2> QED BY <2>1, <2>2
<1>5. KnownInv'
  BY DEF Inv, KnownInv, Sound
<1>6. ReqInv'
  BY <1>2 DEF ReqInv
<1>7. ReadsRight'
  BY <1>2 DEF ReadsRight
<1> QED BY <1>3, <1>4, <1>5, <1>6, <1>7 DEF Inv

(* What does not touch the disk, the handles and the sizes keeps the parts  *)
(* of the invariant about them.                                             *)
LEMMA SameHandles ==
  ASSUME Inv, UNCHANGED <<OnDisk, lax, handle>>
  PROVE  HandleInv'
<1> SUFFICES ASSUME NEW g \in Handles, handle[g] # NotOpen
             PROVE  HandleOK(handle[g])'
  BY DEF HandleInv
<1>1. HandleOK(handle[g])
  BY DEF Inv, HandleInv
<1> QED BY <1>1 DEF HandleOK, Sound, Large, RightUpTo, Safe

(* Nor do they change what is true of the sizes that the kernel keeps.      *)
LEMMA SameKnown ==
  ASSUME Inv, UNCHANGED <<OnDisk, lax, known>>
  PROVE  KnownInv'
  BY DEF Inv, KnownInv, Sound

(* An open that is refused leaves the handles alone.                        *)
LEMMA RefusedKeeps ==
  ASSUME Inv, NEW f, Refused(f), UNCHANGED <<OnDisk, lax, known>>
  PROVE  Inv'
<1>1. /\ reply' = [to |-> "open", file |-> f, ok |-> FALSE, size |-> 0]
      /\ req' = Nothing
      /\ handle' = handle
  BY DEF Refused, Reply
<1>2. Types'
  BY <1>1 DEF Inv, Types
<1>3. HandleInv' /\ KnownInv'
  BY <1>1, SameHandles, SameKnown
<1>4. ReqInv' /\ ReadsRight'
  BY <1>1 DEF ReqInv, ReadsRight
<1> QED BY <1>2, <1>3, <1>4 DEF Inv

(* A failed decompression only counts when errors are ignored.              *)
LEMMA FailedKeeps ==
  ASSUME Inv, NEW h \in Handles, NEW f, NEW loss, NEW data,
         lax => HandleOK([file |-> f, data |-> data, loss |-> loss]),
         Failed(h, f, loss, data), UNCHANGED <<OnDisk, lax, known>>
  PROVE  Inv'
<1>1. CASE lax
  BY <1>1, OpenedKeeps DEF Failed
<1>2. CASE ~lax
  BY <1>2, RefusedKeeps DEF Failed
<1> QED BY <1>1, <1>2

-----------------------------------------------------------------------------
(* The steps that reply without an open.                                    *)

(* A reply about attributes says nothing of data.                           *)
LEMMA AttributeKeeps ==
  ASSUME Inv, Idle, UNCHANGED <<OnDisk, lax, handle, req>>,
         reply' # Nothing => reply'.to # "read",
         DOMAIN known' = Files, KnownInv'
  PROVE  Inv'
<1>1. Types'
  BY DEF Inv, Types
<1>2. HandleInv'
  BY SameHandles
<1>3. ReqInv' /\ ReadsRight'
  BY DEF Idle, ReqInv, ReadsRight
<1> QED BY <1>1, <1>2, <1>3 DEF Inv

(* In strict mode apfs_stat_internal tells the one size of a packed file,   *)
(* from whichever source, when it succeeds.                                 *)
LEMMA StatTells ==
  ASSUME Inv, NEW f \in Files, NEW loss, ~lax, Sound(f), Stat(f, loss).ok
  PROVE  Stat(f, loss).size = OnDisk[f].header.size
<1>1. OnDisk[f].usize \in {None, OnDisk[f].header.size}
  BY FileFacts DEF Inv, Sound
<1>2. CASE loss.what = "inode"
  BY <1>2 DEF Stat
<1>3. CASE loss.what # "inode"
  <2>1. Stat(f, loss) =
          IF OnDisk[f].usize # None THEN [ok |-> TRUE, size |-> OnDisk[f].usize]
          ELSE IF loss.what = "header" THEN [ok |-> FALSE, size |-> 0]
          ELSE [ok |-> TRUE, size |-> OnDisk[f].header.size]
    BY <1>3 DEF Stat, Sound
  <2> QED BY <1>1, <2>1
<1> QED BY <1>2, <1>3

(* A size the kernel is told is right if it was found out.                  *)
LEMMA ToldKeeps ==
  ASSUME Inv, NEW f \in Files, NEW loss, UNCHANGED <<OnDisk, lax>>,
         known' \in {known, [known EXCEPT ![f] = Stat(f, loss)]}
  PROVE  DOMAIN known' = Files /\ KnownInv'
<1>1. DOMAIN known' = Files
  BY DEF Inv, Types
<1>2. KnownInv'
  <2> SUFFICES ASSUME NEW g \in Files, known'[g].ok, ~lax, Sound(g), known'[g] # Nothing
               PROVE  known'[g].size = OnDisk[g].header.size
    BY DEF KnownInv, Sound
  <2>1. CASE known'[g] = known[g]
    BY <2>1 DEF Inv, KnownInv
  <2>2. CASE known'[g] # known[g]
    <3>1. g = f /\ known'[g] = Stat(f, loss)
      BY <2>2 DEF Inv, Types
    <3> QED BY <3>1, StatTells
  <2> QED BY <2>1, <2>2
<1> QED BY <1>1, <1>2

(* The handlers of attributes: apfs_getattr to apfs_readlink.               *)
LEMMA AttributesKeep ==
  ASSUME Inv, NEW f \in Files, Attributes(f)
  PROVE  Inv'
<1>1. ASSUME NEW loss \in Losses(f), GetAttr(f, loss)
      PROVE  Inv'
  <2>1. known' \in {known, [known EXCEPT ![f] = Stat(f, loss)]}
    BY <1>1 DEF GetAttr
  <2>2. /\ Idle /\ UNCHANGED <<OnDisk, lax, handle, req>>
        /\ reply' # Nothing => reply'.to # "read"
    BY <1>1 DEF GetAttr, Reply
  <2> QED BY <2>1, <2>2, ToldKeeps, AttributeKeeps
<1>2. ASSUME NEW loss \in Losses(f), Lookup(f, loss)
      PROVE  Inv'
  <2>1. known' \in {known, [known EXCEPT ![f] = Stat(f, loss)]}
    BY <1>2 DEF Lookup
  <2>2. /\ Idle /\ UNCHANGED <<OnDisk, lax, handle, req>>
        /\ reply' # Nothing => reply'.to # "read"
    BY <1>2 DEF Lookup, Reply
  <2> QED BY <2>1, <2>2, ToldKeeps, AttributeKeeps
<1>3. ASSUME NEW name, NEW room, GetXAttr(f, name, room) \/ ListXAttr(f, room) \/ ReadLink(f)
      PROVE  Inv'
  <2>1. /\ Idle /\ UNCHANGED <<OnDisk, lax, handle, req, known>>
        /\ reply' # Nothing => reply'.to # "read"
    BY <1>3 DEF GetXAttr, ListXAttr, ReadLink, Reply
  <2>2. DOMAIN known' = Files /\ KnownInv'
    BY <2>1, ToldKeeps
  <2> QED BY <2>1, <2>2, AttributeKeeps
<1> QED BY <1>1, <1>2, <1>3 DEF Attributes

(* apfs_release.                                                            *)
LEMMA ReleaseKeeps ==
  ASSUME Inv, NEW h \in Handles, Release(h)
  PROVE  Inv'
<1>1. Types'
  BY DEF Release, Inv, Types
<1>2. HandleInv'
  <2> SUFFICES ASSUME NEW g \in Handles, handle'[g] # NotOpen
               PROVE  HandleOK(handle[g])'
    BY DEF HandleInv
  <2>1. handle'[g] = handle[g]
    BY DEF Release, Inv, Types
  <2>2. HandleOK(handle[g])
    BY <2>1 DEF Inv, HandleInv
  <2> QED BY <2>1, <2>2 DEF Release, HandleOK, Sound, Large, RightUpTo, Safe
<1>3. KnownInv'
  BY SameKnown DEF Release
<1>4. ReqInv' /\ ReadsRight'
  BY DEF Release, Idle, ReqInv, ReadsRight
<1> QED BY <1>1, <1>2, <1>3, <1>4 DEF Inv

(* What is cut out of data.                                                 *)
LEMMA ClipPart ==
  ASSUME NEW data \in Seq(Int), NEW off \in Nat, NEW n \in Nat
  PROVE  LET c == Clip(Len(data), off, n)
             s == SubSeq(data, off + 1, off + c)
         IN /\ Len(s) = c /\ DOMAIN s = 1..c
            /\ \A u \in 1..c : off + u \in DOMAIN data /\ s[u] = data[off + u]
<1> DEFINE c == Clip(Len(data), off, n)
           s == SubSeq(data, off + 1, off + c)
<1>1. c \in Nat /\ (c > 0 => off + c <= Len(data))
  BY DEF Clip
<1> HIDE DEF c
<1>2. Len(s) = c /\ DOMAIN s = 1..c
  <2>1. CASE c = 0
    BY <2>1
  <2>2. CASE c > 0
    <3>1. off + 1 \in 1..Len(data) /\ off + c \in 1..Len(data)
      BY <1>1, <2>2
    <3> QED BY <1>1, <3>1
  <2> QED BY <1>1, <2>1, <2>2
<1>3. \A u \in 1..c : off + u \in DOMAIN data /\ s[u] = data[off + u]
  <2>1. CASE c = 0
    BY <2>1
  <2>2. CASE c > 0
    BY <1>1, <2>2
  <2> QED BY <1>1, <2>1, <2>2
<1> QED BY <1>2, <1>3 DEF c

(* What apfs_read replies is a part of the data of the handle.              *)
LEMMA ReadKeeps ==
  ASSUME Inv, NEW h \in Handles, NEW off \in Nat, NEW n \in Nat, ReadOpen(h, off, n)
  PROVE  Inv'
<1> DEFINE hd == handle[h]
           hdr == OnDisk[hd.file].header
           c == Clip(Len(hd.data), off, n)
           s == SubSeq(hd.data, off + 1, off + c)
<1>1. /\ HandleOK(hd)
      /\ hd.data \in Seq(Int)
      /\ hdr # Nothing
      /\ ~lax => Len(hd.data) = hdr.size
      /\ ~Large(hd.file) => RightUpTo(hd.data, Safe(hd))
  BY DEF ReadOpen, Inv, HandleInv, HandleOK
<1>3. /\ reply' = [to |-> "read", handle |-> h, off |-> off, n |-> n, data |-> s]
      /\ UNCHANGED <<OnDisk, lax, handle, req, known>>
      /\ req = Nothing
  BY DEF ReadOpen, Idle
<1>4. Types' /\ ReqInv'
  BY <1>3 DEF Inv, Types, ReqInv
<1>5. HandleInv' /\ KnownInv'
  BY <1>3, SameHandles, SameKnown
<1>6. ReadsRight'
  <2>2. /\ Len(s) = c /\ DOMAIN s = 1..c
        /\ \A u \in 1..c : off + u \in DOMAIN hd.data /\ s[u] = hd.data[off + u]
    BY <1>1, ClipPart
  <2>3. ASSUME ~Large(hd.file), NEW u \in DOMAIN s, off + u <= Safe(hd)
        PROVE  s[u] = off + u
    <3>1. u \in 1..c /\ off + u \in DOMAIN hd.data /\ s[u] = hd.data[off + u]
      BY <2>2, <2>3
    <3> QED BY <1>1, <2>3, <3>1 DEF RightUpTo
  <2>4. lax \/ Len(s) = Clip(hdr.size, off, n)
    BY <1>1, <2>2
  <2> HIDE DEF hd, hdr, s
  <2>5. /\ ~Large(hd.file) => \A u \in DOMAIN s : off + u <= Safe(hd) => s[u] = off + u
        /\ lax \/ Len(s) = Clip(hdr.size, off, n)
    BY <2>3, <2>4
  <2> QED BY <1>3, <2>5 DEF ReadsRight, Large, Safe, hd, hdr
<1> QED BY <1>4, <1>5, <1>6 DEF Inv

-----------------------------------------------------------------------------
(* Opening, block by block.                                                 *)

(* An open without data is right if the file has a header.                  *)
LEMMA EmptyOK ==
  ASSUME NEW f \in Files, NEW loss, lax, OnDisk[f].packed => OnDisk[f].header # Nothing
  PROVE  HandleOK([file |-> f, data |-> <<>>, loss |-> loss])
  BY DEF HandleOK, RightUpTo

(* apfs_open up to the blocks of DecompressFile.                            *)
LEMMA OpenKeeps ==
  ASSUME Inv, NEW h \in Handles, NEW f \in Files, NEW loss \in Losses(f), Open(h, f, loss)
  PROVE  Inv'
<1>0. UNCHANGED <<OnDisk, lax, known>>
  BY DEF Open
<1>1. CASE Refused(f)
  BY <1>0, <1>1, RefusedKeeps
<1>2. CASE ~OnDisk[f].packed /\ Opened(h, f, loss, <<>>)
  <2>1. HandleOK([file |-> f, data |-> <<>>, loss |-> loss])
    BY <1>2 DEF HandleOK
  <2> QED BY <1>0, <1>2, <2>1, OpenedKeeps
<1>3. CASE OnDisk[f].header # Nothing /\ Failed(h, f, loss, <<>>)
  BY <1>0, <1>3, EmptyOK, FailedKeeps
<1>4. CASE /\ Sound(f)
           /\ loss.what \notin {"inode", "header"}
           /\ req' = [file |-> f, handle |-> h, loss |-> loss, block |-> 0]
           /\ reply' = Nothing
           /\ UNCHANGED handle
  <2>1. Types' /\ ReadsRight'
    BY <1>0, <1>4 DEF Inv, Types, ReadsRight
  <2>2. HandleInv' /\ KnownInv'
    BY <1>0, <1>4, SameHandles, SameKnown
  <2>3. loss.what \in {"fork", "data"}
    BY <1>4 DEF Losses
  <2>4. ReqInv'
    BY <1>0, <1>4, <2>3 DEF ReqInv, Sound, Losses
  <2> QED BY <2>1, <2>2, <2>4 DEF Inv
<1>5. \/ Refused(f)
      \/ ~OnDisk[f].packed /\ Opened(h, f, loss, <<>>)
      \/ OnDisk[f].header # Nothing /\ Failed(h, f, loss, <<>>)
      \/ /\ Sound(f)
         /\ loss.what \notin {"inode", "header"}
         /\ req' = [file |-> f, handle |-> h, loss |-> loss, block |-> 0]
         /\ reply' = Nothing
         /\ UNCHANGED handle
  BY DEF Open, Sound
<1> QED BY <1>1, <1>2, <1>3, <1>4, <1>5

(* What is known of the open under way.                                     *)
LEMMA ReqFacts ==
  ASSUME Inv, Decompressing
  PROVE  /\ reply = Nothing
         /\ req = [file |-> req.file, handle |-> req.handle, loss |-> req.loss, block |-> req.block]
         /\ req.file \in Files /\ req.handle \in Handles
         /\ Sound(req.file) /\ Inode.header # Nothing
         /\ Size \in Nat
         /\ req.loss \in Losses(req.file)
         /\ req.loss.what \in {"fork", "data"}
         /\ req.loss.what = "data" => req.loss.at \in Nat
         /\ req.block \in Nat \cup {None}
         /\ req.block > 0 => BufferOK
<1>1. /\ reply = Nothing
      /\ req = [file |-> req.file, handle |-> req.handle, loss |-> req.loss, block |-> req.block]
      /\ req.file \in Files /\ req.handle \in Handles
      /\ Sound(req.file)
      /\ req.loss \in Losses(req.file)
      /\ req.loss.what \in {"fork", "data"}
      /\ req.block \in Nat \cup {None}
      /\ req.block > 0 => BufferOK
  BY DEF Inv, ReqInv, Decompressing
<1>2. OnDisk[req.file].header # Nothing
  BY <1>1 DEF Sound
<1>3. OnDisk[req.file].header.size \in Nat
  BY <1>1, <1>2, FileFacts DEF Inv
<1>4. req.loss.what = "data" => req.loss.at \in Nat
  BY <1>1, <1>2, LossFacts DEF Inv
<1> QED BY <1>1, <1>2, <1>3, <1>4 DEF Inode, Size

(* What is kept in the attribute is the whole file.                         *)
LEMMA InlineKeeps ==
  ASSUME Inv, Inline
  PROVE  Inv'
<1> DEFINE f == req.file
           data == Content(Size)
<1>1. Decompressing /\ UNCHANGED <<OnDisk, lax, known>>
  BY DEF Inline, AtStart
<1>2. data \in Seq(Int) /\ Len(data) = Size /\ \A u \in DOMAIN data : data[u] = u
  BY <1>1, ReqFacts DEF Content
<1>3. HandleOK([file |-> f, data |-> data, loss |-> req.loss])
  <2> HIDE DEF data
  <2> QED BY <1>1, <1>2, ReqFacts DEF HandleOK, RightUpTo, Inode, Size
<1>4. req.handle \in Handles
  BY <1>1, ReqFacts
<1> QED BY <1>1, <1>3, <1>4, OpenedKeeps DEF Inline

(* Without a fork or a mark nothing has been decompressed.                  *)
LEMMA GivesUpKeeps ==
  ASSUME Inv, NoFork \/ NoMark
  PROVE  Inv'
<1>1. /\ Decompressing /\ UNCHANGED <<OnDisk, lax, known>>
      /\ Failed(req.handle, req.file, req.loss, <<>>)
  BY DEF NoFork, NoMark, AtStart, AtBlock
<1>2. req.handle \in Handles /\ req.file \in Files /\ OnDisk[req.file].header # Nothing
  BY <1>1, ReqFacts DEF Inode
<1>3. lax => HandleOK([file |-> req.file, data |-> <<>>, loss |-> req.loss])
  BY <1>2, EmptyOK
<1> QED BY <1>1, <1>2, <1>3, FailedKeeps

(* A step that leaves the open under way.                                   *)
LEMMA GoesOnKeeps ==
  ASSUME Inv, Decompressing, UNCHANGED <<OnDisk, lax, handle, reply, known>>,
         NEW k \in Nat \cup {None}, req' = [req EXCEPT !.block = k],
         k > 0 => BufferOK'
  PROVE  Inv'
<1>1. Types'
  BY DEF Inv, Types
<1>2. HandleInv' /\ KnownInv'
  BY SameHandles, SameKnown
<1>3. reply = Nothing
  BY ReqFacts
<1>4. ReadsRight'
  BY <1>3 DEF ReadsRight
<1>5. req' = [file |-> req.file, handle |-> req.handle, loss |-> req.loss, block |-> k]
  <2> DEFINE r == [file |-> req.file, handle |-> req.handle, loss |-> req.loss, block |-> req.block]
  <2>1. req = r
    BY ReqFacts
  <2>2. [r EXCEPT !.block = k] = [file |-> req.file, handle |-> req.handle, loss |-> req.loss, block |-> k]
    OBVIOUS
  <2> HIDE DEF r
  <2>3. req' = [r EXCEPT !.block = k]
    BY <2>1
  <2> QED BY <2>2, <2>3
<1>6. ReqInv'
  <2>1. /\ req'.file = req.file /\ req'.handle = req.handle
        /\ req'.loss = req.loss /\ req'.block = k
    BY <1>5
  <2>2. req' = [file |-> req'.file, handle |-> req'.handle, loss |-> req'.loss, block |-> req'.block]
    BY <1>5, <2>1
  <2> QED BY <2>1, <2>2, ReqFacts DEF ReqInv, Sound, Losses
<1> QED BY <1>1, <1>2, <1>4, <1>6 DEF Inv

(* An open that does not come back opens nothing.                           *)
LEMMA StuckKeeps ==
  ASSUME Inv, Stuck
  PROVE  Inv'
<1>1. Decompressing
  BY DEF Stuck, MaySpin, MayCrash, AtBlock
<1>2. None \in Nat \cup {None} /\ ~(None > 0)
  BY DEF None
<1> QED BY <1>1, <1>2, GoesOnKeeps DEF Stuck

(* The buffer is empty before its first block.                              *)
LEMMA ForkReadKeeps ==
  ASSUME Inv, ForkRead
  PROVE  Inv'
<1> DEFINE n == Rounded(Size)
<1>1. Decompressing /\ UNCHANGED <<OnDisk, lax, handle, reply, known>>
  BY DEF ForkRead, AtStart
<1>2. Size \in Nat /\ n \in Nat
  BY <1>1, ReqFacts, RoundedHolds
<1>3. out' \in Seq(Int) /\ Len(out') = n
  <2> HIDE DEF n
  <2>1. out' = [u \in 1..n |-> Zero]
    BY DEF ForkRead, n
  <2> QED BY <1>2, <2>1 DEF Zero
<1>4. /\ req'.file = req.file /\ req'.loss = req.loss /\ req'.block = 1
      /\ req' = [req EXCEPT !.block = 1]
  BY <1>1, ReqFacts DEF ForkRead
<1>5. Place(1) = 0
  BY BlockAssumption DEF Place
<1>6. /\ OnDisk[req.file].header.fork /\ OnDisk[req.file].fork # Nothing
      /\ req.loss.what = "data"
  BY <1>1, ReqFacts DEF ForkRead, Inode
<1>7. BufferOK'
  <2>1. ASSUME NEW u \in 1..OnDisk[req.file].header.size, u <= Place(req'.block)
        PROVE  FALSE
    BY <1>2, <1>4, <1>5, <2>1 DEF Size, Inode
  <2> HIDE DEF n
  <2> QED BY <1>1, <1>3, <1>4, <1>6, <2>1 DEF BufferOK, Large, Size, Inode, Place, n
<1> QED BY <1>1, <1>4, <1>7, GoesOnKeeps

-----------------------------------------------------------------------------
(* A block that is being decoded.                                           *)

(* What is known of the buffer and of the block that is next.               *)
LEMMA BlockFacts ==
  ASSUME Inv, AtBlock
  PROVE  /\ req.block \in Nat \ {0}
         /\ BufferOK
         /\ req.loss.at \in Nat
         /\ Place(req.block) \in Nat
         /\ Place(req.block + 1) = Place(req.block) + Block
         /\ Block \in Nat
<1>1. req.block \in Nat \ {0}
  BY ReqFacts DEF AtBlock, None
<1>2. BufferOK
  BY ReqFacts DEF AtBlock
<1>3. req.loss.at \in Nat
  BY <1>2, ReqFacts DEF AtBlock, BufferOK
<1> QED BY <1>1, <1>2, <1>3, PlaceNext, BlockAssumption

(* The fork has as many blocks as the size needs.                           *)
LEMMA ForkLength ==
  ASSUME Inv, AtBlock
  PROVE  Len(Inode.fork) = Blocks(Size)
<1>1. BufferOK /\ req.file \in Files /\ OnDisk[req.file].header # Nothing
  BY BlockFacts, ReqFacts DEF AtBlock, Inode
<1> QED BY <1>1, FileFacts DEF Inv, BufferOK, Inode, Size

(* A block that is decoded begins within the file.                          *)
LEMMA BlockInFile ==
  ASSUME Inv, AtBlock, MoreBlocks, ~Large(req.file)
  PROVE  Place(req.block) < Size
<1> DEFINE k == req.block
<1>1. k \in Nat \ {0} /\ Size \in Nat /\ Place(k) \in Nat
  BY BlockFacts, ReqFacts DEF AtBlock
<1>2. Blocks(Size) \in Nat /\ Block * Blocks(Size) \in Int
  BY <1>1, BlocksHold, BlockAssumption
<1>3. CASE Algo = "zlib"
  BY <1>1, <1>3, ForkLength, PlaceWithin DEF MoreBlocks
<1>4. CASE Algo # "zlib"
  <2>1. Place(k) < Len(out)
    BY <1>4 DEF MoreBlocks
  <2>2. Size <= Width - Block
    BY <1>1, BlockAssumption DEF Large, Size, Inode
  <2>3. Len(out) = Block * Blocks(Size)
    BY <1>1, <2>2, BlockFacts, RoundedHolds DEF BufferOK, Size, Inode
  <2>4. ASSUME Blocks(Size) <= k - 1 PROVE FALSE
    <3>1. Block * Blocks(Size) <= Place(k)
      BY <1>1, <1>2, <2>4, PlaceMonotone
    <3> QED BY <1>1, <1>2, <2>1, <2>3, <3>1
  <2>5. k <= Blocks(Size)
    BY <1>1, <1>2, <2>4
  <2> QED BY <1>1, <2>5, PlaceWithin
<1> QED BY <1>3, <1>4

(* What a block may be decoded to.                                          *)
LEMMA DecodedFacts ==
  ASSUME Inv, AtBlock, NEW d \in Decoded
  PROVE  /\ d.len \in Int /\ d.unit \in Int
         /\ ~Damaged => d.len = ExpectedLen(req.block) /\ d.unit = 1
<1>1. Size \in Nat /\ Block \in Nat /\ req.block \in Nat
  BY BlockFacts, ReqFacts DEF AtBlock
<1>2. Place(req.block) = Block * (req.block - 1) /\ Place(req.block) \in Nat
  BY BlockFacts DEF Place
<1>3. ExpectedLen(req.block) \in Int
  BY <1>1, <1>2 DEF ExpectedLen
<1>4. CASE ~Damaged
  <2>1. d = [len |-> ExpectedLen(req.block), unit |-> 1]
    BY <1>2, <1>4 DEF Decoded, ExpectedLen
  <2> QED BY <1>3, <2>1
<1>5. CASE Damaged
  <2>1. d \in {[len |-> l, unit |-> u] : l \in {ExpectedLen(req.block), Block, 0}, u \in {Zero, Garbage}}
    BY <1>2, <1>5 DEF Decoded, ExpectedLen
  <2> QED BY <1>1, <1>3, <1>5, <2>1 DEF Zero, Garbage
<1> QED BY <1>4, <1>5

(* The buffer keeps its length, and what lies before the block.             *)
LEMMA WrittenFacts ==
  ASSUME Inv, AtBlock, NEW d \in Decoded
  PROVE  LET k == req.block
             w == Written(k, d)
         IN /\ w \in Seq(Int) /\ Len(w) = Len(out) /\ DOMAIN w = DOMAIN out
            /\ \A u \in DOMAIN out :
                 w[u] = IF u - Place(k) \notin 1..d.len THEN out[u]
                        ELSE IF d.unit = 1 THEN u ELSE d.unit
<1> DEFINE k == req.block
           w == Written(k, d)
<1>1. out \in Seq(Int) /\ k \in Nat \ {0} /\ Place(k) \in Nat
  BY BlockFacts DEF BufferOK
<1>2. d.len \in Int /\ d.unit \in Int
  BY DecodedFacts
<1>3. DOMAIN out = 1..Len(out) /\ Len(out) \in Nat /\ \A u \in DOMAIN out : u \in Int /\ out[u] \in Int
  BY <1>1
<1>4. Place(k) = Block * (k - 1)
  BY DEF Place
<1>5. w = [u \in DOMAIN out |-> IF u - Place(k) \notin 1..d.len THEN out[u]
                                ELSE IF d.unit = 1 THEN Place(k) + (u - Place(k)) ELSE d.unit]
  BY <1>4 DEF Written
<1>6. ASSUME NEW u \in DOMAIN out
      PROVE  /\ w[u] = IF u - Place(k) \notin 1..d.len THEN out[u]
                       ELSE IF d.unit = 1 THEN u ELSE d.unit
             /\ w[u] \in Int
  <2>1. Place(k) + (u - Place(k)) = u
    BY <1>1, <1>3
  <2>2. w[u] = IF u - Place(k) \notin 1..d.len THEN out[u]
               ELSE IF d.unit = 1 THEN u ELSE d.unit
    BY <1>5, <2>1
  <2> QED BY <1>2, <1>3, <2>2
<1>7. DOMAIN w = 1..Len(out)
  BY <1>3, <1>5
<1> HIDE DEF w
<1>8. w \in Seq(Int) /\ Len(w) = Len(out)
  <2>1. w = [u \in 1..Len(out) |-> w[u]]
    BY <1>5, <1>7 DEF w
  <2> QED BY <1>3, <1>6, <1>7, <2>1
<1> QED BY <1>3, <1>6, <1>7, <1>8 DEF w

(* A block that is decoded keeps the buffer right.                          *)
LEMMA BlockStaysRight ==
  ASSUME Inv, AtBlock, ~Large(req.file), NEW d \in Decoded,
         d.len = ExpectedLen(req.block),
         NEW u \in 1..Size, u <= Place(req.block + 1),
         u <= Block * ((req.loss.at - 1) \div 2)
  PROVE  Written(req.block, d)[u] = u
<1> DEFINE k == req.block
           w == Written(k, d)
<1>1. /\ k \in Nat \ {0} /\ Place(k) \in Nat /\ Block \in Nat
      /\ Place(k + 1) = Place(k) + Block
      /\ req.loss.at \in Nat /\ Size \in Nat
  BY BlockFacts, ReqFacts DEF AtBlock
<1>2. u \in DOMAIN out
  <2>1. Size <= Width - Block
    BY <1>1, BlockAssumption DEF Large, Size, Inode
  <2>2. out \in Seq(Int) /\ Len(out) = Block * Blocks(Size)
    BY <1>1, <2>1, BlockFacts, RoundedHolds DEF BufferOK, Size, Inode
  <2>3. Size <= Len(out) /\ Len(out) \in Nat
    BY <1>1, <2>2, BlocksHold
  <2> QED BY <1>1, <2>2, <2>3
<1>3. w[u] = IF u - Place(k) \notin 1..d.len THEN out[u]
             ELSE IF d.unit = 1 THEN u ELSE d.unit
  BY <1>2, WrittenFacts
<1>4. CASE u <= Place(k)
  <2>1. out[u] = u
    BY <1>4, BlockFacts DEF BufferOK, Size, Inode
  <2>2. u - Place(k) \notin 1..d.len
    BY <1>1, <1>4
  <2> QED BY <1>3, <2>1, <2>2
<1>5. CASE u > Place(k)
  <2>1. ~Damaged
    <3> SUFFICES ASSUME Damaged PROVE FALSE
      OBVIOUS
    <3>1. Block * ((req.loss.at - 1) \div 2) \in Int /\ Block * ((req.loss.at - 1) \div 2) <= Place(k)
      BY <1>1, DamageAhead DEF Damaged
    <3> QED BY <1>1, <1>5, <3>1
  <2>2. d.unit = 1
    BY <2>1, DecodedFacts
  <2>3. u - Place(k) \in 1..ExpectedLen(k)
    BY <1>1, <1>5 DEF ExpectedLen
  <2> QED BY <1>3, <2>2, <2>3
<1> QED BY <1>1, <1>4, <1>5

(* A block is decoded, or decompressing fails.                              *)
LEMMA DecodeBlockKeeps ==
  ASSUME Inv, DecodeBlock
  PROVE  Inv'
<1> DEFINE k == req.block
<1>0. AtBlock /\ MoreBlocks /\ Decompressing /\ UNCHANGED <<OnDisk, lax, known>>
  BY DEF DecodeBlock, AtBlock
<1>1. ASSUME NEW d \in Decoded, d.len = ExpectedLen(k),
             out' = Written(k, d), req' = [req EXCEPT !.block = NextBlock(@)],
             UNCHANGED <<handle, reply>>
      PROVE  Inv'
  <2>1. req' = [req EXCEPT !.block = k + 1]
    BY <1>1 DEF NextBlock
  <2>2. req'.file = req.file /\ req'.loss = req.loss /\ req'.block = k + 1
    BY <1>0, <2>1, ReqFacts
  <2>3. k + 1 \in Nat \cup {None}
    BY <1>0, BlockFacts
  <2>4. out' \in Seq(Int) /\ Len(out') = Len(out)
    BY <1>0, <1>1, WrittenFacts
  <2>5. ~Large(req.file) =>
          \A u \in 1..Size :
            u <= Place(k + 1) /\ u <= Block * ((req.loss.at - 1) \div 2) => out'[u] = u
    BY <1>0, <1>1, BlockStaysRight
  <2>6. BufferOK'
    BY <1>0, <2>2, <2>4, <2>5, BlockFacts DEF BufferOK, Large, Size, Inode, Place, Rounded, Blocks
  <2> QED BY <1>0, <1>1, <2>1, <2>3, <2>6, GoesOnKeeps
<1>2. ASSUME NEW d \in Decoded, d.len # ExpectedLen(k),
             Failed(req.handle, req.file, req.loss, Written(k, d))
      PROVE  Inv'
  <2> DEFINE w == Written(k, d)
             hd == [file |-> req.file, data |-> w, loss |-> req.loss]
  <2>1. /\ w \in Seq(Int) /\ DOMAIN w = DOMAIN out
        /\ \A u \in DOMAIN out :
             w[u] = IF u - Place(k) \notin 1..d.len THEN out[u]
                    ELSE IF d.unit = 1 THEN u ELSE d.unit
    BY <1>0, <1>2, WrittenFacts
  <2>2. /\ k \in Nat \ {0} /\ Place(k) \in Nat /\ req.loss.at \in Nat /\ BufferOK
        /\ Size \in Nat
    BY <1>0, BlockFacts, ReqFacts
  <2>3. Damaged
    BY <1>0, <1>2, DecodedFacts
  <2>4. Safe(hd) = Block * ((req.loss.at - 1) \div 2)
    BY <1>0, <2>2, ReqFacts DEF Safe, BufferOK, Inode
  <2>5. Safe(hd) \in Int /\ Safe(hd) <= Place(k)
    BY <2>2, <2>3, <2>4, DamageAhead DEF Damaged
  <2>6. ASSUME ~Large(req.file), NEW u \in DOMAIN w, u <= Safe(hd)
        PROVE  w[u] = u
    <3>1. u \in 1..Len(out) /\ Len(out) \in Nat
      BY <2>1, <2>2 DEF BufferOK
    <3>2. u <= Place(k) /\ u - Place(k) \notin 1..d.len
      BY <2>2, <2>5, <2>6, <3>1
    <3>3. u \in 1..Size
      BY <1>0, <2>2, <2>6, <3>1, <3>2, BlockInFile
    <3>4. out[u] = u
      BY <2>2, <2>4, <2>6, <3>2, <3>3 DEF BufferOK, Size, Inode
    <3> QED BY <2>1, <2>6, <3>2, <3>4
  <2>7. lax => HandleOK(hd)
    <3> HIDE DEF w
    <3>1. ~Large(req.file) => RightUpTo(w, Safe(hd))
      BY <2>6 DEF RightUpTo
    <3> QED BY <1>0, <2>1, <3>1, ReqFacts DEF HandleOK, Inode
  <2>8. req.handle \in Handles
    BY <1>0, ReqFacts
  <2> QED BY <1>0, <1>2, <2>7, <2>8, FailedKeeps
<1> QED BY <1>1, <1>2 DEF DecodeBlock

(* When the blocks are done the buffer holds the file.                      *)
LEMMA BlocksDoneKeeps ==
  ASSUME Inv, BlocksDone
  PROVE  Inv'
<1> DEFINE k == req.block
           data == Resize(out, FinalSize(Size))
           hd == [file |-> req.file, data |-> data, loss |-> req.loss]
<1>0. AtBlock /\ ~MoreBlocks /\ Decompressing /\ UNCHANGED <<OnDisk, lax, known>>
  BY DEF BlocksDone, AtBlock
<1>1. /\ k \in Nat \ {0} /\ Place(k) \in Nat /\ req.loss.at \in Nat /\ BufferOK
      /\ Size \in Nat /\ Block \in Nat /\ out \in Seq(Int)
  BY <1>0, BlockFacts, ReqFacts DEF BufferOK
<1>2. data = [u \in 1..Size |-> IF u \in DOMAIN out THEN out[u] ELSE Zero]
  BY DEF Resize, FinalSize
<1>3. data \in Seq(Int) /\ Len(data) = Size /\ DOMAIN data = 1..Size
  <2> HIDE DEF data
  <2> QED BY <1>1, <1>2 DEF Zero
<1>4. Safe(hd) = Block * ((req.loss.at - 1) \div 2)
  BY <1>0, <1>1, ReqFacts DEF Safe, BufferOK, Inode
<1>5. ASSUME ~Large(req.file), NEW u \in DOMAIN data, u <= Safe(hd)
      PROVE  data[u] = u
  <2>1. u \in 1..Size
    BY <1>3
  <2>2. Size <= Width - Block
    BY <1>1, <1>5, BlockAssumption DEF Large, Size, Inode
  <2>3. Len(out) = Block * Blocks(Size) /\ Size <= Block * Blocks(Size)
    BY <1>1, <2>2, RoundedHolds, BlocksHold DEF BufferOK, Size, Inode
  <2>4. Blocks(Size) \in Nat /\ Block * Blocks(Size) \in Int
    BY <1>1, BlocksHold
  <2>5. u <= Place(k)
    <3>1. CASE Algo # "zlib"
      BY <1>0, <1>1, <2>1, <2>3, <2>4, <3>1 DEF MoreBlocks
    <3>2. CASE Algo = "zlib" /\ TableLost
      <4>1. 0 \in Nat /\ req.loss.at <= 2 * 0
        BY <3>2 DEF TableLost
      <4>2. Safe(hd) \in Int /\ Safe(hd) <= Place(0)
        BY <1>1, <1>4, <4>1, DamageAhead
      <4>3. Place(0) \in Int /\ Place(0) <= 0
        BY <1>1 DEF Place
      <4>4. FALSE
        BY <1>1, <1>5, <2>1, <4>2, <4>3
      <4> QED BY <4>4
    <3>3. CASE Algo = "zlib" /\ ~TableLost
      <4>1. Blocks(Size) <= k - 1
        BY <1>0, <1>1, <2>4, <3>3, ForkLength DEF MoreBlocks
      <4>2. k \in Nat /\ Blocks(Size) \in Int
        BY <1>1, <2>4
      <4>3. Block * Blocks(Size) <= Place(k)
        BY <4>1, <4>2, PlaceMonotone
      <4> QED BY <1>1, <2>1, <2>3, <2>4, <4>3
    <3> QED BY <3>1, <3>2, <3>3
  <2>6. out[u] = u
    BY <1>1, <1>4, <1>5, <2>1, <2>5 DEF BufferOK, Size, Inode
  <2>7. u \in DOMAIN out
    BY <1>1, <2>1, <2>3, <2>4
  <2> QED BY <1>2, <2>1, <2>6, <2>7
<1>6. HandleOK(hd)
  <2> HIDE DEF data
  <2>1. ~Large(req.file) => RightUpTo(data, Safe(hd))
    BY <1>5 DEF RightUpTo
  <2> QED BY <1>0, <1>3, <2>1, ReqFacts DEF HandleOK, Inode, Size
<1>7. req.handle \in Handles
  BY <1>0, ReqFacts
<1> QED BY <1>0, <1>6, <1>7, OpenedKeeps DEF BlocksDone

-----------------------------------------------------------------------------
(* The theorems.                                                            *)

(* Nothing is open at first.                                               *)
LEMMA InitInv ==
  Init => Inv
  BY DEF Init, Inv, Types, HandleInv, KnownInv, ReqInv, ReadsRight

(* What changes nothing keeps the invariant.                                *)
LEMMA StutterKeeps ==
  ASSUME Inv, UNCHANGED vars
  PROVE  Inv'
<1>1. /\ UNCHANGED <<OnDisk, lax, handle, known>>
      /\ UNCHANGED <<req, out, reply>>
  BY DEF vars
<1>2. Types' /\ HandleInv' /\ KnownInv'
  BY <1>1, SameHandles, SameKnown DEF Inv, Types
<1>3. ReqInv'
  BY <1>1 DEF Inv, ReqInv, Sound, Losses, BufferOK, Large, Rounded, Blocks, Place
<1>4. ReadsRight'
  BY <1>1 DEF Inv, ReadsRight, Large, Safe
<1> QED BY <1>2, <1>3, <1>4 DEF Inv

(* The invariant is inductive.                                              *)
LEMMA StepInv ==
  Inv /\ [Next]_vars => Inv'
<1> SUFFICES ASSUME Inv, [Next]_vars PROVE Inv'
  OBVIOUS
<1>1. CASE \E f \in Files : Attributes(f)
  BY <1>1, AttributesKeep
<1>7. CASE \E f \in Files : OpenToWrite(f)
  BY <1>7, RefusedKeeps DEF OpenToWrite
<1>2. CASE \E f \in Files : \E loss \in Losses(f) : \E h \in Handles : Open(h, f, loss)
  BY <1>2, OpenKeeps
<1>3. CASE Decompress
  BY <1>3, InlineKeeps, GivesUpKeeps, ForkReadKeeps, DecodeBlockKeeps, StuckKeeps, BlocksDoneKeeps
  DEF Decompress
<1>4. CASE \E h \in Handles : \E off \in 0..MaxOffset : \E n \in 1..MaxRead : ReadOpen(h, off, n)
  BY <1>4, ReadKeeps, BlockAssumption
<1>5. CASE \E h \in Handles : Release(h)
  BY <1>5, ReleaseKeeps
<1>6. CASE UNCHANGED vars
  BY <1>6, StutterKeeps
<1> QED BY <1>1, <1>2, <1>3, <1>4, <1>5, <1>6, <1>7 DEF Next

(* In strict mode every size the kernel is told is that of the data of      *)
(* every handle, for any files, sizes of blocks and damage.                 *)
LEMMA InvSizes ==
  Inv => SizeAgrees
<1> SUFFICES ASSUME Inv, NEW h \in Handles, handle[h] # NotOpen, ~lax,
                    OnDisk[handle[h].file].packed,
                    known[handle[h].file] # Nothing, known[handle[h].file].ok
             PROVE  known[handle[h].file].size = Len(handle[h].data)
  BY DEF SizeAgrees
<1>1. HandleOK(handle[h])
  BY DEF Inv, HandleInv
<1> QED BY <1>1 DEF Inv, KnownInv, HandleOK

(* The size that apfs_getattr and apfs_lookup tell of a compressed file is  *)
(* the length of the data of every handle that is open for it, whatever the *)
(* file, the algorithm, the size of a block and what could not be read.     *)
THEOREM SizesAgree == Spec => []SizeAgrees
  BY InitInv, StepInv, InvSizes, PTL DEF Spec

(* What apfs_read replies from a compressed file is its content up to the   *)
(* first damaged block, and of the right length in strict mode, whatever    *)
(* the file, the algorithm, the size of a block and what could not be read. *)
THEOREM ReadsCorrect == Spec => []ReadsRight
<1>1. Inv => ReadsRight
  BY DEF Inv
<1> QED BY <1>1, InitInv, StepInv, PTL DEF Spec

-----------------------------------------------------------------------------
(* Nothing is lost of an undamaged file.                                    *)

(* A block that there is lies before the end of the fork, for large files   *)
(* too: the buffer may be too short for them, but not too long.             *)
LEMMA BlockInFork ==
  ASSUME Inv, AtBlock, MoreBlocks
  PROVE  req.block <= Len(Inode.fork)
<1> DEFINE k == req.block
           p == Block * Blocks(Size)
<1>1. /\ k \in Nat \ {0} /\ Size \in Nat /\ Place(k) \in Nat
      /\ Block \in Nat /\ Width \in Nat \ {0}
  BY BlockFacts, ReqFacts, BlockAssumption DEF AtBlock
<1>2. Blocks(Size) \in Nat /\ p \in Nat
  BY <1>1, BlocksHold
<1>3. CASE Algo = "zlib"
  BY <1>3 DEF MoreBlocks
<1>4. CASE Algo # "zlib"
  <2>1. Place(k) < Len(out) /\ Len(out) = p % Width
    BY <1>4, BlockFacts DEF MoreBlocks, BufferOK, Rounded, Size, Inode
  <2>2. p % Width <= p /\ p % Width \in Nat
    <3> HIDE DEF p
    <3> QED BY <1>1, <1>2
  <2>3. ASSUME Blocks(Size) <= k - 1 PROVE FALSE
    <3>1. p <= Place(k)
      BY <1>1, <1>2, <2>3, PlaceMonotone
    <3> HIDE DEF p
    <3> QED BY <1>1, <1>2, <2>1, <2>2, <3>1
  <2> QED BY <1>1, <1>2, <2>3, ForkLength
<1> QED BY <1>3, <1>4

(* A request under way is none that has ended.                              *)
LEMMA StillOpening ==
  ASSUME Inv, Decompressing, NEW k, req' = [req EXCEPT !.block = k]
  PROVE  Decompressing'
<1>1. req = [file |-> req.file, handle |-> req.handle, loss |-> req.loss, block |-> req.block]
  BY ReqFacts
<1>2. DOMAIN req' = DOMAIN req
  OBVIOUS
<1>3. DOMAIN req = {"file", "handle", "loss", "block"}
  BY <1>1
<1>4. DOMAIN Nothing = {}
  BY DEF Nothing
<1> QED BY <1>2, <1>3, <1>4 DEF Decompressing

(* An undamaged compressed file is never refused: when the open ends, it    *)
(* ends well, for every algorithm, size of a block and size of the file.    *)
LEMMA StepOpens ==
  ASSUME Inv, [Next]_vars, Undisturbed, ~Decompressing'
  PROVE  reply'.ok
<1>1. /\ Decompressing /\ req.loss.what = "data"
      /\ req.loss.at = 2 * Len(Inode.fork) + 1
      /\ Inode.header.fork => Inode.fork # Nothing
  BY DEF Undisturbed, NoLoss, Inode
<1>2. Len(Inode.fork) \in Nat
  BY <1>1, ReqFacts, FileFacts DEF Inode, Inv
<1>3. Decompress
  BY <1>1 DEF Next, Attributes, GetAttr, Lookup, GetXAttr, ListXAttr, ReadLink, Open, OpenToWrite, ReadOpen,
              Release, Idle, Decompressing, vars
<1>4. CASE Inline \/ BlocksDone
  BY <1>4 DEF Inline, BlocksDone, Opened, Reply
<1>5. CASE NoFork
  BY <1>1, <1>5 DEF NoFork
<1>6. CASE ForkRead
  BY <1>1, <1>6, StillOpening DEF ForkRead
<1>7. CASE Stuck
  BY <1>1, <1>7, StillOpening DEF Stuck
<1>8. ASSUME AtBlock, MoreBlocks
      PROVE  ~MarkLost /\ ~Damaged
  <2>1. req.block \in Nat /\ req.block <= Len(Inode.fork)
    BY <1>8, BlockFacts, BlockInFork
  <2> QED BY <1>1, <1>2, <2>1 DEF MarkLost, Damaged
<1>9. CASE NoMark
  BY <1>8, <1>9 DEF NoMark, WrongMark
<1>10. CASE DecodeBlock
  <2>1. AtBlock /\ MoreBlocks
    BY <1>10 DEF DecodeBlock
  <2>2. \A d \in Decoded : d.len = ExpectedLen(req.block)
    BY <1>8, <2>1, DecodedFacts
  <2>3. req' = [req EXCEPT !.block = NextBlock(@)]
    BY <1>10, <2>2 DEF DecodeBlock
  <2> QED BY <1>1, <2>3, StillOpening
<1> QED BY <1>3, <1>4, <1>5, <1>6, <1>7, <1>9, <1>10 DEF Decompress

(* A compressed file that can be read undisturbed is opened, whatever the   *)
(* algorithm, the mix of stored and compressed blocks and the size, in      *)
(* strict mode too (DecompressFile).                                        *)
THEOREM UndamagedOpens == Spec => OpensUndamaged
<1>1. Inv /\ [Next]_vars => [Undisturbed /\ ~Decompressing' => reply'.ok]_vars
  BY StepOpens
<1> QED BY <1>1, InitInv, StepInv, PTL DEF Spec, OpensUndamaged
=============================================================================
