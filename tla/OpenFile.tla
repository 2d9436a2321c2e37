------------------------------ MODULE OpenFile ------------------------------
(***************************************************************************)
(* What apfs-fuse replies about one file: attributes (apfs_getattr,         *)
(* apfs_lookup, apfs_getxattr, apfs_listxattr, apfs_readlink), and the       *)
(* contents of a file that APFS keeps compressed, which apfs_open            *)
(* decompresses whole (DecompressFile) and apfs_read replies from.           *)
(* The session is single-threaded: a request is finished before the next.   *)
(***************************************************************************)
EXTENDS Integers, Sequences, FiniteSets

CONSTANTS
  Files,     \* the inodes
  Volumes,   \* what a file system may hold about each of them
  Handles,   \* open files, fi->fh
  Block,     \* units of 64 KB
  Width,     \* units of 4 GB: what & 0xFFFF0000 leaves is below it
  MaxRead,   \* the longest read
  MaxOffset  \* the last unit that is asked for

ASSUME BlockAssumption ==
  /\ Block \in Nat \ {0} /\ Width \in Nat \ {0}
  /\ MaxRead \in Nat /\ MaxOffset \in Nat

\* An inode has
\*   mode     "reg", "dir" or "link"
\*   packed   APFS_UF_COMPRESSED
\*   xfields  the types and lengths of its extended fields, in order
\*   blob     what is behind their headers: a function from offsets to values
\*   usize    uncompressed_size, or None
\*   header   the attribute com.apple.decmpfs: [algo, fork, size], or Nothing
\*   fork     the blocks of com.apple.ResourceFork, "raw" or "packed"; or Nothing
\*   attrs    other attributes: a function from their names to their lengths
Nothing == <<>>
None == -1
Zero == -1      \* a unit of zeros
Garbage == -2

\* What fits in blocks.
Blocks(n) == (n + Block - 1) \div Block

\* The file system that wrote the disk keeps one size of a compressed file, and
\* as many blocks in its fork as that size needs.
ASSUME VolumeAssumption ==
  \A v \in Volumes : \A f \in Files :
    /\ v[f].fork \in Seq({"raw", "packed"})
    /\ v[f].header # Nothing =>
         /\ v[f].header.size \in Nat
         /\ v[f].usize \in {None, v[f].header.size}
         /\ v[f].header.fork /\ v[f].fork # Nothing => Len(v[f].fork) = Blocks(v[f].header.size)

Supported == {"zlib", "lzvn", "plain", "lzfse", "lzbitmap"}

VARIABLES
  OnDisk,  \* the file system
  lax,     \* g_lax
  handle,  \* the File of a handle: its inode, decomp_data, and how opening it fared
  req,     \* the open under way: file, handle, loss, block
  out,     \* decompressed
  reply,   \* the reply to the last request
  known    \* the attributes of a file that the kernel was told last, and keeps

vars == <<OnDisk, lax, handle, req, out, reply, known>>

\* How a request may fare: the lookup of a record fails, or the resource fork
\* is read up to a block only.  The fork is its table (0), then the mark
\* (2 k - 1) and the rest (2 k) of each block k.
Losses(f) ==
  {[what |-> w, at |-> 0] : w \in {"inode", "header", "fork"}} \cup
  {[what |-> "data", at |-> i] : i \in 0..(2 * Len(OnDisk[f].fork) + 1)}
NoLoss(f) == [what |-> "data", at |-> 2 * Len(OnDisk[f].fork) + 1]

NotOpen == [file |-> Nothing]

Init ==
  /\ OnDisk \in Volumes
  /\ lax \in BOOLEAN
  /\ handle = [h \in Handles |-> NotOpen]
  /\ req = Nothing
  /\ out = <<>>
  /\ reply = Nothing
  /\ known = [f \in Files |-> Nothing]

-----------------------------------------------------------------------------
(***************************************************************************)
(* Attributes.                                                             *)
(***************************************************************************)
Rounded8(n) == 8 * ((n + 7) \div 8)

\* Where GetInode looks for the data of the n-th extended field.
XData(xs, n) ==
  LET at[i \in 1..Len(xs)] == IF i = 1 THEN 0 ELSE at[i - 1] + Rounded8(xs[i - 1].len)
  IN at[n]

\* The value of the last field of a type, or None.
XField(i, type) ==
  LET found == {n \in DOMAIN i.xfields : i.xfields[n].type = type}
  IN IF found = {} THEN None
     ELSE i.blob[XData(i.xfields, CHOOSE n \in found : \A m \in found : m <= n)]

\* The length of the attribute com.apple.decmpfs.
HeaderUnits == 1

\* apfs_stat_internal: whether it succeeds, and st_size.
Stat(f, loss) ==
  LET i == OnDisk[f]
      dsize == XField(i, "dstream")
      r(ok, n) == [ok |-> ok, size |-> n]
  IN CASE loss.what = "inode" -> r(FALSE, 0)
       [] loss.what # "inode" /\ i.mode # "reg" -> r(TRUE, 0)
       [] loss.what # "inode" /\ i.mode = "reg" /\ ~i.packed ->
            r(TRUE, IF dsize = None THEN 0 ELSE dsize)
       [] OTHER ->
            IF i.usize # None THEN r(TRUE, i.usize)
            ELSE IF loss.what = "header" \/ i.header = Nothing THEN r(lax, 0)
            ELSE IF i.header.algo \in Supported THEN r(TRUE, i.header.size)
            ELSE r(lax, HeaderUnits)

Reply(what, f, ok, n) == reply' = [to |-> what, file |-> f, ok |-> ok, size |-> n]
Idle == req = Nothing

GetAttr(f, loss) ==
  /\ Idle
  /\ LET st == Stat(f, loss)
     IN /\ Reply("getattr", f, st.ok, st.size)
        /\ known' = IF st.ok THEN [known EXCEPT ![f] = st] ELSE known
  /\ UNCHANGED <<OnDisk, lax, handle, req, out>>

\* The kernel takes any entry whose mode is that of a file, and the mode is set
\* before Stat may fail.
Lookup(f, loss) ==
  /\ Idle
  /\ LET st == Stat(f, loss)
     IN /\ Reply("lookup", f, st.ok, st.size)
        /\ known' = IF loss.what = "inode" THEN known ELSE [known EXCEPT ![f] = st]
  /\ UNCHANGED <<OnDisk, lax, handle, req, out>>

\* An attribute that does not fit is cut, a list that does not fit is refused.
GetXAttr(f, name, room) ==
  /\ Idle
  /\ LET attrs == OnDisk[f].attrs
         n == attrs[name]
     IN IF name \in DOMAIN attrs
          THEN Reply("getxattr", f, TRUE, IF room = 0 \/ n < room THEN n ELSE room)
          ELSE Reply("getxattr", f, FALSE, 0)
  /\ UNCHANGED <<OnDisk, lax, handle, req, out, known>>

ListXAttr(f, room) ==
  /\ Idle
  /\ LET n == Cardinality(DOMAIN OnDisk[f].attrs)
     IN Reply("listxattr", f, room = 0 \/ n <= room, n)
  /\ UNCHANGED <<OnDisk, lax, handle, req, out, known>>

ReadLink(f) ==
  /\ Idle
  /\ LET found == "symlink" \in DOMAIN OnDisk[f].attrs
     IN Reply("readlink", f, found, IF found THEN OnDisk[f].attrs["symlink"] ELSE 0)
  /\ UNCHANGED <<OnDisk, lax, handle, req, out, known>>

-----------------------------------------------------------------------------
(***************************************************************************)
(* Opening.                                                                *)
(***************************************************************************)
Content(n) == [u \in 1..n |-> u]

\* The size of the buffer for a fork: whole blocks, in 32 bits.
Rounded(n) == (Block * Blocks(n)) % Width

\* Mutant: the buffer keeps its whole blocks.
WholeBlocks(n) == Rounded(n)

\* What decompressed is resized to at the end.
FinalSize(n) == n

Resize(data, n) == [u \in 1..n |-> IF u \in DOMAIN data THEN data[u] ELSE Zero]

\* The handle h is opened, whatever was decompressed.
Opened(h, f, loss, data) ==
  /\ handle' = [handle EXCEPT ![h] = [file |-> f, data |-> data, loss |-> loss]]
  /\ Reply("open", f, TRUE, Len(data))
  /\ req' = Nothing
  /\ out' = <<>>

Refused(f) ==
  /\ Reply("open", f, FALSE, 0)
  /\ req' = Nothing
  /\ out' = <<>>
  /\ UNCHANGED handle

\* DecompressFile returned false, having written data.
Failed(h, f, loss, data) == IF lax THEN Opened(h, f, loss, data) ELSE Refused(f)

Open(h, f, loss) ==
  /\ Idle
  /\ handle[h] = NotOpen
  /\ OnDisk[f].mode = "reg"
  /\ LET i == OnDisk[f]
     IN IF loss.what = "inode" THEN Refused(f)
        ELSE IF ~i.packed THEN Opened(h, f, loss, <<>>)
        ELSE IF loss.what = "header" \/ i.header = Nothing THEN Refused(f)
        ELSE IF i.header.algo \notin Supported THEN Failed(h, f, loss, <<>>)
        ELSE /\ req' = [file |-> f, handle |-> h, loss |-> loss, block |-> 0]
             /\ out' = <<>>
             /\ reply' = Nothing
             /\ UNCHANGED handle
  /\ UNCHANGED <<OnDisk, lax, known>>

\* Whoever wants to write is refused before anything is looked at.
OpenToWrite(f) ==
  /\ Idle
  /\ OnDisk[f].mode = "reg"
  /\ Refused(f)
  /\ UNCHANGED <<OnDisk, lax, known>>

Inode == OnDisk[req.file]
Algo == Inode.header.algo
Size == Inode.header.size
Decompressing == req # Nothing
AtStart == Decompressing /\ req.block = 0

\* What is kept in the attribute itself is read with the B-tree node it is in,
\* whose checksum was verified: it is there as it was written, or not at all.
Inline ==
  /\ AtStart
  /\ ~Inode.header.fork
  /\ Opened(req.handle, req.file, req.loss, Content(Size))
  /\ UNCHANGED <<OnDisk, lax, known>>

NoFork ==
  /\ AtStart
  /\ Inode.header.fork
  /\ req.loss.what = "fork" \/ Inode.fork = Nothing
  /\ Failed(req.handle, req.file, req.loss, <<>>)
  /\ UNCHANGED <<OnDisk, lax, known>>

\* GetAttribute does not look at the result of ReadFile: what was not read is zeros.
TableLost == req.loss.at = 0
ForkRead ==
  /\ AtStart
  /\ Inode.header.fork
  /\ req.loss.what # "fork" /\ Inode.fork # Nothing
  /\ req' = [req EXCEPT !.block = 1]
  /\ out' = [u \in 1..Rounded(Size) |-> Zero]
  /\ UNCHANGED <<OnDisk, lax, handle, reply, known>>

AtBlock == Decompressing /\ req.block > 0

\* Mutant: blocks are counted from 1.
PlaceFrom1(k) == Block * k

\* Where block k goes in the buffer.
Place(k) == Block * (k - 1)

\* For zlib the table says how many blocks there are, and a lost one none;
\* otherwise the buffer does.
MoreBlocks ==
  IF Algo = "zlib" THEN ~TableLost /\ req.block <= Len(Inode.fork)
                   ELSE Place(req.block) < Len(out)

\* Mutant: the last block is not shorter.
FullBlock(k) == Block

ExpectedLen(k) == IF Size - Place(k) > Block THEN Block ELSE Size - Place(k)

MarkLost == req.loss.at < 2 * req.block
Damaged == req.loss.at <= 2 * req.block

\* The lengths that decoding a block may return, and whether the data are right.
\* A damaged zlib stream counts as a full block; LZVN has no check sum.
Decoded ==
  LET k == req.block
      r(n, u) == [len |-> n, unit |-> u]
      full == Size - Block * (k - 1)
      actual == IF full > Block THEN Block ELSE full
  IN CASE ~Damaged -> {r(actual, 1)}
       [] Damaged /\ TableLost -> {r(0, Zero)}
       [] Damaged /\ ~TableLost /\ (Algo = "plain" \/ (Inode.fork[k] = "raw" /\ ~MarkLost)) ->
            {r(actual, Zero)}
       [] OTHER -> IF Algo = "zlib" THEN {r(Block, Garbage)} ELSE {r(0, Zero), r(actual, Garbage)}

\* Block k of the buffer after n units have been decoded into it.
Written(k, d) ==
  [u \in DOMAIN out |->
     LET i == u - Place(k) IN
     IF i \notin 1..d.len THEN out[u]
     ELSE IF d.unit = 1 THEN Block * (k - 1) + i ELSE d.unit]


NextBlock(k) == k + 1

WrongMark == Algo = "zlib" /\ MarkLost
Overrun == Place(req.block) + Block > Len(out)
DecodeBlock ==
  /\ AtBlock
  /\ MoreBlocks
  /\ ~WrongMark
  /\ ~(TableLost /\ Algo = "plain")
  /\ \E d \in Decoded :
       IF d.len = ExpectedLen(req.block)
         THEN /\ out' = Written(req.block, d)
              /\ req' = [req EXCEPT !.block = NextBlock(@)]
              /\ UNCHANGED <<handle, reply>>
         ELSE Failed(req.handle, req.file, req.loss, Written(req.block, d))
  /\ UNCHANGED <<OnDisk, lax, known>>

NoMark ==
  /\ AtBlock
  /\ MoreBlocks
  /\ WrongMark
  /\ Failed(req.handle, req.file, req.loss, <<>>)
  /\ UNCHANGED <<OnDisk, lax, known>>

\* A damaged stream may also end too early, or run over the end of the block:
\* inflate makes no progress then, and DecompressZLib calls it for ever.
MaySpin ==
  /\ AtBlock /\ MoreBlocks /\ Algo = "zlib"
  /\ ~WrongMark /\ Damaged
  /\ Inode.fork[req.block] = "packed"

\* Without a table the length of a stored block is 0 - 1; a zlib table of more
\* than 4 GB leads behind the buffer.
MayCrash == AtBlock /\ MoreBlocks /\ ((TableLost /\ Algo = "plain") \/ Overrun)

Stuck ==
  /\ MaySpin \/ MayCrash
  /\ req' = [req EXCEPT !.block = None]
  /\ UNCHANGED <<OnDisk, lax, handle, out, reply, known>>

BlocksDone ==
  /\ AtBlock
  /\ ~MoreBlocks
  /\ Opened(req.handle, req.file, req.loss, Resize(out, FinalSize(Size)))
  /\ UNCHANGED <<OnDisk, lax, known>>

-----------------------------------------------------------------------------
(***************************************************************************)
(* Reading a compressed file, and closing.                                 *)
(***************************************************************************)
\* The part of n units from off on that is there.
Clip(len, off, n) == IF off >= len THEN 0 ELSE IF off + n > len THEN len - off ELSE n

ReadOpen(h, off, n) ==
  /\ Idle
  /\ handle[h] # NotOpen
  /\ OnDisk[handle[h].file].packed
  /\ reply' = [to |-> "read", handle |-> h, off |-> off, n |-> n,
               data |-> SubSeq(handle[h].data, off + 1, off + Clip(Len(handle[h].data), off, n))]
  /\ UNCHANGED <<OnDisk, lax, handle, req, out, known>>

Release(h) ==
  /\ Idle
  /\ handle[h] # NotOpen
  /\ handle' = [handle EXCEPT ![h] = NotOpen]
  /\ reply' = Nothing
  /\ UNCHANGED <<OnDisk, lax, req, out, known>>

Attributes(f) ==
  \/ \E loss \in Losses(f) : GetAttr(f, loss) \/ Lookup(f, loss)
  \/ \E room \in 0..1 :
       \/ \E name \in DOMAIN OnDisk[f].attrs \cup {"other"} : GetXAttr(f, name, room)
       \/ ListXAttr(f, room)
  \/ ReadLink(f)

Decompress == Inline \/ NoFork \/ ForkRead \/ DecodeBlock \/ NoMark \/ Stuck \/ BlocksDone

Next ==
  \/ \E f \in Files : Attributes(f) \/ OpenToWrite(f)
  \/ \E f \in Files : \E loss \in Losses(f) : \E h \in Handles : Open(h, f, loss)
  \/ Decompress
  \/ \E h \in Handles :
       \/ \E off \in 0..MaxOffset : \E n \in 1..MaxRead : ReadOpen(h, off, n)
       \/ Release(h)

Spec == Init /\ [][Next]_vars

\* A request is handled to its end.
FairSpec == Spec /\ WF_vars(Decompress)

-----------------------------------------------------------------------------
\* The size of the buffer does not fit in 32 bits.
Large(f) == OnDisk[f].header.size > Width - Block

\* How many units of an open file lie before the first damaged block.
Safe(hd) ==
  LET i == OnDisk[hd.file] IN
  IF i.header = Nothing \/ hd.loss.what # "data" THEN 0
  ELSE IF ~i.header.fork THEN i.header.size
  ELSE Block * ((hd.loss.at - 1) \div 2)

(* Whatever sequence of opens, reads and closes there was, and whatever could *)
(* not be read while a file was opened: what apfs_read replies is the content *)
(* of the file up to the first block that is damaged, and in strict mode is   *)
(* no shorter or longer than the file.  Files are excepted whose blocks make  *)
(* 4 GB or more, and whose buffer is cut (Decmpfs.cpp:161).                  *)
ReadsRight ==
  reply # Nothing /\ reply.to = "read" =>
    LET hd == handle[reply.handle]
        h == OnDisk[hd.file].header
    IN \/ Large(hd.file)
       \/ /\ \A u \in DOMAIN reply.data :
               reply.off + u <= Safe(hd) => reply.data[u] = reply.off + u
          /\ lax \/ Len(reply.data) = Clip(h.size, reply.off, reply.n)

(* In strict mode the size the kernel keeps of a file, whichever handler told *)
(* it and from whichever of its three sources, is that of the decompressed    *)
(* data of every handle; but apfs_lookup also tells sizes that it did not     *)
(* find out (ApfsFuse.cpp:385).                                              *)
SizeAgrees ==
  \A h \in Handles :
    LET hd == handle[h] IN
    hd # NotOpen /\ ~lax =>
      \/ ~OnDisk[hd.file].packed
      \/ known[hd.file] = Nothing \/ ~known[hd.file].ok
      \/ known[hd.file].size = Len(hd.data)

(* A compressed file that can be read undisturbed is opened, for every        *)
(* algorithm and with any mix of stored and compressed blocks, the last of    *)
(* them shorter or not.                                                      *)
Undisturbed ==
  /\ Decompressing
  /\ req.loss = NoLoss(req.file)
  /\ Inode.header.fork => Inode.fork # Nothing
OpensUndamaged == [][Undisturbed /\ ~Decompressing' => reply'.ok]_vars

(* An open is replied to, unless a damaged zlib stream or table makes the    *)
(* program hang or crash.                                                    *)
Answered == Decompressing ~> (~Decompressing \/ req.block = None)
=============================================================================
