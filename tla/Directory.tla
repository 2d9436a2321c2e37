------------------------------ MODULE Directory ------------------------------
(***************************************************************************)
(* Directories as the kernel sees them: ApfsDir::LookupName and            *)
(* ListDirectory under apfs_lookup, apfs_opendir, apfs_readdir and         *)
(* apfs_releasedir.                                                        *)
(*                                                                         *)
(* A listing is made once per directory handle, in the order of the tree   *)
(* (hash of the folded name, then the name's bytes), and sent in pieces.   *)
(* The kernel is the environment: it cuts every piece at a size of its     *)
(* choice, drops the entry that did not fit, goes on at the offset of the  *)
(* last one that did, and may go back to an offset it has been given.      *)
(* Module BTree shows that lookups and walks find the records there are.   *)
(* A node that cannot be read fails a lookup (LookupFails); under the       *)
(* iterator of a listing it crashes the driver, and nothing comes after.   *)
(***************************************************************************)
EXTENDS Naturals, Sequences

CONSTANTS
  Volumes,   \* the volumes to mount
  Dirs,      \* inode numbers of directories
  Names,     \* names, each with
  Normal,    \*   its normalised form,
  Folded,    \*   its normalised form in lower case,
  Rank,      \*   its place in the order of the bytes,
  Space,     \*   and the bytes its entry takes in a reply
  Crc,       \* the hash of a form
  Handles,   \* directory handles
  Sizes      \* sizes of the replies the kernel asks for

\* A volume has the feature flags of its names and a set of directory records.
CaseInsensitive == 1
NormInsensitive == 8
NoHash == 0

NoFile == 0     \* answer ENOENT
NoName == ""    \* the pass began at the start

ASSUME DirectoryAssumption ==
  /\ Dirs \subseteq Nat \ {0}
  /\ NoName \notin Names
  /\ Rank \in [Names -> Nat] /\ \A m, n \in Names : m # n => Rank[m] # Rank[n]
  /\ Space \in [Names -> Nat \ {0}]
  /\ \A f \in DOMAIN Crc : Crc[f] \in Nat
  /\ \A n \in Names : Normal[n] \in DOMAIN Crc /\ Folded[n] \in DOMAIN Crc
  \* an entry always fits into a reply: the kernel asks for a page at least
  /\ \A s \in Sizes, n \in Names : s \in Nat /\ s >= Space[n]
  \* one record for all the names the volume takes for the same
  /\ \A v \in Volumes :
       /\ v.recs \subseteq [dir : Dirs, name : Names, file : Nat \ {0}]
       /\ \A r, s \in v.recs :
            /\ r # s /\ r.dir = s.dir => r.name # s.name
            /\ r # s /\ r.dir = s.dir /\ v.fmt = NormInsensitive =>
                 Normal[r.name] # Normal[s.name]
            /\ r # s /\ r.dir = s.dir /\ v.fmt \in {1, 9} =>
                 Folded[r.name] # Folded[s.name]

VARIABLES
  vol,      \* the mounted volume
  open,     \* the handles in use
  inode,    \* the directory of each handle
  dirbuf,   \* its Directory::dirbuf, as a sequence of entries
  pos,      \* the kernel's position in it
  after,    \* the name after which the current pass over it began
  pass,     \* the entries received since
  eof,      \* the kernel was told that there are no more
  looked,   \* the last lookup and its answer
  stage,    \* "idle", or the part of apfs_readdir that runs
  asked,    \* its arguments
  it        \* the record its iterator is at

handles == <<open, inode>>
kernel == <<pos, after, pass, eof>>
reading == <<stage, asked, it>>
vars == <<vol, open, inode, dirbuf, pos, after, pass, eof, looked, stage, asked, it>>

NoLookup == [dir |-> NoFile, name |-> NoName, file |-> NoFile, failed |-> TRUE]
NoRec == [dir |-> NoFile, name |-> NoName, file |-> NoFile]
NoRequest == [handle |-> NoName, size |-> 0]

\* dirbuf.size(), which is the offset the last entry leads to.
Size(buf) == IF buf = <<>> THEN 0 ELSE buf[Len(buf)].next

Init ==
  /\ vol \in Volumes
  /\ open = {}
  /\ inode = [h \in Handles |-> NoFile]
  /\ dirbuf = [h \in Handles |-> <<>>]
  /\ pos = [h \in Handles |-> 0]
  /\ after = [h \in Handles |-> NoName]
  /\ pass = [h \in Handles |-> <<>>]
  /\ eof = [h \in Handles |-> FALSE]
  /\ looked = NoLookup
  /\ stage = "idle" /\ asked = NoRequest /\ it = NoRec

-----------------------------------------------------------------------------
(* ApfsDir.                                                                 *)

\* HashFilename, for volumes that have hashes.
Hash(n) ==
  CASE vol.fmt = 0 -> NoHash
    [] vol.fmt = NormInsensitive -> Crc[Normal[n]]
    [] OTHER -> Crc[Folded[n]]

\* CompareStdDirKey for two directory records.
Before(r, s) ==
  \/ r.dir < s.dir
  \/ r.dir = s.dir /\ Hash(r.name) < Hash(s.name)
  \/ r.dir = s.dir /\ Hash(r.name) = Hash(s.name) /\ Rank[r.name] < Rank[s.name]

\* The first of some records in the tree.
Leads(recs, r) ==
  IF recs = {} THEN r = NoRec ELSE r \in recs /\ \A q \in recs \ {r} : Before(r, q)

\* Mutant: equal hashes are taken for equal names.
MatchesHash(r, d, n) == r.dir = d /\ Hash(r.name) = Hash(n)

\* The key of record r is equal to that of a search for n in d.
Matches(r, d, n) == r.dir = d /\ Hash(r.name) = Hash(n) /\ Rank[r.name] = Rank[n]

-----------------------------------------------------------------------------
(* The directory operations.                                                *)

\* dirbuf_add: an entry leads to the offset where the buffer ends with it.
DirbufAdd(buf, r) ==
  Append(buf, [name |-> r.name, file |-> r.file, at |-> Size(buf),
               next |-> Size(buf) + Space[r.name]])

Opendir(h, d) ==
  /\ stage = "idle" /\ h \notin open
  /\ open' = open \cup {h}
  /\ inode' = [inode EXCEPT ![h] = d]
  /\ UNCHANGED <<vol, dirbuf, kernel, looked, reading>>

\* apfs_readdir: an empty buffer is filled first.
Readdir(h, size) ==
  /\ stage = "idle" /\ h \in open
  /\ ~eof[h]
  /\ asked' = [handle |-> h, size |-> size]
  /\ stage' = IF dirbuf[h] = <<>> THEN "seek" ELSE "reply"
  /\ UNCHANGED <<vol, handles, dirbuf, kernel, looked, it>>

\* ListDirectory: the iterator starts at the first record at or after the key
\* (dir, hash 0, no name),
ListFrom(r) ==
  /\ stage = "seek"
  /\ Leads({q \in vol.recs : q.dir >= inode[asked.handle]}, r)
  /\ it' = r
  /\ stage' = "list"
  /\ UNCHANGED <<vol, handles, dirbuf, kernel, looked, asked>>

\* takes the records of the directory one by one,
ListRecord(r) ==
  /\ stage = "list" /\ it.dir = inode[asked.handle]
  /\ dirbuf' = [dirbuf EXCEPT ![asked.handle] = DirbufAdd(@, it)]
  /\ Leads({q \in vol.recs : Before(it, q)}, r)
  /\ it' = r
  /\ UNCHANGED <<vol, handles, kernel, looked, stage, asked>>

\* and ends at the first one of another, or at the end of the tree.
ListEnd ==
  /\ stage = "list" /\ it.dir # inode[asked.handle]
  /\ stage' = "reply"
  /\ UNCHANGED <<vol, handles, dirbuf, kernel, looked, asked, it>>

\* Mutant: one byte too few for the last piece.
PieceEndShort(buf, off, size) ==
  IF off >= Size(buf) THEN off
  ELSE IF off + size < Size(buf) THEN off + size ELSE Size(buf) - 1

\* reply_buf_limited: the reply is off..PieceEnd - 1 of the buffer.
PieceEnd(buf, off, size) ==
  IF off >= Size(buf) THEN off
  ELSE IF off + size < Size(buf) THEN off + size ELSE Size(buf)

\* Where entry i of a buffer starts, or would start.
Offset(buf, i) == IF i \in DOMAIN buf THEN buf[i].at ELSE Size(buf)

\* The reply, and the kernel's reading of it: entries i..j, those from its
\* offset on that are wholly there.
Reply ==
  /\ stage = "reply" /\ stage' = "idle"
  /\ LET h == asked.handle
         buf == dirbuf[h]
         upto == PieceEnd(buf, pos[h], asked.size)
     IN \E i \in 1..(Len(buf) + 1), j \in 0..Len(buf) :
          /\ pos[h] = Offset(buf, i)
          /\ j >= i - 1
          /\ \A k \in i..Len(buf) : k <= j <=> buf[k].next <= upto
          /\ pass' = [pass EXCEPT ![h] = @ \o SubSeq(buf, i, j)]
          /\ pos' = [pos EXCEPT ![h] = Offset(buf, j + 1)]
          /\ eof' = [eof EXCEPT ![h] = j < i]
  /\ asked' = NoRequest /\ it' = NoRec
  /\ UNCHANGED <<vol, handles, dirbuf, after, looked>>

\* A new pass from offset o, which belongs to the start or to a name.
Restart(h, o, n) ==
  /\ stage = "idle" /\ h \in open
  /\ pass[h] # <<>>
  /\ pos' = [pos EXCEPT ![h] = o]
  /\ after' = [after EXCEPT ![h] = n]
  /\ pass' = [pass EXCEPT ![h] = <<>>]
  /\ eof' = [eof EXCEPT ![h] = FALSE]
  /\ UNCHANGED <<vol, handles, dirbuf, looked, reading>>

\* rewinddir, and seekdir to an offset of this pass.
Rewind(h) == Restart(h, 0, NoName)
Seek(h) == \E i \in DOMAIN pass[h] : Restart(h, pass[h][i].next, pass[h][i].name)

Releasedir(h) ==
  /\ stage = "idle" /\ h \in open
  /\ open' = open \ {h}
  /\ inode' = [inode EXCEPT ![h] = NoFile]
  /\ dirbuf' = [dirbuf EXCEPT ![h] = <<>>]
  /\ pos' = [pos EXCEPT ![h] = 0]
  /\ after' = [after EXCEPT ![h] = NoName]
  /\ pass' = [pass EXCEPT ![h] = <<>>]
  /\ eof' = [eof EXCEPT ![h] = FALSE]
  /\ UNCHANGED <<vol, looked, reading>>

\* apfs_lookup of a name that the tree finds, of one that it does not find, and
\* of either when a node cannot be read: the last two are answered alike.
Looked(d, n, file, failed) ==
  /\ stage = "idle"
  /\ looked' = [dir |-> d, name |-> n, file |-> file, failed |-> failed]
  /\ UNCHANGED <<vol, handles, dirbuf, kernel, reading>>

LookupHit(d, n) == \E r \in vol.recs : Matches(r, d, n) /\ Looked(d, n, r.file, FALSE)

LookupMiss(d, n) ==
  /\ ~\E r \in vol.recs : Matches(r, d, n)
  /\ Looked(d, n, NoFile, FALSE)

LookupFails(d, n) == Looked(d, n, NoFile, TRUE)

Next ==
  \/ \E h \in Handles, d \in Dirs : Opendir(h, d)
  \/ \E h \in Handles, s \in Sizes : Readdir(h, s)
  \/ \E r \in vol.recs \cup {NoRec} : ListFrom(r) \/ ListRecord(r)
  \/ ListEnd \/ Reply
  \/ \E h \in Handles : Rewind(h) \/ Seek(h) \/ Releasedir(h)
  \/ \E d \in Dirs, n \in Names :
       LookupHit(d, n) \/ LookupMiss(d, n) \/ LookupFails(d, n)

Spec == Init /\ [][Next]_vars

-----------------------------------------------------------------------------
\* An entry shows a record, or what a lookup found.
Shows(e, r) == e.name = r.name /\ e.file = r.file

(* A pass over a directory that reached the end has every record from where *)
(* it started, exactly once and with its inode, however the replies were    *)
(* cut, wherever the kernel sought to, and whatever other handles did.      *)
ScanComplete ==
  \A h \in open : eof[h] =>
    LET due == {r \in vol.recs :
                  /\ r.dir = inode[h]
                  /\ \A q \in vol.recs :
                       q.dir = r.dir /\ q.name = after[h] => Before(q, r)}
    IN /\ \A r \in due : \E i \in DOMAIN pass[h] : Shows(pass[h][i], r)
       /\ \A i \in DOMAIN pass[h] : \E r \in due : Shows(pass[h][i], r)
       /\ \A i, j \in DOMAIN pass[h] : pass[h][i].name = pass[h][j].name => i = j

(* Listings and lookups tell the same: a name a listing shows resolves to   *)
(* the inode shown with it, also where names share a hash, and a name that  *)
(* resolves is in every complete listing of its directory.                  *)
ListingAgrees ==
  \A h \in open : inode[h] = looked.dir =>
    /\ \A i \in DOMAIN pass[h] :
         pass[h][i].name = looked.name => pass[h][i].file = looked.file \/ looked.failed
    /\ eof[h] /\ after[h] = NoName /\ looked.file # NoFile =>
         \E i \in DOMAIN pass[h] : Shows(pass[h][i], looked)
=============================================================================
