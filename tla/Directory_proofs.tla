--------------------------- MODULE Directory_proofs ---------------------------
(***************************************************************************)
(* Proofs about listings and lookups, for every volume, every directory in *)
(* it, any number of handles and replies of any size:                      *)
(*   - what the kernel has received is a piece of the buffer that ends at  *)
(*     its position, and the buffer is the directory in the order of the   *)
(*     tree (Invariance),                                                  *)
(*   - listings are complete (Complete) and agree with lookups (Agree).    *)
(***************************************************************************)
EXTENDS Directory, TLAPS

Entry == [name : Names, file : Nat \ {0}, at : Nat, next : Nat]
Request == [handle : Handles \cup {NoName}, size : Sizes \cup {0}]

TypeOK ==
  /\ vol \in Volumes
  /\ open \subseteq Handles
  /\ inode \in [Handles -> Nat] /\ \A h \in open : inode[h] \in Dirs
  /\ dirbuf \in [Handles -> Seq(Entry)]
  /\ pass \in [Handles -> Seq(Entry)]
  /\ pos \in [Handles -> Nat]
  /\ after \in [Handles -> Names \cup {NoName}]
  /\ eof \in [Handles -> BOOLEAN]
  /\ stage \in {"idle", "seek", "list", "reply"}
  /\ asked \in Request
  /\ stage # "idle" => asked.handle \in open /\ asked.size \in Sizes
  /\ it \in vol.recs \cup {NoRec}

\* The entries of a buffer follow each other without gaps,
Chained(b) ==
  /\ \A i \in DOMAIN b : b[i].next = b[i].at + Space[b[i].name]
  /\ \A i \in DOMAIN b : i = 1 => b[i].at = 0
  /\ \A i, j \in DOMAIN b : j = i + 1 => b[j].at = b[i].next
  /\ \A i, j \in DOMAIN b : i < j => b[i].next <= b[j].at

\* and are records of directory d, in the order of the tree.
RecOf(d, e) == [dir |-> d, name |-> e.name, file |-> e.file]
Ordered(b, d) ==
  /\ \A i \in DOMAIN b : RecOf(d, b[i]) \in vol.recs
  /\ \A i, j \in DOMAIN b : i < j => Before(RecOf(d, b[i]), RecOf(d, b[j]))

InBuf(b, r) == \E i \in DOMAIN b : Shows(b[i], r)
Filled(h) == \A r \in vol.recs : r.dir = inode[h] => InBuf(dirbuf[h], r)

\* What the kernel has received since it was at entry a are entries a..z, and
\* it is at the end of entry z.
Received(h, a, z) ==
  LET b == dirbuf[h] IN
  /\ a <= z + 1
  /\ Len(pass[h]) = z + 1 - a
  /\ \A k \in DOMAIN pass[h] : pass[h][k] = b[a + k - 1]
  /\ pos[h] = Offset(b, z + 1)
  /\ after[h] = IF a = 1 THEN NoName ELSE b[a - 1].name
  /\ eof[h] => z = Len(b) /\ Filled(h)

Fresh(h) == pass[h] = <<>> /\ pos[h] = 0 /\ after[h] = NoName /\ ~eof[h]

Filling(h) == stage \in {"seek", "list"} /\ h = asked.handle

HandleInv(h) ==
  /\ Chained(dirbuf[h])
  /\ Ordered(dirbuf[h], inode[h])
  /\ \E a \in 1..(Len(dirbuf[h]) + 1), z \in 0..Len(dirbuf[h]) : Received(h, a, z)
  /\ h \notin open => dirbuf[h] = <<>> /\ Fresh(h)
  /\ dirbuf[h] # <<>> /\ ~Filling(h) => Filled(h)

\* The buffer being filled has the records of the directory that come before
\* the one the iterator is at.
ListInv ==
  LET h == asked.handle IN
  /\ stage \in {"seek", "list"} => Fresh(h)
  /\ stage = "seek" => dirbuf[h] = <<>>
  /\ stage = "list" =>
       /\ it # NoRec => it.dir >= inode[h]
       /\ \A r \in vol.recs : r.dir = inode[h] =>
            (InBuf(dirbuf[h], r) <=> it = NoRec \/ Before(r, it))
  /\ stage = "reply" => Filled(h) /\ ~eof[h]

LookInv ==
  /\ \A r \in vol.recs : r.dir = looked.dir /\ r.name = looked.name =>
       looked.file = r.file \/ looked.failed
  /\ looked.file # NoFile =>
       \E r \in vol.recs : r.dir = looked.dir /\ Shows(r, looked)

IInv ==
  /\ TypeOK
  /\ \A h \in Handles : HandleInv(h)
  /\ ListInv
  /\ LookInv

-----------------------------------------------------------------------------
(* The tree and the buffer.                                                 *)

LEMMA VolumeFacts ==
  ASSUME vol \in Volumes
  PROVE  /\ vol.recs \subseteq [dir : Dirs, name : Names, file : Nat \ {0}]
         /\ \A r, s \in vol.recs : r.dir = s.dir /\ r.name = s.name => r = s
         /\ \A n \in Names : Hash(n) \in Nat /\ Rank[n] \in Nat
         /\ NoRec \notin vol.recs
<1>1. /\ vol.recs \subseteq [dir : Dirs, name : Names, file : Nat \ {0}]
      /\ \A r, s \in vol.recs : r # s /\ r.dir = s.dir => r.name # s.name
  BY DirectoryAssumption
<1>2. ASSUME NEW n \in Names PROVE Hash(n) \in Nat /\ Rank[n] \in Nat
  <2>1. Crc[Normal[n]] \in Nat /\ Crc[Folded[n]] \in Nat /\ Rank[n] \in Nat
    BY DirectoryAssumption
  <2>2. Hash(n) \in {NoHash, Crc[Normal[n]], Crc[Folded[n]]}
    <3>1. CASE vol.fmt = 0
      BY <3>1 DEF Hash
    <3>2. CASE vol.fmt # 0 /\ vol.fmt = NormInsensitive
      BY <3>2 DEF Hash
    <3>3. CASE vol.fmt # 0 /\ vol.fmt # NormInsensitive
      BY <3>3 DEF Hash
    <3> QED BY <3>1, <3>2, <3>3
  <2> QED BY <2>1, <2>2 DEF NoHash
<1>3. NoRec.name \notin Names
  BY DirectoryAssumption DEF NoRec
<1> QED BY <1>1, <1>2, <1>3

\* The records of a volume are in a strict order, and no two at the same place.
LEMMA TreeOrder ==
  ASSUME vol \in Volumes, NEW q \in vol.recs, NEW r \in vol.recs, NEW s \in vol.recs
  PROVE  /\ ~Before(q, q)
         /\ Before(q, r) => ~Before(r, q)
         /\ Before(q, r) /\ Before(r, s) => Before(q, s)
         /\ q # r => Before(q, r) \/ Before(r, q)
         /\ Before(q, r) => q.dir <= r.dir
         /\ q.dir < r.dir => Before(q, r)
<1> DEFINE Typed(x) == /\ x.dir \in Nat /\ Hash(x.name) \in Nat /\ Rank[x.name] \in Nat
<1>1. Typed(q) /\ Typed(r) /\ Typed(s)
  BY VolumeFacts, DirectoryAssumption
<1>2. q # r /\ q.dir = r.dir => Rank[q.name] # Rank[r.name]
  <2>1. q.name \in Names /\ r.name \in Names
    BY VolumeFacts
  <2>2. q # r /\ q.dir = r.dir => q.name # r.name
    BY VolumeFacts
  <2> QED BY <2>1, <2>2, DirectoryAssumption
<1> QED BY <1>1, <1>2 DEF Before

LEMMA Offsets ==
  ASSUME NEW b \in Seq(Entry), Chained(b)
  PROVE  /\ Size(b) \in Nat
         /\ \A i \in DOMAIN b : b[i].at < b[i].next /\ b[i].next <= Size(b)
         /\ Offset(b, 1) = 0
         /\ \A i, j \in 1..(Len(b) + 1) : Offset(b, i) = Offset(b, j) => i = j
<1>1. \A i \in 1..Len(b) : b[i] \in Entry /\ Space[b[i].name] \in Nat \ {0}
  <2>1. ASSUME NEW i \in 1..Len(b) PROVE b[i] \in Entry /\ b[i].name \in Names
    <3>1. b[i] \in Entry
      OBVIOUS
    <3> QED BY <3>1 DEF Entry
  <2> QED BY <2>1, DirectoryAssumption
<1>2. ASSUME NEW i \in 1..Len(b)
      PROVE  b[i].at \in Nat /\ b[i].next \in Nat /\ b[i].at < b[i].next
  <2>1. b[i].at \in Nat /\ b[i].next \in Nat /\ Space[b[i].name] \in Nat \ {0}
    BY <1>1 DEF Entry
  <2>2. b[i].next = b[i].at + Space[b[i].name]
    BY DEF Chained
  <2> QED BY <2>1, <2>2
<1>3. Size(b) \in Nat /\ \A i \in 1..Len(b) : b[i].next <= Size(b)
  <2>1. CASE b = <<>>
    BY <2>1 DEF Size
  <2>2. CASE b # <<>>
    <3>1. Len(b) \in 1..Len(b) /\ Size(b) = b[Len(b)].next
      BY <2>2 DEF Size
    <3>2. \A i \in 1..Len(b) : i = Len(b) \/ b[i].next <= b[Len(b)].at
      BY <3>1 DEF Chained
    <3> QED BY <1>2, <3>1, <3>2
  <2> QED BY <2>1, <2>2
<1>4. Offset(b, 1) = 0
  BY DEF Offset, Chained, Size
<1>5. \A i, j \in 1..(Len(b) + 1) : i < j => Offset(b, i) < Offset(b, j)
  <2> SUFFICES ASSUME NEW i \in 1..(Len(b) + 1), NEW j \in 1..(Len(b) + 1), i < j
               PROVE  Offset(b, i) < Offset(b, j)
    OBVIOUS
  <2>1. i \in 1..Len(b) /\ Offset(b, i) = b[i].at
    BY DEF Offset
  <2>2. CASE j \in 1..Len(b)
    <3>1. Offset(b, j) = b[j].at /\ b[i].next <= b[j].at
      BY <2>1, <2>2 DEF Offset, Chained
    <3> QED BY <1>2, <2>1, <2>2, <3>1
  <2>3. CASE j \notin 1..Len(b)
    <3>1. Offset(b, j) = Size(b)
      BY <2>3 DEF Offset
    <3> QED BY <1>2, <1>3, <2>1, <3>1
  <2> QED BY <2>2, <2>3
<1>6. \A i, j \in 1..(Len(b) + 1) : Offset(b, i) = Offset(b, j) => i = j
  <2> SUFFICES ASSUME NEW i \in 1..(Len(b) + 1), NEW j \in 1..(Len(b) + 1), i # j
               PROVE  Offset(b, i) # Offset(b, j)
    OBVIOUS
  <2>1. \A k \in 1..(Len(b) + 1) : Offset(b, k) \in Nat
    BY <1>2, <1>3 DEF Offset
  <2>2. i < j \/ j < i
    OBVIOUS
  <2> QED BY <1>5, <2>1, <2>2
<1> QED BY <1>2, <1>3, <1>4, <1>6

\* dirbuf_add keeps what is in the buffer and chains the new entry to it.
LEMMA Added ==
  ASSUME NEW b \in Seq(Entry), Chained(b),
         NEW r \in [dir : Dirs, name : Names, file : Nat \ {0}]
  PROVE  LET c == DirbufAdd(b, r) IN
         /\ c \in Seq(Entry) /\ Len(c) = Len(b) + 1
         /\ \A i \in 1..Len(b) : c[i] = b[i]
         /\ Shows(c[Len(b) + 1], r)
         /\ Chained(c)
<1> DEFINE e == [name |-> r.name, file |-> r.file, at |-> Size(b),
                 next |-> Size(b) + Space[r.name]]
           c == DirbufAdd(b, r)
<1>1. Size(b) \in Nat /\ Space[r.name] \in Nat \ {0}
  BY Offsets, DirectoryAssumption
<1>2. e \in Entry /\ e.at = Size(b) /\ e.next = e.at + Space[e.name] /\ Shows(e, r)
  BY <1>1 DEF Entry, Shows
<1>3. c = Append(b, e)
  BY DEF DirbufAdd
<1> HIDE DEF e, c
<1>4. /\ c \in Seq(Entry) /\ Len(c) = Len(b) + 1 /\ Len(b) \in Nat
      /\ \A i \in 1..Len(b) : c[i] = b[i]
      /\ c[Len(b) + 1] = e /\ DOMAIN c = 1..(Len(b) + 1)
  BY <1>2, <1>3
<1>5. Chained(c)
  <2>1. ASSUME NEW i \in DOMAIN c
        PROVE  c[i].next = c[i].at + Space[c[i].name] /\ (i = 1 => c[i].at = 0)
    <3>1. CASE i \in 1..Len(b)
      BY <1>4, <3>1 DEF Chained
    <3>2. CASE i = Len(b) + 1
      BY <1>2, <1>4, <3>2 DEF Size
    <3> QED BY <1>4, <3>1, <3>2
  <2>2. ASSUME NEW i \in DOMAIN c, NEW j \in DOMAIN c, i < j
        PROVE  c[i].next <= c[j].at /\ (j = i + 1 => c[j].at = c[i].next)
    <3>1. i \in 1..Len(b) /\ c[i] = b[i]
      BY <1>4, <2>2
    <3>2. CASE j \in 1..Len(b)
      BY <1>4, <2>2, <3>1, <3>2 DEF Chained
    <3>3. CASE j = Len(b) + 1
      <4>1. c[j].at = Size(b)
        BY <1>2, <1>4, <3>3
      <4>2. b[i].next <= Size(b)
        BY <3>1, Offsets
      <4>3. j = i + 1 => b[i].next = Size(b)
        BY <1>4, <3>1, <3>3 DEF Size
      <4> QED BY <3>1, <4>1, <4>2, <4>3
    <3> QED BY <1>4, <3>2, <3>3
  <2>3. \A i, j \in DOMAIN c : j = i + 1 => i < j
    BY <1>4
  <2> QED BY <2>1, <2>2, <2>3 DEF Chained
<1> QED BY <1>2, <1>4, <1>5 DEF c

-----------------------------------------------------------------------------
(* The steps.                                                               *)

LEMMA InitInv == Init => IInv
<1> SUFFICES ASSUME Init PROVE IInv
  OBVIOUS
<1> USE DEF Init
<1>1. TypeOK
  BY DEF TypeOK, Request, NoRequest, NoRec, NoFile
<1>2. ASSUME NEW h \in Handles PROVE HandleInv(h)
  <2>1. dirbuf[h] = <<>> /\ Fresh(h) /\ Len(dirbuf[h]) = 0
    BY DEF Fresh
  <2>2. Chained(dirbuf[h]) /\ Ordered(dirbuf[h], inode[h])
    BY <2>1 DEF Chained, Ordered
  <2>3. Received(h, 1, 0)
    BY <2>1 DEF Received, Fresh, Offset, Size
  <2> QED BY <2>1, <2>2, <2>3 DEF HandleInv
<1>3. ListInv
  BY DEF ListInv
<1>4. LookInv
  <2>1. \A r \in vol.recs : r.name # NoName
    BY VolumeFacts, DirectoryAssumption
  <2> QED BY <2>1 DEF LookInv, NoLookup
<1> QED BY <1>1, <1>2, <1>3, <1>4 DEF IInv

\* A step that leaves a buffer alone.
LEMMA BufferKept ==
  ASSUME NEW h \in Handles, HandleInv(h), vol' = vol,
         inode'[h] = inode[h], dirbuf'[h] = dirbuf[h]
  PROVE  Chained(dirbuf[h])' /\ Ordered(dirbuf[h], inode[h])' /\ (Filled(h)' <=> Filled(h))
<1>1. Chained(dirbuf[h])'
  BY DEF HandleInv, Chained
<1>2. Ordered(dirbuf[h], inode[h])'
  BY SMTT(30) DEF HandleInv, Ordered, Before, Hash
<1>3. Filled(h)' <=> Filled(h)
  BY DEF Filled, InBuf, Shows
<1> QED BY <1>1, <1>2, <1>3

\* A handle that a step leaves alone.
LEMMA HandleKept ==
  ASSUME NEW h \in Handles, HandleInv(h), vol' = vol,
         inode'[h] = inode[h], dirbuf'[h] = dirbuf[h], pos'[h] = pos[h],
         after'[h] = after[h], pass'[h] = pass[h], eof'[h] = eof[h],
         h \in open => h \in open',
         Filling(h) => Filling(h)' \/ Filled(h)
  PROVE  HandleInv(h)'
<1>1. Chained(dirbuf[h])' /\ Ordered(dirbuf[h], inode[h])'
  BY BufferKept
<1>3. Filled(h)' <=> Filled(h)
  BY BufferKept
<1>4. PICK a \in 1..(Len(dirbuf[h]) + 1), z \in 0..Len(dirbuf[h]) : Received(h, a, z)
  BY DEF HandleInv
<1>5. Received(h, a, z)'
  BY <1>3, <1>4 DEF Received, Offset, Size
<1>6. (h \notin open => dirbuf[h] = <<>> /\ Fresh(h))'
  BY DEF HandleInv, Fresh
<1> QED BY <1>1, <1>3, <1>4, <1>5, <1>6 DEF HandleInv

LEMMA OpendirKeeps ==
  ASSUME IInv, NEW h \in Handles, NEW d \in Dirs, Opendir(h, d)
  PROVE  IInv'
<1> USE DEF IInv
<1>1. TypeOK'
  BY DirectoryAssumption DEF TypeOK, Opendir, handles, kernel, reading
<1>2. ASSUME NEW g \in Handles PROVE HandleInv(g)'
  <2>1. CASE g # h
    BY <2>1, HandleKept DEF TypeOK, Opendir, kernel, reading, Filling
  <2>2. CASE g = h
    <3>1. dirbuf[h] = <<>> /\ Fresh(h) /\ UNCHANGED <<dirbuf, kernel>>
      BY DEF HandleInv, Opendir
    <3>2. dirbuf'[h] = <<>> /\ Fresh(h)' /\ Len(dirbuf'[h]) = 0
      BY <3>1 DEF Fresh, kernel
    <3>3. Chained(dirbuf[h])' /\ Ordered(dirbuf[h], inode[h])'
      BY <3>2 DEF Chained, Ordered
    <3>4. Received(h, 1, 0)'
      BY <3>2 DEF Received, Fresh, Offset, Size
    <3> QED BY <2>2, <3>2, <3>3, <3>4 DEF HandleInv
  <2> QED BY <2>1, <2>2
<1>3. ListInv'
  BY DEF ListInv, Opendir, reading
<1>4. LookInv'
  BY DEF LookInv, Opendir, Shows
<1> QED BY <1>1, <1>2, <1>3, <1>4

\* The kernel's state of an empty buffer.
LEMMA EmptyFresh ==
  ASSUME NEW h \in Handles, TypeOK, HandleInv(h), dirbuf[h] = <<>>, ~eof[h]
  PROVE  Fresh(h)
<1>1. PICK a \in 1..(Len(dirbuf[h]) + 1), z \in 0..Len(dirbuf[h]) : Received(h, a, z)
  BY DEF HandleInv
<1>2. a = 1 /\ z = 0
  BY <1>1
<1>3. pass[h] \in Seq(Entry) /\ Len(pass[h]) = 0
  BY <1>1, <1>2 DEF Received, TypeOK
<1> QED BY <1>1, <1>2, <1>3 DEF Received, Fresh, Offset, Size

LEMMA ReaddirKeeps ==
  ASSUME IInv, NEW h \in Handles, NEW s \in Sizes, Readdir(h, s)
  PROVE  IInv'
<1> USE DEF IInv
<1>1. TypeOK'
  BY DEF TypeOK, Request, Readdir, handles, kernel
<1>2. ASSUME NEW g \in Handles PROVE HandleInv(g)'
  BY HandleKept DEF Readdir, handles, kernel, Filling
<1>3. ListInv'
  <2>1. /\ stage = "idle" /\ ~eof[h] /\ asked'.handle = h
        /\ stage' = IF dirbuf[h] = <<>> THEN "seek" ELSE "reply"
        /\ UNCHANGED <<vol, inode, dirbuf, pos, after, pass, eof>>
    BY DEF Readdir, handles, kernel
  <2>2. CASE dirbuf[h] = <<>>
    <3>1. Fresh(h)'
      BY <2>1, <2>2, EmptyFresh DEF Fresh
    <3> QED BY <2>1, <2>2, <3>1 DEF ListInv
  <2>3. CASE dirbuf[h] # <<>>
    <3>1. Filled(h)
      BY <2>1, <2>3 DEF HandleInv, Filling
    <3>2. Filled(h)'
      BY <2>1, <3>1 DEF Filled, InBuf, Shows
    <3> QED BY <2>1, <2>3, <3>2 DEF ListInv
  <2> QED BY <2>2, <2>3
<1>4. LookInv'
  BY DEF LookInv, Readdir, Shows
<1> QED BY <1>1, <1>2, <1>3, <1>4

LEMMA ListFromKeeps ==
  ASSUME IInv, NEW r \in vol.recs \cup {NoRec}, ListFrom(r)
  PROVE  IInv'
<1> DEFINE h == asked.handle
           S == {q \in vol.recs : q.dir >= inode[h]}
<1> USE DEF IInv
<1>1. /\ stage = "seek" /\ stage' = "list" /\ it' = r /\ Leads(S, r)
      /\ h \in Handles /\ dirbuf[h] = <<>> /\ Fresh(h) /\ inode[h] \in Nat
      /\ UNCHANGED <<vol, open, inode, dirbuf, pos, after, pass, eof, looked, asked>>
  BY DEF ListFrom, handles, kernel, TypeOK, ListInv
<1>2. TypeOK'
  BY <1>1 DEF TypeOK
<1>3. ASSUME NEW g \in Handles PROVE HandleInv(g)'
  BY <1>1, HandleKept DEF Filling
<1>4. ListInv'
  <2>1. Fresh(h)'
    BY <1>1 DEF Fresh
  <2>2. r # NoRec => r.dir >= inode[h]
    BY <1>1 DEF Leads
  <2>3. ASSUME NEW q \in vol.recs, q.dir = inode[h]
        PROVE  r # NoRec /\ ~Before(q, r)
    <3>1. q \in S
      BY <1>1, <2>3
    <3>2. r \in S /\ \A p \in S \ {r} : Before(r, p)
      BY <1>1, <3>1 DEF Leads
    <3>3. r \in vol.recs
      BY <3>2
    <3>4. CASE q = r
      BY <3>3, <3>4, TreeOrder, VolumeFacts DEF TypeOK
    <3>5. CASE q # r
      BY <3>1, <3>2, <3>3, <3>5, TreeOrder, VolumeFacts DEF TypeOK
    <3> QED BY <3>4, <3>5
  <2>4. \A q \in vol.recs : q.dir = inode[h] => ~(r = NoRec \/ Before(q, r)) /\ ~InBuf(dirbuf[h], q)
    BY <1>1, <2>3 DEF InBuf
  <2>5. (\A q \in vol.recs : q.dir = inode[h] =>
           (InBuf(dirbuf[h], q) <=> it = NoRec \/ Before(q, it)))'
    BY <1>1, <2>4 DEF InBuf, Shows, Before, Hash
  <2> QED BY <1>1, <2>1, <2>2, <2>5 DEF ListInv
<1>5. LookInv'
  BY <1>1 DEF LookInv, Shows
<1> QED BY <1>2, <1>3, <1>4, <1>5

\* The records in the buffer come before the one at the iterator, which is
\* appended; the next one in the tree has exactly these before it.
LEMMA ListRecordKeeps ==
  ASSUME IInv, NEW r \in vol.recs \cup {NoRec}, ListRecord(r)
  PROVE  IInv'
<1> DEFINE h == asked.handle
           d == inode[h]
           b == dirbuf[h]
           c == DirbufAdd(b, it)
           S == {q \in vol.recs : Before(it, q)}
<1> USE DEF IInv
<1>1. /\ stage = "list" /\ stage' = "list" /\ it.dir = d /\ it' = r /\ Leads(S, r)
      /\ h \in Handles /\ h \in open /\ Fresh(h) /\ d \in Dirs
      /\ dirbuf' = [dirbuf EXCEPT ![h] = c]
      /\ UNCHANGED <<vol, open, inode, pos, after, pass, eof, looked, asked>>
  BY DEF ListRecord, handles, kernel, TypeOK, ListInv
<1>2. it \in vol.recs /\ it # NoRec
  <2>1. NoRec.dir = 0 /\ d # 0
    BY <1>1, DirectoryAssumption DEF NoRec, NoFile
  <2> QED BY <1>1, <2>1, VolumeFacts DEF TypeOK
<1>3. /\ b \in Seq(Entry) /\ Chained(b) /\ Ordered(b, d)
      /\ it \in [dir : Dirs, name : Names, file : Nat \ {0}]
  BY <1>1, <1>2, VolumeFacts DEF TypeOK, HandleInv
<1>4. /\ c \in Seq(Entry) /\ Len(c) = Len(b) + 1 /\ Len(b) \in Nat
      /\ \A i \in 1..Len(b) : c[i] = b[i]
      /\ Shows(c[Len(b) + 1], it) /\ Chained(c)
      /\ DOMAIN c = 1..(Len(b) + 1) /\ DOMAIN b = 1..Len(b)
  <2> HIDE DEF b
  <2>1. /\ c \in Seq(Entry) /\ Len(c) = Len(b) + 1
        /\ \A i \in 1..Len(b) : c[i] = b[i]
        /\ Shows(c[Len(b) + 1], it) /\ Chained(c)
    BY <1>3, Added
  <2> HIDE DEF c
  <2> QED BY <1>3, <2>1
<1>5. dirbuf'[h] = c /\ dirbuf' \in [Handles -> Seq(Entry)]
      /\ \A g \in Handles \ {h} : dirbuf'[g] = dirbuf[g]
  BY <1>1, <1>4 DEF TypeOK
<1>6. \A q \in vol.recs : q.dir = d => (InBuf(b, q) <=> Before(q, it))
  BY <1>1, <1>2 DEF ListInv
<1> HIDE DEF b, c
<1>7. \A q : InBuf(c, q) <=> InBuf(b, q) \/ Shows(c[Len(b) + 1], q)
  <2> SUFFICES ASSUME NEW q PROVE InBuf(c, q) <=> InBuf(b, q) \/ Shows(c[Len(b) + 1], q)
    OBVIOUS
  <2>1. \A i \in 1..(Len(b) + 1) : i \in 1..Len(b) \/ i = Len(b) + 1
    BY <1>4
  <2>2. Len(b) + 1 \in 1..(Len(b) + 1) /\ 1..Len(b) \subseteq 1..(Len(b) + 1)
    BY <1>4
  <2> QED BY <1>4, <2>1, <2>2 DEF InBuf
<1>8. \A q \in vol.recs : q.dir = d => (Shows(c[Len(b) + 1], q) <=> q = it)
  <2>1. \A q \in vol.recs : q.dir = d /\ q.name = it.name => q = it
    BY <1>1, <1>2, VolumeFacts DEF TypeOK
  <2> QED BY <1>4, <2>1 DEF Shows
<1>9. TypeOK'
  BY <1>1, <1>5 DEF TypeOK
<1>10. Ordered(c, d)
  <2>1. RecOf(d, c[Len(b) + 1]) = it
    BY <1>1, <1>3, <1>4 DEF RecOf, Shows
  <2>2. ASSUME NEW i \in 1..Len(b)
        PROVE  RecOf(d, c[i]) \in vol.recs /\ Before(RecOf(d, c[i]), it)
    <3>1. RecOf(d, b[i]) \in vol.recs /\ InBuf(b, RecOf(d, b[i]))
      BY <1>3, <1>4 DEF Ordered, InBuf, Shows, RecOf
    <3>2. RecOf(d, b[i]).dir = d
      BY DEF RecOf
    <3> QED BY <1>4, <1>6, <3>1, <3>2
  <2>3. \A i \in DOMAIN c : RecOf(d, c[i]) \in vol.recs
    BY <1>2, <1>4, <2>1, <2>2
  <2>4. ASSUME NEW i \in DOMAIN c, NEW j \in DOMAIN c, i < j
        PROVE  Before(RecOf(d, c[i]), RecOf(d, c[j]))
    <3>1. i \in 1..Len(b) /\ (j \in 1..Len(b) \/ j = Len(b) + 1)
      BY <1>4, <2>4
    <3>2. CASE j = Len(b) + 1
      BY <2>1, <2>2, <3>1, <3>2
    <3>3. CASE j \in 1..Len(b)
      BY <1>3, <1>4, <2>4, <3>1, <3>3 DEF Ordered
    <3> QED BY <3>1, <3>2, <3>3
  <2> QED BY <2>3, <2>4 DEF Ordered
<1>11. ASSUME NEW g \in Handles PROVE HandleInv(g)'
  <2>1. CASE g # h
    BY <1>1, <1>5, <2>1, HandleKept DEF Filling
  <2>2. CASE g = h
    <3>1. Chained(dirbuf[h])'
      BY <1>1, <1>4, <1>5 DEF Chained
    <3>2. Ordered(dirbuf[h], inode[h])'
      <4>1. \A x, y : Before(x, y)' <=> Before(x, y)
        BY <1>1 DEF Before, Hash
      <4>2. \A i \in DOMAIN c : RecOf(d, c[i]) \in vol.recs
        BY <1>10 DEF Ordered
      <4>3. \A i, j \in DOMAIN c : i < j => Before(RecOf(d, c[i]), RecOf(d, c[j]))
        BY <1>10 DEF Ordered
      <4> HIDE DEF d
      <4> QED BY <1>1, <1>5, <4>1, <4>2, <4>3 DEF Ordered, d
    <3>3. Received(h, 1, 0)'
      <4>1. Offset(c, 1) = 0
        BY <1>4, Offsets
      <4>2. Len(pass[h]) = 0 /\ DOMAIN pass[h] = {}
        BY <1>1 DEF Fresh
      <4> QED BY <1>1, <1>5, <4>1, <4>2 DEF Received, Fresh, Offset, Size
    <3>4. 1 \in 1..(Len(dirbuf'[h]) + 1) /\ 0 \in 0..Len(dirbuf'[h])
      BY <1>4, <1>5
    <3> QED BY <1>1, <2>2, <3>1, <3>2, <3>3, <3>4 DEF HandleInv, Filling
  <2> QED BY <2>1, <2>2
<1>12. ListInv'
  <2>1. Fresh(h)'
    BY <1>1 DEF Fresh
  <2>2. r # NoRec => r \in vol.recs /\ Before(it, r) /\ r.dir >= d
    <3>1. r # NoRec => r \in S
      BY <1>1 DEF Leads
    <3>2. r # NoRec => r \in vol.recs /\ Before(it, r)
      BY <3>1
    <3>3. r # NoRec => it.dir <= r.dir
      BY <1>2, <3>2, TreeOrder DEF TypeOK
    <3>4. r # NoRec => r.dir \in Nat
      BY <3>2, VolumeFacts, DirectoryAssumption DEF TypeOK
    <3>5. d \in Nat
      BY <1>1, DirectoryAssumption
    <3> QED BY <1>1, <3>2, <3>3, <3>4, <3>5
  <2>3. ASSUME NEW q \in vol.recs, q.dir = d
        PROVE  InBuf(c, q) <=> r = NoRec \/ Before(q, r)
    <3>1. InBuf(c, q) <=> q = it \/ Before(q, it)
      BY <1>6, <1>7, <1>8, <2>3
    <3>2. q = it \/ Before(q, it) => r = NoRec \/ Before(q, r)
      BY <1>2, <2>2, TreeOrder DEF TypeOK
    <3>3. ASSUME ~(q = it \/ Before(q, it)) PROVE r # NoRec /\ ~Before(q, r)
      <4>1. q \in S
        BY <1>2, <3>3, TreeOrder DEF TypeOK
      <4>2. r \in S /\ \A p \in S \ {r} : Before(r, p)
        BY <1>1, <4>1 DEF Leads
      <4>3. r \in vol.recs
        BY <4>2
      <4>4. r # NoRec
        BY <4>3, VolumeFacts DEF TypeOK
      <4>5. CASE q = r
        BY <4>3, <4>4, <4>5, TreeOrder DEF TypeOK
      <4>6. CASE q # r
        BY <4>1, <4>2, <4>3, <4>4, <4>6, TreeOrder DEF TypeOK
      <4> QED BY <4>5, <4>6
    <3> QED BY <3>1, <3>2, <3>3
  <2>4. (\A q \in vol.recs : q.dir = inode[h] =>
           (InBuf(dirbuf[h], q) <=> it = NoRec \/ Before(q, it)))'
    <3>1. \A q \in vol.recs : q.dir = d =>
            ((\E i \in DOMAIN c : Shows(c[i], q)) <=> r = NoRec \/ Before(q, r))
      BY <2>3 DEF InBuf
    <3> QED BY SMTT(30), <1>1, <1>5, <3>1 DEF InBuf, Shows, Before, Hash
  <2> QED BY <1>1, <2>1, <2>2, <2>4 DEF ListInv
<1>13. LookInv'
  BY <1>1 DEF LookInv, Shows
<1> QED BY <1>9, <1>11, <1>12, <1>13

LEMMA ListEndKeeps ==
  ASSUME IInv, ListEnd
  PROVE  IInv'
<1> DEFINE h == asked.handle
<1> USE DEF IInv
<1>1. /\ stage = "list" /\ stage' = "reply" /\ it.dir # inode[h]
      /\ h \in Handles /\ Fresh(h) /\ inode[h] \in Nat
      /\ UNCHANGED <<vol, open, inode, dirbuf, pos, after, pass, eof, looked, asked, it>>
  BY DEF ListEnd, handles, kernel, TypeOK, ListInv
<1>2. Filled(h)
  <2> SUFFICES ASSUME NEW r \in vol.recs, r.dir = inode[h] PROVE InBuf(dirbuf[h], r)
    BY DEF Filled
  <2>1. it = NoRec \/ (it \in vol.recs /\ it.dir \in Nat /\ it.dir >= inode[h])
    BY <1>1, VolumeFacts, DirectoryAssumption DEF TypeOK, ListInv
  <2>2. it = NoRec \/ (it \in vol.recs /\ r.dir < it.dir)
    BY <1>1, <2>1
  <2>3. it = NoRec \/ Before(r, it)
    BY <2>2, TreeOrder DEF TypeOK
  <2> QED BY <1>1, <2>3 DEF ListInv
<1>3. TypeOK'
  BY <1>1 DEF TypeOK
<1>4. ASSUME NEW g \in Handles PROVE HandleInv(g)'
  BY <1>1, <1>2, HandleKept DEF Filling
<1>5. ListInv'
  <2>1. Filled(h)' /\ ~eof'[h]
    BY <1>1, <1>2 DEF Filled, InBuf, Shows, Fresh
  <2> QED BY <1>1, <2>1 DEF ListInv
<1>6. LookInv'
  BY <1>1 DEF LookInv, Shows
<1> QED BY <1>3, <1>4, <1>5, <1>6

LEMMA Joined ==
  ASSUME NEW T, NEW p \in Seq(T), NEW t \in Seq(T)
  PROVE  /\ p \o t \in Seq(T) /\ Len(p \o t) = Len(p) + Len(t)
         /\ \A k \in 1..(Len(p) + Len(t)) :
              (p \o t)[k] = IF k <= Len(p) THEN p[k] ELSE t[k - Len(p)]
OBVIOUS

\* The reply goes on at the entry after the last one received; it is empty only
\* at the end of the buffer, as an entry always fits.
LEMMA ReplyKeeps ==
  ASSUME IInv, Reply
  PROVE  IInv'
<1> DEFINE h == asked.handle
           b == dirbuf[h]
           upto == PieceEnd(b, pos[h], asked.size)
<1> USE DEF IInv
<1>1. /\ stage = "reply" /\ stage' = "idle" /\ h \in Handles /\ h \in open
      /\ asked.size \in Sizes /\ asked' = NoRequest /\ it' = NoRec
      /\ UNCHANGED <<vol, open, inode, dirbuf, after, looked>>
      /\ b \in Seq(Entry) /\ Chained(b) /\ Filled(h)
      /\ pass[h] \in Seq(Entry) /\ pos[h] \in Nat
  BY DEF Reply, handles, TypeOK, HandleInv, ListInv
<1>2. PICK i \in 1..(Len(b) + 1), j \in 0..Len(b) :
        /\ pos[h] = Offset(b, i)
        /\ j >= i - 1
        /\ \A k \in i..Len(b) : k <= j <=> b[k].next <= upto
        /\ pass' = [pass EXCEPT ![h] = @ \o SubSeq(b, i, j)]
        /\ pos' = [pos EXCEPT ![h] = Offset(b, j + 1)]
        /\ eof' = [eof EXCEPT ![h] = j < i]
  BY DEF Reply
<1>3. PICK a \in 1..(Len(b) + 1), z \in 0..Len(b) : Received(h, a, z)
  BY <1>1 DEF HandleInv
<1>4. /\ a <= z + 1 /\ Len(pass[h]) = z + 1 - a
      /\ \A k \in DOMAIN pass[h] : pass[h][k] = b[a + k - 1]
      /\ pos[h] = Offset(b, z + 1)
      /\ after[h] = IF a = 1 THEN NoName ELSE b[a - 1].name
  BY <1>3 DEF Received
<1> HIDE DEF b
<1>5. i = z + 1
  <2>1. z + 1 \in 1..(Len(b) + 1)
    BY <1>1
  <2> QED BY <1>1, <1>2, <1>4, <2>1, Offsets
<1>6. j < i => j = Len(b)
  <2> SUFFICES ASSUME j < i, i <= Len(b) PROVE FALSE
    BY <1>1, <1>2, <1>5
  <2>1. i \in DOMAIN b /\ i \in i..Len(b) /\ b[i] \in Entry /\ ~(i <= j)
    BY <1>1
  <2>2. b[i].name \in Names /\ b[i].at \in Nat /\ b[i].next \in Nat
    BY <2>1 DEF Entry
  <2>3. asked.size \in Nat /\ Space[b[i].name] \in Nat /\ asked.size >= Space[b[i].name]
    BY <1>1, <2>2, DirectoryAssumption
  <2>4. pos[h] = b[i].at /\ b[i].next = b[i].at + Space[b[i].name]
    BY <1>1, <1>2, <2>1 DEF Offset, Chained
  <2>5. pos[h] < b[i].next /\ b[i].next <= Size(b) /\ Size(b) \in Nat
    BY <1>1, <2>1, <2>4, Offsets
  <2>6. b[i].next <= upto
    BY SMTT(30), <2>2, <2>3, <2>4, <2>5 DEF PieceEnd
  <2> QED BY <1>2, <2>1, <2>6
<1>7. /\ pass'[h] \in Seq(Entry)
      /\ Len(pass'[h]) = j + 1 - a
      /\ \A k \in DOMAIN pass'[h] : pass'[h][k] = b[a + k - 1]
  <2> DEFINE p == pass[h]
             t == SubSeq(b, i, j)
  <2>1. t \in Seq(Entry) /\ Len(t) = j + 1 - i /\ \A k \in 1..Len(t) : t[k] = b[i + k - 1]
    BY <1>1, <1>2
  <2>2. pass'[h] = p \o t
    BY <1>1, <1>2 DEF TypeOK
  <2>3. p \in Seq(Entry) /\ Len(p) = i - a /\ \A k \in 1..Len(p) : p[k] = b[a + k - 1]
    BY SMTT(30), <1>1, <1>4, <1>5
  <2> HIDE DEF p, t
  <2>4. /\ p \o t \in Seq(Entry) /\ Len(p \o t) = Len(p) + Len(t)
        /\ \A k \in 1..(Len(p) + Len(t)) :
             (p \o t)[k] = IF k <= Len(p) THEN p[k] ELSE t[k - Len(p)]
    BY <2>1, <2>3, Joined
  <2>5. Len(p \o t) = j + 1 - a
    BY <2>1, <2>3, <2>4
  <2>6. ASSUME NEW k \in 1..Len(p \o t) PROVE (p \o t)[k] = b[a + k - 1]
    <3>1. CASE k <= Len(p)
      BY <2>3, <2>4, <3>1
    <3>2. CASE k > Len(p)
      <4>1. k - Len(p) \in 1..Len(t) /\ i + (k - Len(p)) - 1 = a + k - 1
        BY <2>1, <2>3, <2>4, <3>2
      <4> QED BY <2>1, <2>3, <2>4, <3>2, <4>1
    <3> QED BY <2>3, <2>4, <3>1, <3>2
  <2>7. DOMAIN (p \o t) = 1..Len(p \o t)
    BY <2>4
  <2> QED BY <2>2, <2>4, <2>5, <2>6, <2>7
<1>8. Offset(b, j + 1) \in Nat
  <2>1. \A k \in DOMAIN b : b[k] \in Entry
    BY <1>1
  <2> QED BY <1>1, <2>1, Offsets DEF Offset, Entry
<1>9. /\ pass' \in [Handles -> Seq(Entry)] /\ pos' \in [Handles -> Nat]
      /\ eof' \in [Handles -> BOOLEAN]
      /\ pos'[h] = Offset(b, j + 1) /\ (eof'[h] <=> j < i)
      /\ \A g \in Handles \ {h} : pass'[g] = pass[g] /\ pos'[g] = pos[g] /\ eof'[g] = eof[g]
  <2>1. /\ pass \in [Handles -> Seq(Entry)] /\ pos \in [Handles -> Nat]
        /\ eof \in [Handles -> BOOLEAN]
    BY DEF TypeOK
  <2> DEFINE p == pass[h] \o SubSeq(b, i, j)
             o == Offset(b, j + 1)
             e == j < i
  <2>2. pass' = [pass EXCEPT ![h] = p] /\ pos' = [pos EXCEPT ![h] = o] /\ eof' = [eof EXCEPT ![h] = e]
    BY <1>2
  <2>3. pass'[h] = p
    BY <1>1, <2>1, <2>2
  <2>4. p \in Seq(Entry) /\ o \in Nat /\ e \in BOOLEAN
    BY <1>7, <1>8, <2>3
  <2> HIDE DEF p, o, e
  <2>5. pass' \in [Handles -> Seq(Entry)] /\ \A g \in Handles \ {h} : pass'[g] = pass[g]
    BY <1>1, <2>1, <2>2, <2>4
  <2>6. /\ pos' \in [Handles -> Nat] /\ pos'[h] = o
        /\ \A g \in Handles \ {h} : pos'[g] = pos[g]
    BY <1>1, <2>1, <2>2, <2>4
  <2>7. /\ eof' \in [Handles -> BOOLEAN] /\ eof'[h] = e
        /\ \A g \in Handles \ {h} : eof'[g] = eof[g]
    BY <1>1, <2>1, <2>2, <2>4
  <2> QED BY <2>5, <2>6, <2>7 DEF o, e
<1>10. TypeOK'
  BY <1>1, <1>9 DEF TypeOK, Request, NoRequest
<1>11. ASSUME NEW g \in Handles PROVE HandleInv(g)'
  <2>1. CASE g # h
    BY <1>1, <1>9, <2>1, HandleKept DEF Filling
  <2>2. CASE g = h
    <3>1. Chained(dirbuf[g])' /\ Ordered(dirbuf[g], inode[g])'
      <4>1. HandleInv(g) /\ vol' = vol /\ inode' = inode /\ dirbuf' = dirbuf
        BY <1>1
      <4> QED BY <4>1, BufferKept
    <3>2. Filled(g)' /\ dirbuf'[g] = b /\ after'[g] = after[h] /\ g \in open'
      BY <1>1, <2>2 DEF Filled, InBuf, Shows, b
    <3>3. pass'[g] = pass'[h] /\ pos'[g] = pos'[h] /\ eof'[g] = eof'[h]
      BY <2>2
    <3>4. Received(g, a, j)'
      <4>1. a <= j + 1
        BY <1>1, <1>2, <1>4, <1>5
      <4>2. Len(pass'[g]) = j + 1 - a /\ \A k \in DOMAIN pass'[g] : pass'[g][k] = dirbuf'[g][a + k - 1]
        BY <1>7, <3>2, <3>3
      <4>3. pos'[g] = (IF j + 1 \in DOMAIN dirbuf'[g] THEN dirbuf'[g][j + 1].at ELSE Size(dirbuf'[g]))
        BY <1>9, <3>2, <3>3 DEF Offset
      <4>4. after'[g] = IF a = 1 THEN NoName ELSE dirbuf'[g][a - 1].name
        BY <1>4, <3>2
      <4>5. eof'[g] => j = Len(dirbuf'[g]) /\ Filled(g)'
        BY <1>6, <1>9, <3>2, <3>3
      <4> QED BY <4>1, <4>2, <4>3, <4>4, <4>5 DEF Received, Offset
    <3> QED BY <3>1, <3>2, <3>4 DEF HandleInv
  <2> QED BY <2>1, <2>2
<1>12. ListInv'
  BY <1>1 DEF ListInv
<1>13. LookInv'
  BY <1>1 DEF LookInv, Shows
<1> QED BY <1>10, <1>11, <1>12, <1>13

\* A new pass from the end of entry m.
LEMMA RestartKeeps ==
  ASSUME IInv, NEW h \in Handles, NEW m \in 0..Len(dirbuf[h]), NEW o, NEW n,
         o = Offset(dirbuf[h], m + 1),
         n = IF m = 0 THEN NoName ELSE dirbuf[h][m].name,
         Restart(h, o, n)
  PROVE  IInv'
<1> DEFINE b == dirbuf[h]
<1> USE DEF IInv
<1>1. /\ stage = "idle" /\ h \in open /\ b \in Seq(Entry) /\ Chained(b)
      /\ pos' = [pos EXCEPT ![h] = o] /\ after' = [after EXCEPT ![h] = n]
      /\ pass' = [pass EXCEPT ![h] = <<>>] /\ eof' = [eof EXCEPT ![h] = FALSE]
      /\ UNCHANGED <<vol, open, inode, dirbuf, looked, stage, asked, it>>
  BY DEF Restart, handles, reading, TypeOK, HandleInv
<1>2. o \in Nat /\ n \in Names \cup {NoName}
  <2> HIDE DEF b
  <2>1. \A k \in DOMAIN b : b[k] \in Entry
    BY <1>1
  <2>2. Offset(b, m + 1) \in Nat
    BY <1>1, <2>1, Offsets DEF Offset, Entry
  <2>3. m # 0 => m \in DOMAIN b
    BY <1>1 DEF b
  <2>4. m # 0 => b[m].name \in Names
    BY <2>1, <2>3 DEF Entry
  <2> QED BY <2>2, <2>4 DEF b
<1>3. /\ pos' \in [Handles -> Nat] /\ after' \in [Handles -> Names \cup {NoName}]
      /\ pass' \in [Handles -> Seq(Entry)] /\ eof' \in [Handles -> BOOLEAN]
      /\ pos'[h] = o /\ after'[h] = n /\ pass'[h] = <<>> /\ eof'[h] = FALSE
      /\ \A g \in Handles \ {h} : /\ pos'[g] = pos[g] /\ after'[g] = after[g]
                                  /\ pass'[g] = pass[g] /\ eof'[g] = eof[g]
  <2>1. <<>> \in Seq(Entry)
    OBVIOUS
  <2> QED BY <1>1, <1>2, <2>1 DEF TypeOK
<1>4. TypeOK'
  BY <1>1, <1>3 DEF TypeOK
<1>5. ASSUME NEW g \in Handles PROVE HandleInv(g)'
  <2>1. CASE g # h
    BY <1>1, <1>3, <2>1, HandleKept DEF Filling
  <2>2. CASE g = h
    <3>1. Chained(dirbuf[h])' /\ Ordered(dirbuf[h], inode[h])' /\ (Filled(h)' <=> Filled(h))
      BY <1>1, BufferKept
    <3>2. Received(h, m + 1, m)'
      BY <1>1, <1>3 DEF Received, Offset, Size
    <3>3. m + 1 \in 1..(Len(dirbuf'[h]) + 1) /\ m \in 0..Len(dirbuf'[h])
      BY <1>1
    <3> QED BY <1>1, <2>2, <3>1, <3>2, <3>3 DEF HandleInv, Filling
  <2> QED BY <2>1, <2>2
<1>6. ListInv'
  BY <1>1 DEF ListInv
<1>7. LookInv'
  BY <1>1 DEF LookInv, Shows
<1> QED BY <1>4, <1>5, <1>6, <1>7

LEMMA RewindKeeps ==
  ASSUME IInv, NEW h \in Handles, Rewind(h)
  PROVE  IInv'
<1>1. dirbuf[h] \in Seq(Entry) /\ Chained(dirbuf[h])
  BY DEF IInv, TypeOK, HandleInv
<1>2. 0 \in 0..Len(dirbuf[h]) /\ 0 = Offset(dirbuf[h], 0 + 1)
  BY <1>1, Offsets
<1> QED BY <1>2, RestartKeeps DEF Rewind

LEMMA SeekKeeps ==
  ASSUME IInv, NEW h \in Handles, Seek(h)
  PROVE  IInv'
<1> DEFINE b == dirbuf[h]
<1>1. PICK k \in DOMAIN pass[h] : Restart(h, pass[h][k].next, pass[h][k].name)
  BY DEF Seek
<1>2. PICK a \in 1..(Len(b) + 1), z \in 0..Len(b) : Received(h, a, z)
  BY DEF IInv, HandleInv
<1>3. /\ b \in Seq(Entry) /\ Chained(b) /\ pass[h] \in Seq(Entry)
      /\ Len(pass[h]) = z + 1 - a /\ pass[h][k] = b[a + k - 1]
  BY <1>2 DEF IInv, TypeOK, HandleInv, Received
<1> DEFINE m == a + k - 1
<1> HIDE DEF b
<1>4. k \in 1..Len(pass[h]) /\ Len(b) \in Nat
  BY <1>3
<1>5. m \in 1..Len(b)
  BY <1>2, <1>3, <1>4
<1>6. b[m].next = Offset(b, m + 1)
  <2> HIDE DEF m
  <2>1. CASE m = Len(b)
    BY <1>3, <1>4, <1>5, <2>1 DEF Offset, Size
  <2>2. CASE m # Len(b)
    <3>1. m + 1 \in DOMAIN b /\ m \in DOMAIN b
      BY SMTT(30), <1>3, <1>4, <1>5, <2>2
    <3> QED BY <1>3, <3>1 DEF Offset, Chained
  <2> QED BY <2>1, <2>2
<1>7. m \in 0..Len(dirbuf[h]) /\ m # 0
  BY <1>5 DEF b
<1> QED BY <1>1, <1>3, <1>6, <1>7, RestartKeeps DEF b

LEMMA ReleasedirKeeps ==
  ASSUME IInv, NEW h \in Handles, Releasedir(h)
  PROVE  IInv'
<1> USE DEF IInv
<1>1. /\ stage = "idle" /\ h \in open /\ open' = open \ {h}
      /\ UNCHANGED <<vol, looked, stage, asked, it>>
      /\ inode' = [inode EXCEPT ![h] = NoFile] /\ dirbuf' = [dirbuf EXCEPT ![h] = <<>>]
      /\ pos' = [pos EXCEPT ![h] = 0] /\ after' = [after EXCEPT ![h] = NoName]
      /\ pass' = [pass EXCEPT ![h] = <<>>] /\ eof' = [eof EXCEPT ![h] = FALSE]
  BY DEF Releasedir, reading
<1>2. <<>> \in Seq(Entry) /\ NoFile \in Nat
  BY DEF NoFile
<1>3. TypeOK'
  BY <1>1, <1>2 DEF TypeOK
<1>4. ASSUME NEW g \in Handles PROVE HandleInv(g)'
  <2>1. CASE g # h
    BY <1>1, <2>1, HandleKept DEF Filling, TypeOK
  <2>2. CASE g = h
    <3>1. dirbuf'[h] = <<>> /\ Fresh(h)' /\ Len(dirbuf'[h]) = 0
      BY <1>1 DEF Fresh, TypeOK
    <3>2. Chained(dirbuf[h])' /\ Ordered(dirbuf[h], inode[h])'
      BY <3>1 DEF Chained, Ordered
    <3>3. Received(h, 1, 0)'
      BY <3>1 DEF Received, Fresh, Offset, Size
    <3> QED BY <2>2, <3>1, <3>2, <3>3 DEF HandleInv
  <2> QED BY <2>1, <2>2
<1>5. ListInv'
  BY <1>1 DEF ListInv
<1>6. LookInv'
  BY <1>1 DEF LookInv, Shows
<1> QED BY <1>3, <1>4, <1>5, <1>6

\* A lookup that succeeds finds the one record of the name, as equal keys are
\* equal names; one that fails without an error proves that there is none.
LEMMA LookupKeeps ==
  ASSUME IInv, NEW d \in Dirs, NEW n \in Names,
         LookupHit(d, n) \/ LookupMiss(d, n) \/ LookupFails(d, n)
  PROVE  IInv'
<1> USE DEF IInv
<1>1. UNCHANGED <<vol, open, inode, dirbuf, pos, after, pass, eof, stage, asked, it>>
  BY DEF LookupHit, LookupMiss, LookupFails, Looked, handles, kernel, reading
<1>2. TypeOK'
  BY <1>1 DEF TypeOK
<1>3. ASSUME NEW g \in Handles PROVE HandleInv(g)'
  BY <1>1, HandleKept DEF Filling
<1>4. ListInv'
  BY <1>1 DEF ListInv, Fresh, Filled, InBuf, Shows, Before, Hash
<1>5. LookInv'
  <2>1. CASE LookupHit(d, n)
    <3>1. PICK r \in vol.recs : /\ Matches(r, d, n)
                                /\ looked' = [dir |-> d, name |-> n, file |-> r.file, failed |-> FALSE]
      BY <2>1 DEF LookupHit, Looked
    <3>2. r.dir = d /\ r.name \in Names /\ Rank[r.name] = Rank[n]
      BY <3>1, VolumeFacts DEF Matches, TypeOK
    <3>3. r.name = n
      BY <3>2, DirectoryAssumption
    <3>4. \A q \in vol.recs : q.dir = d /\ q.name = n => q = r
      BY <3>2, <3>3, VolumeFacts DEF TypeOK
    <3> QED BY <1>1, <3>1, <3>2, <3>3, <3>4 DEF LookInv, Shows
  <2>2. CASE LookupMiss(d, n)
    <3>1. looked' = [dir |-> d, name |-> n, file |-> NoFile, failed |-> FALSE]
      BY <2>2 DEF LookupMiss, Looked
    <3>2. \A r \in vol.recs : ~(r.dir = d /\ r.name = n)
      BY <2>2 DEF LookupMiss, Matches
    <3> QED BY <1>1, <3>1, <3>2 DEF LookInv
  <2>3. CASE LookupFails(d, n)
    BY <1>1, <2>3 DEF LookupFails, Looked, LookInv
  <2> QED BY <2>1, <2>2, <2>3
<1> QED BY <1>2, <1>3, <1>4, <1>5

LEMMA NextInv == IInv /\ [Next]_vars => IInv'
<1> SUFFICES ASSUME IInv, [Next]_vars PROVE IInv'
  OBVIOUS
<1>1. ASSUME NEW h \in Handles, NEW d \in Dirs, Opendir(h, d) PROVE IInv'
  BY <1>1, OpendirKeeps
<1>2. ASSUME NEW h \in Handles, NEW s \in Sizes, Readdir(h, s) PROVE IInv'
  BY <1>2, ReaddirKeeps
<1>3. ASSUME NEW r \in vol.recs \cup {NoRec}, ListFrom(r) \/ ListRecord(r) PROVE IInv'
  BY <1>3, ListFromKeeps, ListRecordKeeps
<1>4. CASE ListEnd \/ Reply
  BY <1>4, ListEndKeeps, ReplyKeeps
<1>5. ASSUME NEW h \in Handles, Rewind(h) \/ Seek(h) \/ Releasedir(h) PROVE IInv'
  BY <1>5, RewindKeeps, SeekKeeps, ReleasedirKeeps
<1>6. ASSUME NEW d \in Dirs, NEW n \in Names,
             LookupHit(d, n) \/ LookupMiss(d, n) \/ LookupFails(d, n)
      PROVE  IInv'
  BY <1>6, LookupKeeps
<1>7. CASE UNCHANGED vars
  <2>1. UNCHANGED <<vol, open, inode, dirbuf, pos, after, pass, eof, looked, stage, asked, it>>
    BY <1>7 DEF vars
  <2>2. TypeOK'
    BY <2>1 DEF IInv, TypeOK
  <2>3. ASSUME NEW g \in Handles PROVE HandleInv(g)'
    BY <2>1, HandleKept DEF IInv, Filling
  <2>4. ListInv'
    BY <2>1 DEF IInv, ListInv, Fresh, Filled, InBuf, Shows, Before, Hash
  <2>5. LookInv'
    BY <2>1 DEF IInv, LookInv, Shows
  <2> QED BY <2>2, <2>3, <2>4, <2>5 DEF IInv
<1> QED BY <1>1, <1>2, <1>3, <1>4, <1>5, <1>6, <1>7 DEF Next

-----------------------------------------------------------------------------
(* What the kernel is told.                                                 *)

\* In a buffer, entries are at the places of their records.
LEMMA BufferFacts ==
  ASSUME IInv, NEW h \in Handles
  PROVE  LET b == dirbuf[h] IN
         /\ vol \in Volumes /\ b \in Seq(Entry)
         /\ \A i \in DOMAIN b :
              /\ RecOf(inode[h], b[i]) \in vol.recs
              /\ Shows(b[i], RecOf(inode[h], b[i]))
              /\ \A r \in vol.recs : r.dir = inode[h] /\ r.name = b[i].name =>
                   r = RecOf(inode[h], b[i])
         /\ \A i, j \in DOMAIN b :
              /\ i < j => Before(RecOf(inode[h], b[i]), RecOf(inode[h], b[j]))
              /\ b[i].name = b[j].name => i = j
<1> DEFINE b == dirbuf[h]
           d == inode[h]
<1>1. vol \in Volumes /\ b \in Seq(Entry) /\ Ordered(b, d)
  BY DEF IInv, TypeOK, HandleInv
<1> HIDE DEF b, d
<1>2. \A i \in DOMAIN b : RecOf(d, b[i]) \in vol.recs /\ Shows(b[i], RecOf(d, b[i]))
  BY <1>1 DEF Ordered, RecOf, Shows
<1>3. ASSUME NEW i \in DOMAIN b, NEW r \in vol.recs, r.dir = d, r.name = b[i].name
      PROVE  r = RecOf(d, b[i])
  <2>1. RecOf(d, b[i]).dir = d /\ RecOf(d, b[i]).name = b[i].name
    BY DEF RecOf
  <2> QED BY <1>1, <1>2, <1>3, <2>1, VolumeFacts
<1>4. \A i, j \in DOMAIN b : i < j => Before(RecOf(d, b[i]), RecOf(d, b[j]))
  BY <1>1 DEF Ordered
<1>5. ASSUME NEW i \in DOMAIN b, NEW j \in DOMAIN b, b[i].name = b[j].name
      PROVE  i = j
  <2>1. RecOf(d, b[i]) = RecOf(d, b[j])
    <3>1. RecOf(d, b[i]).dir = d /\ RecOf(d, b[i]).name = b[j].name
      BY <1>5 DEF RecOf
    <3> QED BY <1>2, <1>3, <3>1
  <2>2. ~Before(RecOf(d, b[i]), RecOf(d, b[j])) /\ ~Before(RecOf(d, b[j]), RecOf(d, b[i]))
    BY <1>1, <1>2, <2>1, TreeOrder
  <2>3. i \in Nat /\ j \in Nat
    BY <1>1
  <2> QED BY <1>4, <2>2, <2>3
<1> QED BY <1>1, <1>2, <1>3, <1>4, <1>5 DEF b, d

\* Where the pass of a handle is in its buffer.
LEMMA PassFacts ==
  ASSUME IInv, NEW h \in Handles
  PROVE  \E a \in 1..(Len(dirbuf[h]) + 1), z \in 0..Len(dirbuf[h]) :
           /\ Received(h, a, z)
           /\ \A k \in DOMAIN pass[h] : a + k - 1 \in DOMAIN dirbuf[h] /\ k \in Nat \ {0}
           /\ \A i \in DOMAIN dirbuf[h] : a <= i /\ i <= z => i - a + 1 \in DOMAIN pass[h]
<1>1. PICK a \in 1..(Len(dirbuf[h]) + 1), z \in 0..Len(dirbuf[h]) : Received(h, a, z)
  BY DEF IInv, HandleInv
<1>2. dirbuf[h] \in Seq(Entry) /\ pass[h] \in Seq(Entry)
  BY DEF IInv, TypeOK
<1>3. Len(pass[h]) = z + 1 - a /\ a <= z + 1
  BY <1>1 DEF Received
<1> DEFINE b == dirbuf[h]
           p == pass[h]
<1>4. DOMAIN b = 1..Len(b) /\ DOMAIN p = 1..Len(p) /\ Len(b) \in Nat /\ Len(p) \in Nat
  BY <1>2
<1>5. \A k \in DOMAIN p : a + k - 1 \in DOMAIN b /\ k \in Nat \ {0}
  <2> HIDE DEF b, p
  <2> QED BY <1>3, <1>4 DEF b, p
<1>6. \A i \in DOMAIN b : a <= i /\ i <= z => i - a + 1 \in DOMAIN p
  <2> HIDE DEF b, p
  <2> QED BY <1>3, <1>4 DEF b, p
<1> QED BY <1>1, <1>5, <1>6

LEMMA IInvComplete == IInv => ScanComplete
<1> SUFFICES ASSUME IInv, NEW h \in open, eof[h]
             PROVE  LET due == {r \in vol.recs :
                                  /\ r.dir = inode[h]
                                  /\ \A q \in vol.recs :
                                       q.dir = r.dir /\ q.name = after[h] => Before(q, r)}
                    IN /\ \A r \in due : \E i \in DOMAIN pass[h] : Shows(pass[h][i], r)
                       /\ \A i \in DOMAIN pass[h] : \E r \in due : Shows(pass[h][i], r)
                       /\ \A i, j \in DOMAIN pass[h] :
                            pass[h][i].name = pass[h][j].name => i = j
  BY DEF ScanComplete
<1> DEFINE b == dirbuf[h]
           p == pass[h]
           d == inode[h]
           due == {r \in vol.recs :
                     /\ r.dir = d
                     /\ \A q \in vol.recs : q.dir = r.dir /\ q.name = after[h] => Before(q, r)}
<1>1. h \in Handles
  BY DEF IInv, TypeOK
<1>2. PICK a \in 1..(Len(b) + 1), z \in 0..Len(b) :
        /\ Received(h, a, z)
        /\ \A k \in DOMAIN p : a + k - 1 \in DOMAIN b /\ k \in Nat \ {0}
        /\ \A i \in DOMAIN b : a <= i /\ i <= z => i - a + 1 \in DOMAIN p
  BY <1>1, PassFacts
<1>3. /\ \A k \in DOMAIN p : p[k] = b[a + k - 1]
      /\ after[h] = IF a = 1 THEN NoName ELSE b[a - 1].name
      /\ z = Len(b) /\ Filled(h)
  BY <1>2 DEF Received
<1>4. /\ vol \in Volumes /\ b \in Seq(Entry)
      /\ \A i \in DOMAIN b :
           /\ RecOf(d, b[i]) \in vol.recs /\ Shows(b[i], RecOf(d, b[i]))
           /\ \A r \in vol.recs : r.dir = d /\ r.name = b[i].name => r = RecOf(d, b[i])
      /\ \A i, j \in DOMAIN b : /\ i < j => Before(RecOf(d, b[i]), RecOf(d, b[j]))
                                /\ b[i].name = b[j].name => i = j
  BY <1>1, BufferFacts
<1>5. \A i : RecOf(d, b[i]).dir = d /\ RecOf(d, b[i]).name = b[i].name
  BY DEF RecOf
<1>6. \A r \in vol.recs : r.name # NoName
  BY <1>4, VolumeFacts, DirectoryAssumption
<1>7. \A r \in vol.recs : r.dir = d => \E i \in DOMAIN b : Shows(b[i], r)
  BY <1>3 DEF Filled, InBuf
<1> HIDE DEF b, p, d
<1>8. DOMAIN b = 1..Len(b) /\ Len(b) \in Nat /\ a \in Nat \ {0}
  BY <1>4
<1>9. a # 1 => a - 1 \in DOMAIN b
  BY <1>8, <1>2
<1>10. ASSUME NEW r \in due PROVE \E k \in DOMAIN p : Shows(p[k], r)
  <2>1. r \in vol.recs /\ r.dir = d
    OBVIOUS
  <2>2. PICK i \in DOMAIN b : Shows(b[i], r)
    BY <1>7, <2>1
  <2>3. r = RecOf(d, b[i])
    BY <1>4, <2>1, <2>2 DEF Shows
  <2>4. a <= i
    <3>1. CASE a = 1
      BY <1>8, <2>2, <3>1
    <3>2. CASE a # 1
      <4> DEFINE q == RecOf(d, b[a - 1])
      <4>1. q \in vol.recs /\ q.dir = r.dir /\ q.name = after[h]
        BY <1>3, <1>4, <1>5, <1>9, <2>1, <3>2
      <4>2. Before(q, r)
        BY <4>1
      <4>3. ~Before(r, q)
        BY <1>4, <2>1, <4>1, <4>2, TreeOrder
      <4>4. ~(i < a - 1)
        BY <1>4, <1>9, <2>3, <3>2, <4>3
      <4>5. i # a - 1
        <5>1. ~Before(r, r)
          BY <1>4, <2>1, TreeOrder
        <5> QED BY <2>3, <4>2, <5>1
      <4> QED BY <1>8, <2>2, <4>4, <4>5
    <3> QED BY <3>1, <3>2
  <2>5. i <= z
    BY <1>3, <1>8, <2>2
  <2> DEFINE k == i - a + 1
  <2>6. k \in DOMAIN p /\ a + k - 1 = i
    BY <1>2, <1>8, <2>2, <2>4, <2>5
  <2>7. p[k] = b[i]
    BY <1>3, <2>6
  <2> QED BY <2>2, <2>6, <2>7
<1>11. ASSUME NEW k \in DOMAIN p PROVE \E r \in due : Shows(p[k], r)
  <2> DEFINE i == a + k - 1
             r == RecOf(d, b[i])
  <2>1. i \in DOMAIN b /\ p[k] = b[i] /\ k \in Nat \ {0}
    BY <1>2, <1>3
  <2>2. r \in vol.recs /\ r.dir = d /\ Shows(p[k], r)
    BY <1>4, <1>5, <2>1
  <2>3. ASSUME NEW q \in vol.recs, q.dir = r.dir, q.name = after[h] PROVE Before(q, r)
    <3>1. a # 1
      BY <1>3, <1>6, <2>3
    <3>2. q = RecOf(d, b[a - 1])
      BY <1>3, <1>4, <1>9, <2>2, <2>3, <3>1
    <3>3. a - 1 < i
      BY <1>8, <2>1
    <3> QED BY <1>4, <1>9, <2>1, <3>1, <3>2, <3>3
  <2>4. r \in due
    BY <2>2, <2>3
  <2> QED BY <2>2, <2>4
<1>12. ASSUME NEW k \in DOMAIN p, NEW l \in DOMAIN p, p[k].name = p[l].name PROVE k = l
  <2>1. /\ a + k - 1 \in DOMAIN b /\ p[k] = b[a + k - 1] /\ k \in Nat
        /\ a + l - 1 \in DOMAIN b /\ p[l] = b[a + l - 1] /\ l \in Nat
    BY <1>2, <1>3
  <2>2. a + k - 1 = a + l - 1
    BY <1>4, <1>12, <2>1
  <2> QED BY <1>8, <2>1, <2>2
<1> QED BY <1>10, <1>11, <1>12 DEF b, p, d

LEMMA IInvAgrees == IInv => ListingAgrees
<1> SUFFICES ASSUME IInv, NEW h \in open, inode[h] = looked.dir
             PROVE  /\ \A i \in DOMAIN pass[h] : pass[h][i].name = looked.name =>
                         pass[h][i].file = looked.file \/ looked.failed
                    /\ eof[h] /\ after[h] = NoName /\ looked.file # NoFile =>
                         \E i \in DOMAIN pass[h] : Shows(pass[h][i], looked)
  BY DEF ListingAgrees
<1> DEFINE b == dirbuf[h]
           d == inode[h]
<1>1. h \in Handles /\ LookInv
  BY DEF IInv, TypeOK
<1>2. ASSUME NEW k \in DOMAIN pass[h], pass[h][k].name = looked.name
      PROVE  pass[h][k].file = looked.file \/ looked.failed
  <2>1. PICK i \in DOMAIN b : pass[h][k] = b[i]
    BY <1>1, PassFacts DEF Received
  <2>2. RecOf(d, b[i]) \in vol.recs
    BY <1>1, BufferFacts
  <2>3. RecOf(d, b[i]).dir = d /\ RecOf(d, b[i]).name = b[i].name /\ RecOf(d, b[i]).file = b[i].file
    BY DEF RecOf
  <2> QED BY <1>1, <1>2, <2>1, <2>2, <2>3 DEF LookInv
<1>3. ASSUME eof[h], after[h] = NoName, looked.file # NoFile
      PROVE  \E i \in DOMAIN pass[h] : Shows(pass[h][i], looked)
  <2>1. PICK r \in vol.recs : r.dir = d /\ Shows(r, looked)
    BY <1>1, <1>3 DEF LookInv
  <2>2. \A q \in vol.recs : q.name # NoName
    BY VolumeFacts, DirectoryAssumption DEF IInv, TypeOK
  <2>3. \E i \in DOMAIN pass[h] : Shows(pass[h][i], r)
    BY <1>3, <2>1, <2>2, IInvComplete DEF ScanComplete
  <2> QED BY <2>1, <2>3 DEF Shows
<1> QED BY <1>2, <1>3

-----------------------------------------------------------------------------
(* For every volume and directory, any number of handles and replies of any  *)
(* size: what a handle's buffer, its position and its last entries are stays *)
(* as IInv says: the directory in order, and a piece of it that ends there.   *)
THEOREM Invariance == Spec => []IInv
<1> QED BY InitInv, NextInv, PTL DEF Spec

(* apfs_readdir: a pass over a directory that reached the end has shown each *)
(* record from where it started exactly once, however replies were cut and   *)
(* wherever the kernel sought to.                                            *)
THEOREM Complete == Spec => []ScanComplete
<1> QED BY Invariance, IInvComplete, PTL

(* apfs_readdir and apfs_lookup: a name shown resolves to the inode shown    *)
(* with it, and a name that resolves is in every complete listing, also      *)
(* where names have equal hashes.                                            *)
THEOREM Agree == Spec => []ListingAgrees
<1> QED BY Invariance, IInvAgrees, PTL
=============================================================================
