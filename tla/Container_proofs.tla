-------------------------- MODULE Container_proofs --------------------------
(***************************************************************************)
(* Proof that the container is mounted at its newest checkpoint, whole, or  *)
(* at the one asked for, whatever the size of the ring and wherever the     *)
(* power failed.                                                            *)
(***************************************************************************)
EXTENDS Container, TLAPS

Descriptors == [kind : {"bad", "map", "sb"}, xid : Nat, index : Nat, len : Nat]

IsNewest(p) == ring[p].kind = "sb" /\ ring[p].xid = committed

\* The descriptor blocks of the checkpoint whose superblock is at p.
At(p) == Span(ring[p].index, ring[p].len - 1)

\* The checkpoint at p, the newest, is there as it was written.
Intact(p) ==
  /\ ring[p].index \in Positions
  /\ ring[p].len \in Nat /\ ring[p].len >= 2
  /\ p = (ring[p].index + (ring[p].len - 1)) % Ring
  /\ \A n \in 0..(ring[p].len - 2) :
       ring[(ring[p].index + n) % Ring] = MapBlock(committed, committed % Slots)
  /\ ~Wraps => ring[p].index + ring[p].len <= Ring

TypeInv ==
  /\ ring \in [Positions -> Descriptors]
  /\ zero \in Descriptors
  /\ data \in [0..(Slots - 1) -> Nat]
  /\ head \in Positions
  /\ committed \in Nat \ {0}
  /\ req \in Nat
  /\ excuse \in BOOLEAN

\* There is one newest superblock, and what it stands for is there.
DiskInv ==
  /\ \A p \in Positions : ring[p].kind = "sb" => ring[p].xid <= committed
  /\ \E p \in Positions : IsNewest(p)
  /\ \A p, q \in Positions : IsNewest(p) /\ IsNewest(q) => p = q
  /\ \A p \in Positions : IsNewest(p) => Intact(p)
  /\ data[committed % Slots] = committed

\* The checkpoint that is being written is nowhere near the newest one.
WriterInv ==
  pc = "writing" /\ cp # NoCheckpoint =>
    /\ cp = [xid |-> committed + 1, start |-> cp.start, maps |-> cp.maps, done |-> cp.done]
    /\ cp.start \in Positions
    /\ cp.maps \in Nat \ {0} /\ cp.maps < Ring
    /\ cp.done \in 0..cp.maps
    /\ ~Wraps => cp.start + cp.maps < Ring
    /\ \A p \in Positions : IsNewest(p) => Span(cp.start, cp.maps) \cap At(p) = {}
    /\ \A n \in 0..(cp.done - 1) :
         ring[(cp.start + n) % Ring] = MapBlock(cp.xid, cp.xid % Slots)
    /\ data[cp.xid % Slots] = cp.xid

\* No superblock of the ring before n is of the transaction asked for.
NotBefore(n) ==
  \A p \in Positions : p < n /\ ring[p].kind = "sb" => ring[p].xid # req

ScanInv ==
  /\ pc \in {"writing", "block0"} =>
       /\ paddr = 0 /\ best = [xid |-> 0, paddr |-> NoPosition]
       /\ cpm = <<>> /\ excuse = FALSE
  /\ pc = "scan" =>
       /\ paddr \in 0..Ring /\ cpm = <<>>
       /\ best.xid \in Nat
       /\ req = 0 =>
            /\ best.xid = 0 \/ /\ best.paddr \in Positions
                               /\ ring[best.paddr].kind = "sb"
                               /\ ring[best.paddr].xid = best.xid
            /\ \A p \in Positions :
                 p < paddr /\ ring[p].kind = "sb" => ring[p].xid <= best.xid
       /\ req # 0 => best.paddr = NoPosition /\ NotBefore(paddr)
  /\ pc = "reread" =>
       /\ cpm = <<>>
       /\ req = 0 => best.paddr \in Positions /\ IsNewest(best.paddr)
       /\ req # 0 =>
            \/ /\ best.paddr \in Positions
               /\ ring[best.paddr].kind = "sb" /\ ring[best.paddr].xid = req
            \/ best.paddr = NoPosition /\ NotBefore(Ring)

Later == {"omap", "spaceman", "keys", "mounted"}

\* What has been read of the checkpoint that is mounted.
MountInv ==
  pc \in {"fusion", "cpm"} \cup Later /\ ~excuse =>
    /\ req # 0 => nx.xid = req \/ NotBefore(Ring)
    /\ req = 0 =>
         /\ best.paddr \in Positions /\ IsNewest(best.paddr) /\ nx = ring[best.paddr]
         /\ cpm \in Seq(Descriptors) /\ Len(cpm) <= nx.len - 1
         /\ pc = "fusion" => cpm = <<>>
         /\ \A n \in 1..Len(cpm) : cpm[n] = MapBlock(committed, committed % Slots)
         /\ pc \in Later => Len(cpm) = nx.len - 1
         /\ pc \in {"keys", "mounted"} => spaceman = committed

FailInv == pc = "failed" /\ req = 0 /\ ~Wraps => excuse

Inv == TypeInv /\ DiskInv /\ WriterInv /\ ScanInv /\ MountInv /\ FailInv

-----------------------------------------------------------------------------
(* Places of the ring.                                                      *)

(* Division by the size of the ring leaves a place of it.                   *)
LEMMA Euclid ==
  ASSUME NEW r \in Nat \ {0}, NEW a \in Nat
  PROVE  /\ a \div r \in Nat /\ a % r \in 0..(r - 1)
         /\ a = r * (a \div r) + (a % r)
         /\ r * (a \div r) \in Nat
<1> DEFINE q == a \div r
           m == a % r
<1>1. q \in Nat /\ m \in 0..(r - 1) /\ a = r * q + m
  OBVIOUS
<1> HIDE DEF q, m
<1>2. r * q \in Nat
  BY <1>1
<1> QED BY <1>1, <1>2 DEF q, m

(* Less than once around the ring, places do not repeat.                    *)
LEMMA ModApart ==
  ASSUME NEW r \in Nat \ {0}, NEW a \in Nat, NEW b \in Nat, a < b, b - a < r
  PROVE  a % r # b % r
<1> SUFFICES ASSUME a % r = b % r PROVE FALSE
  OBVIOUS
<1> DEFINE p == a \div r
           q == b \div r
           m == a % r
<1>1. p \in Nat /\ q \in Nat /\ m \in Nat /\ r * p \in Nat /\ r * q \in Nat
  <2>1. p \in Nat /\ m \in 0..(r - 1) /\ r * p \in Nat
    BY Euclid
  <2>2. q \in Nat /\ r * q \in Nat
    BY Euclid
  <2> HIDE DEF p, q, m
  <2> QED BY <2>1, <2>2
<1>2. a = r * p + m /\ b = r * q + m
  BY Euclid
<1> HIDE DEF p, q, m
<1>3. b - a = r * q - r * p
  BY <1>1, <1>2
<1>4. CASE q <= p
  <2>1. p - q \in Nat
    BY <1>1, <1>4
  <2>2. r * (p - q) \in Nat
    BY <2>1
  <2>3. r * (p - q) = r * p - r * q
    BY <1>1
  <2> QED BY <1>1, <1>3, <2>2, <2>3
<1>5. CASE q > p
  <2>1. q - p - 1 \in Nat
    BY <1>1, <1>5
  <2>2. r * (q - p - 1) \in Nat
    BY <2>1
  <2>3. r * (q - p - 1) = r * q - r * p - r
    BY <1>1
  <2> QED BY <1>1, <1>3, <2>2, <2>3
<1> QED BY <1>1, <1>4, <1>5

(* Nothing changes within the ring.                                         *)
LEMMA ModSmall ==
  ASSUME NEW r \in Nat \ {0}, NEW a \in 0..(r - 1)
  PROVE  a % r = a
  OBVIOUS

(* The places of a checkpoint are in the ring.                              *)
LEMMA InRing ==
  ASSUME NEW h \in Nat, NEW n \in Nat
  PROVE  (h + n) % Ring \in Positions
<1>1. Ring \in Nat \ {0} /\ h + n \in Nat
  BY ContainerAssumption
<1>2. (h + n) % Ring \in 0..(Ring - 1)
  BY <1>1, Euclid
<1> QED BY <1>2 DEF Positions

(* The slots of two checkpoints in a row differ.                            *)
LEMMA OtherSlot ==
  ASSUME NEW x \in Nat
  PROVE  /\ x % Slots \in 0..(Slots - 1) /\ (x + 1) % Slots \in 0..(Slots - 1)
         /\ x % Slots # (x + 1) % Slots
<1>1. Slots \in Nat \ {0} /\ Slots >= 2 /\ x + 1 \in Nat /\ x < x + 1 /\ (x + 1) - x < Slots
  BY ContainerAssumption
<1> QED BY <1>1, Euclid, ModApart

-----------------------------------------------------------------------------
(* The writing file system.                                                 *)

(* A block outside of the newest checkpoint may be written with anything    *)
(* that is not a superblock.                                                *)
LEMMA WriteElsewhere ==
  ASSUME Inv, NEW t \in Positions, NEW b \in Descriptors, b.kind # "sb",
         \A p \in Positions : IsNewest(p) => t \notin At(p),
         ring' = [ring EXCEPT ![t] = b],
         committed' = committed,
         data' \in [0..(Slots - 1) -> Nat],
         data'[committed % Slots] = committed
  PROVE  DiskInv' /\ \A p \in Positions : IsNewest(p)' => IsNewest(p) /\ At(p)' = At(p)
<1>1. Ring \in Nat \ {0} /\ ring \in [Positions -> Descriptors]
  BY ContainerAssumption DEF Inv, TypeInv
<1>2. ring'[t] = b /\ \A p \in Positions : p # t => ring'[p] = ring[p]
  BY <1>1
<1>3. ASSUME NEW p \in Positions, IsNewest(p)
      PROVE  /\ p # t /\ Intact(p)
             /\ \A n \in 0..(ring[p].len - 2) :
                  /\ (ring[p].index + n) % Ring \in Positions
                  /\ (ring[p].index + n) % Ring # t
  <2>1. Intact(p)
    BY <1>3 DEF Inv, DiskInv
  <2>2. ASSUME NEW n \in 0..(ring[p].len - 1)
        PROVE  (ring[p].index + n) % Ring \in At(p) /\ (ring[p].index + n) % Ring \in Positions
    <3>1. ring[p].index \in Nat /\ n \in Nat
      BY <2>1, <1>1 DEF Intact, Positions
    <3> QED BY <3>1, InRing DEF At, Span
  <2>3. ring[p].len - 1 \in 0..(ring[p].len - 1) /\ \A n \in 0..(ring[p].len - 2) : n \in 0..(ring[p].len - 1)
    BY <2>1 DEF Intact
  <2>4. p \in At(p)
    BY <2>1, <2>2, <2>3 DEF Intact
  <2> QED BY <1>3, <2>1, <2>2, <2>3, <2>4
<1>4. ASSUME NEW p \in Positions, IsNewest(p)
      PROVE  IsNewest(p)' /\ Intact(p)'
  <2>1. ring'[p] = ring[p]
    BY <1>2, <1>3, <1>4
  <2>2. \A n \in 0..(ring[p].len - 2) :
          ring'[(ring[p].index + n) % Ring] = MapBlock(committed, committed % Slots)
    BY <1>2, <1>3, <1>4 DEF Intact
  <2> QED BY <1>3, <1>4, <2>1, <2>2 DEF IsNewest, Intact
<1>5. ASSUME NEW p \in Positions, IsNewest(p)' PROVE IsNewest(p) /\ At(p)' = At(p)
  <2>1. p # t /\ ring'[p] = ring[p]
    BY <1>2, <1>5 DEF IsNewest
  <2> QED BY <1>5, <2>1 DEF IsNewest, At, Span
<1>6. \A p \in Positions : ring'[p].kind = "sb" => ring'[p].xid <= committed
  BY <1>2 DEF Inv, DiskInv
<1> QED BY <1>4, <1>5, <1>6 DEF Inv, DiskInv

(* What the writer does leaves a mount to come.                             *)
LEMMA StillWriting ==
  ASSUME Inv, pc = "writing", pc' \in {"writing", "block0"},
         UNCHANGED <<paddr, best, tmp, nx, cpm, spaceman, excuse>>
  PROVE  ScanInv' /\ MountInv' /\ FailInv'
<1>1. pc' # "scan" /\ pc' # "reread" /\ pc' # "failed" /\ pc' \notin {"fusion", "cpm"} \cup Later
  BY DEF Later
<1>2. ScanInv'
  BY <1>1 DEF Inv, ScanInv
<1>3. MountInv'
  BY <1>1 DEF MountInv, Later
<1> QED BY <1>1, <1>2, <1>3 DEF FailInv

(* The places of a checkpoint that is written are apart, and apart from the *)
(* newest one.                                                              *)
LEMMA TargetFacts ==
  ASSUME Inv, pc = "writing", cp # NoCheckpoint
  PROVE  /\ Target \in Positions
         /\ Target \in Span(cp.start, cp.maps)
         /\ \A p \in Positions : IsNewest(p) => Target \notin At(p)
         /\ \A n \in 0..(cp.done - 1) :
              (cp.start + n) % Ring \in Positions /\ (cp.start + n) % Ring # Target
         /\ cp.xid = committed + 1
<1>1. /\ cp.start \in Positions /\ cp.maps \in Nat \ {0} /\ cp.maps < Ring
      /\ cp.done \in 0..cp.maps /\ cp.xid = committed + 1
      /\ \A p \in Positions : IsNewest(p) => Span(cp.start, cp.maps) \cap At(p) = {}
  BY DEF Inv, WriterInv
<1>2. cp.start \in Nat /\ Ring \in Nat \ {0}
  BY <1>1, ContainerAssumption DEF Positions
<1>3. Target \in Positions /\ Target \in Span(cp.start, cp.maps)
  <2>1. cp.done \in Nat
    BY <1>1
  <2>2. Target \in Positions
    BY <1>2, <2>1, InRing DEF Target
  <2>3. Target \in Span(cp.start, cp.maps)
    BY <1>1 DEF Target, Span
  <2> QED BY <2>2, <2>3
<1>4. ASSUME NEW n \in 0..(cp.done - 1)
      PROVE  (cp.start + n) % Ring \in Positions /\ (cp.start + n) % Ring # Target
  <2>1. /\ n \in Nat /\ cp.start + n \in Nat /\ cp.start + cp.done \in Nat
        /\ cp.start + n < cp.start + cp.done
        /\ (cp.start + cp.done) - (cp.start + n) < Ring
    BY <1>1, <1>2
  <2> QED BY <1>2, <2>1, InRing, ModApart DEF Target
<1> QED BY <1>1, <1>3, <1>4

(* A checkpoint is begun beside the newest one, in the other slot.          *)
LEMMA BeginKeeps ==
  ASSUME Inv, Begin
  PROVE  Inv'
<1>1. PICK k \in 1..MaxMaps :
        LET start == IF ~Wraps /\ head + k >= Ring THEN 0 ELSE head
            x == committed + 1
        IN /\ Span(start, k) \cap Current = {}
           /\ cp' = [xid |-> x, start |-> start, maps |-> k, done |-> 0]
           /\ data' = [data EXCEPT ![x % Slots] = x]
  BY DEF Begin
<1> DEFINE start == IF ~Wraps /\ head + k >= Ring THEN 0 ELSE head
           x == committed + 1
<1>2. /\ pc = "writing" /\ UNCHANGED <<ring, zero, head, committed, unreadable, pc, mount>>
      /\ UNCHANGED <<req, paddr, best, tmp, nx, cpm, spaceman, excuse>>
  BY DEF Begin, mount
<1>3. /\ Ring \in Nat \ {0} /\ MaxMaps \in Nat \ {0} /\ Ring >= 2 * (MaxMaps + 1)
      /\ committed \in Nat \ {0} /\ head \in 0..(Ring - 1) /\ data \in [0..(Slots - 1) -> Nat]
  BY ContainerAssumption DEF Inv, TypeInv, Positions
<1>4. start \in Positions /\ k < Ring /\ k \in Nat \ {0} /\ (~Wraps => start + k < Ring)
  BY <1>3 DEF Positions
<1>5. /\ committed % Slots \in 0..(Slots - 1) /\ x % Slots \in 0..(Slots - 1)
      /\ committed % Slots # x % Slots
  BY <1>3, OtherSlot
<1>6. /\ data' \in [0..(Slots - 1) -> Nat] /\ data'[x % Slots] = x
      /\ data'[committed % Slots] = committed
  <2> DEFINE s == x % Slots
             t == committed % Slots
  <2>1. data' = [data EXCEPT ![s] = x] /\ data[t] = committed
    BY <1>1 DEF Inv, DiskInv
  <2>2. x \in Nat
    BY <1>3
  <2> HIDE DEF s, t, x
  <2>3. s \in 0..(Slots - 1) /\ t \in 0..(Slots - 1) /\ s # t
    BY <1>5 DEF s, t
  <2>4. data' \in [0..(Slots - 1) -> Nat] /\ data'[s] = x /\ data'[t] = committed
    BY <1>3, <2>1, <2>2, <2>3
  <2> QED BY <2>4 DEF s, t
<1>7. TypeInv' /\ DiskInv'
  BY <1>2, <1>6 DEF Inv, TypeInv, DiskInv, IsNewest, Intact
<1>8. WriterInv'
  <2>1. cp' = [xid |-> x, start |-> start, maps |-> k, done |-> 0]
    BY <1>1
  <2> HIDE DEF start, x
  <2>2. ASSUME NEW p \in Positions, IsNewest(p) PROVE Span(start, k) \cap At(p) = {}
    <3> DEFINE c == CHOOSE q \in Positions : ring[q].kind = "sb" /\ ring[q].xid = committed
    <3>1. c \in Positions /\ IsNewest(c)
      BY <2>2 DEF IsNewest
    <3> HIDE DEF c
    <3>2. c = p
      BY <2>2, <3>1 DEF Inv, DiskInv
    <3>3. Current = At(p)
      BY <3>2 DEF Current, At, c
    <3> QED BY <1>1, <3>3 DEF start
  <2>3. /\ cp'.xid = x /\ cp'.start = start /\ cp'.maps = k /\ cp'.done = 0
    BY <2>1
  <2>4. \A p \in Positions : IsNewest(p)' => Span(start, k) \cap At(p)' = {}
    BY <1>2, <2>2 DEF IsNewest, At, Span
  <2>5. Span(cp.start, cp.maps)' = Span(start, k)
    BY <2>3 DEF Span
  <2>6. data'[cp'.xid % Slots] = cp'.xid
    BY <1>6, <2>3
  <2>7. cp'.xid = committed' + 1
    BY <1>2, <2>3 DEF x
  <2>8. \A n \in 0..(cp'.done - 1) : FALSE
    BY <2>3
  <2>9. cp'.done \in 0..cp'.maps
    BY <1>4, <2>3
  <2> QED BY <1>4, <2>1, <2>3, <2>4, <2>5, <2>6, <2>7, <2>8, <2>9 DEF WriterInv
<1> QED BY <1>2, <1>7, <1>8, StillWriting DEF Inv

(* What is written into the ring are descriptor blocks.                     *)
LEMMA BlockTypes ==
  ASSUME NEW x \in Nat, NEW s \in Nat, NEW l \in Nat
  PROVE  /\ MapBlock(x, s) \in Descriptors /\ MapBlock(x, s).kind = "map"
         /\ Superblock(x, s, l) \in Descriptors
         /\ Bad \in Descriptors /\ Bad.kind = "bad"
  BY DEF MapBlock, Superblock, Bad, Descriptors

(* A checkpoint map is written beside the newest checkpoint.                *)
LEMMA WriteMapKeeps ==
  ASSUME Inv, WriteMap
  PROVE  Inv'
<1> DEFINE b == MapBlock(cp.xid, cp.xid % Slots)
<1>1. /\ pc = "writing" /\ cp # NoCheckpoint /\ cp.done < cp.maps
      /\ ring' = [ring EXCEPT ![Target] = b]
      /\ cp' = [cp EXCEPT !.done = cp.done + 1]
      /\ UNCHANGED <<zero, data, head, committed, unreadable, pc>>
      /\ UNCHANGED <<req, paddr, best, tmp, nx, cpm, spaceman, excuse>>
  BY DEF WriteMap, mount
<1>2. /\ cp = [xid |-> committed + 1, start |-> cp.start, maps |-> cp.maps, done |-> cp.done]
      /\ cp.start \in Positions
      /\ cp.maps \in Nat \ {0} /\ cp.maps < Ring
      /\ cp.done \in 0..cp.maps
      /\ ~Wraps => cp.start + cp.maps < Ring
      /\ \A p \in Positions : IsNewest(p) => Span(cp.start, cp.maps) \cap At(p) = {}
      /\ \A n \in 0..(cp.done - 1) :
           ring[(cp.start + n) % Ring] = MapBlock(cp.xid, cp.xid % Slots)
      /\ data[cp.xid % Slots] = cp.xid
  BY <1>1 DEF Inv, WriterInv
<1>3. /\ committed \in Nat \ {0} /\ cp.xid = committed + 1 /\ cp.xid \in Nat
      /\ ring \in [Positions -> Descriptors]
  BY <1>2 DEF Inv, TypeInv
<1>4. /\ Target \in Positions
      /\ \A p \in Positions : IsNewest(p) => Target \notin At(p)
      /\ \A n \in 0..(cp.done - 1) :
           (cp.start + n) % Ring \in Positions /\ (cp.start + n) % Ring # Target
  BY <1>1, TargetFacts
<1>5. b \in Descriptors /\ b.kind = "map"
  <2>1. cp.xid % Slots \in Nat
    BY <1>3, OtherSlot
  <2> QED BY <1>3, <2>1, BlockTypes
<1> HIDE DEF b
<1>6. DiskInv' /\ \A p \in Positions : IsNewest(p)' => IsNewest(p) /\ At(p)' = At(p)
  <2>1. data' \in [0..(Slots - 1) -> Nat] /\ data'[committed % Slots] = committed
    BY <1>1 DEF Inv, TypeInv, DiskInv
  <2> QED BY <1>1, <1>4, <1>5, <2>1, WriteElsewhere
<1>7. TypeInv'
  BY <1>1, <1>3, <1>4, <1>5 DEF Inv, TypeInv
<1>8. cp' = [xid |-> committed + 1, start |-> cp.start, maps |-> cp.maps, done |-> cp.done + 1]
  <2> DEFINE c == [xid |-> committed + 1, start |-> cp.start, maps |-> cp.maps, done |-> cp.done]
             d == cp.done + 1
  <2>1. cp' = [c EXCEPT !.done = d]
    BY <1>1, <1>2
  <2> HIDE DEF d
  <2>2. [c EXCEPT !.done = d] = [xid |-> committed + 1, start |-> cp.start, maps |-> cp.maps, done |-> d]
    OBVIOUS
  <2> QED BY <2>1, <2>2 DEF d
<1>9. /\ cp'.xid = committed + 1 /\ cp'.start = cp.start /\ cp'.maps = cp.maps
      /\ cp'.done = cp.done + 1
  BY <1>8
<1>10. \A n \in 0..cp.done : ring'[(cp.start + n) % Ring] = b
  <2>1. ASSUME NEW n \in 0..(cp.done - 1) PROVE ring'[(cp.start + n) % Ring] = b
    <3>1. ring'[(cp.start + n) % Ring] = ring[(cp.start + n) % Ring]
      BY <1>1, <1>3, <1>4
    <3> QED BY <1>2, <3>1 DEF b
  <2>2. ring'[Target] = b
    BY <1>1, <1>3, <1>4
  <2>3. \A n \in 0..cp.done : n \in 0..(cp.done - 1) \/ n = cp.done
    BY <1>2
  <2> QED BY <2>1, <2>2, <2>3 DEF Target
<1>11. WriterInv'
  <2>1. \A p \in Positions : IsNewest(p)' => (Span(cp.start, cp.maps) \cap At(p))' = {}
    <3>1. Span(cp.start, cp.maps)' = Span(cp.start, cp.maps)
      BY <1>9 DEF Span
    <3> QED BY <1>2, <1>6, <3>1
  <2>2. cp'.done \in 0..cp'.maps /\ cp'.done - 1 = cp.done
    BY <1>1, <1>2, <1>9
  <2>3. \A n \in 0..(cp'.done - 1) : ring'[(cp'.start + n) % Ring] = MapBlock(cp'.xid, cp'.xid % Slots)
    BY <1>3, <1>9, <1>10, <2>2 DEF b
  <2>4. data'[cp'.xid % Slots] = cp'.xid
    BY <1>1, <1>2, <1>3, <1>9
  <2>5. cp' = [xid |-> committed' + 1, start |-> cp'.start, maps |-> cp'.maps, done |-> cp'.done]
    BY <1>1, <1>8, <1>9
  <2> QED BY <1>2, <1>9, <2>1, <2>2, <2>3, <2>4, <2>5 DEF WriterInv
<1> QED BY <1>1, <1>6, <1>7, <1>11, StillWriting DEF Inv

(* With its superblock the checkpoint is complete and becomes the newest.    *)
LEMMA WriteSuperblockKeeps ==
  ASSUME Inv, WriteSuperblock
  PROVE  Inv'
<1> DEFINE b == Superblock(cp.xid, cp.start, cp.maps + 1)
           x == committed + 1
<1>1. /\ pc = "writing" /\ cp # NoCheckpoint /\ cp.done = cp.maps
      /\ ring' = [ring EXCEPT ![Target] = b]
      /\ head' = (Target + 1) % Ring
      /\ committed' = cp.xid /\ cp' = NoCheckpoint
      /\ UNCHANGED <<zero, data, unreadable, pc>>
      /\ UNCHANGED <<req, paddr, best, tmp, nx, cpm, spaceman, excuse>>
  BY DEF WriteSuperblock, mount
<1>2. /\ cp.xid = x
      /\ cp.start \in Positions
      /\ cp.maps \in Nat \ {0} /\ cp.maps < Ring
      /\ ~Wraps => cp.start + cp.maps < Ring
      /\ \A n \in 0..(cp.maps - 1) : ring[(cp.start + n) % Ring] = MapBlock(x, x % Slots)
      /\ data[x % Slots] = x
  BY <1>1 DEF Inv, WriterInv
<1>3. /\ committed \in Nat \ {0} /\ x \in Nat \ {0} /\ Ring \in Nat \ {0} /\ cp.start \in Nat
      /\ ring \in [Positions -> Descriptors]
  <2>1. committed \in Nat \ {0} /\ ring \in [Positions -> Descriptors]
    BY DEF Inv, TypeInv
  <2>2. Ring \in Nat \ {0} /\ cp.start \in Nat
    BY <1>2, ContainerAssumption DEF Positions
  <2> QED BY <2>1, <2>2
<1>4. PICK t \in Positions : t = Target
  BY <1>1, TargetFacts
<1>5. \A n \in 0..(cp.maps - 1) :
        (cp.start + n) % Ring \in Positions /\ (cp.start + n) % Ring # t
  BY <1>1, <1>4, TargetFacts
<1>6. /\ b \in Descriptors /\ b.kind = "sb" /\ b.xid = x
      /\ b.index = cp.start /\ b.len = cp.maps + 1
  <2>1. cp.xid \in Nat /\ cp.start \in Nat /\ cp.maps + 1 \in Nat
    BY <1>2, <1>3
  <2>2. b \in Descriptors
    BY <2>1, BlockTypes
  <2> QED BY <1>2, <2>2 DEF Superblock
<1> HIDE DEF b, x
<1>7. ring' = [ring EXCEPT ![t] = b] /\ ring'[t] = b /\ \A p \in Positions : p # t => ring'[p] = ring[p]
  BY <1>1, <1>3, <1>4
<1>8. TypeInv'
  <2>1. head' \in Positions
    <3>1. Target \in Nat
      BY <1>4 DEF Positions
    <3> QED BY <1>1, <3>1, InRing
  <2>2. ring' \in [Positions -> Descriptors]
    BY <1>3, <1>6, <1>7
  <2> QED BY <1>1, <1>2, <1>3, <2>1, <2>2 DEF Inv, TypeInv
<1>9. ASSUME NEW p \in Positions, ring'[p].kind = "sb"
      PROVE  ring'[p].xid <= x /\ (ring'[p].xid = x => p = t)
  <2>1. CASE p = t
    BY <1>3, <1>6, <1>7, <2>1
  <2>2. CASE p # t
    <3>1. ring[p].xid <= committed /\ ring[p].xid \in Nat
      <4>1. ring[p].xid <= committed
        BY <1>7, <1>9, <2>2 DEF Inv, DiskInv
      <4>2. ring[p] \in Descriptors
        BY <1>3
      <4> QED BY <4>1, <4>2 DEF Descriptors
    <3> QED BY <1>3, <1>7, <2>2, <3>1 DEF x
  <2> QED BY <2>1, <2>2
<1>10. IsNewest(t)' /\ \A p \in Positions : IsNewest(p)' => p = t
  BY <1>1, <1>2, <1>6, <1>7, <1>9 DEF IsNewest
<1>11. Intact(t)'
  <2>1. ring'[t].index = cp.start /\ ring'[t].len = cp.maps + 1
    BY <1>6, <1>7
  <2>2. t = (cp.start + cp.maps) % Ring
    BY <1>1, <1>4 DEF Target
  <2>3. \A n \in 0..(cp.maps - 1) : ring'[(cp.start + n) % Ring] = MapBlock(x, x % Slots)
    BY <1>2, <1>5, <1>7
  <2>4. /\ cp.maps + 1 \in Nat /\ cp.maps + 1 >= 2
        /\ (cp.maps + 1) - 1 = cp.maps /\ (cp.maps + 1) - 2 = cp.maps - 1
        /\ ~Wraps => cp.start + (cp.maps + 1) <= Ring
    BY <1>2, <1>3
  <2>5. committed' = x
    BY <1>1, <1>2
  <2> QED BY <1>2, <2>1, <2>2, <2>3, <2>4, <2>5 DEF Intact
<1>12. DiskInv'
  <2>1. \A p \in Positions : ring'[p].kind = "sb" => ring'[p].xid <= committed'
    BY <1>1, <1>2, <1>9
  <2>2. data'[committed' % Slots] = committed'
    BY <1>1, <1>2
  <2> QED BY <1>4, <1>10, <1>11, <2>1, <2>2 DEF DiskInv
<1>13. WriterInv'
  BY <1>1 DEF WriterInv
<1> QED BY <1>1, <1>8, <1>12, <1>13, StillWriting DEF Inv

(* The copy at block 0 leaves the ring alone.                               *)
LEMMA CopyKeeps ==
  ASSUME Inv, CopyToBlockZero
  PROVE  Inv'
<1>1. /\ pc = "writing" /\ cp = NoCheckpoint
      /\ UNCHANGED <<ring, data, head, cp, committed, unreadable, pc>>
      /\ UNCHANGED <<req, paddr, best, tmp, nx, cpm, spaceman, excuse>>
      /\ \E p \in Positions : zero' = ring[p]
  BY DEF CopyToBlockZero, mount
<1>2. TypeInv'
  BY <1>1 DEF Inv, TypeInv
<1>3. DiskInv' /\ WriterInv'
  BY <1>1 DEF Inv, DiskInv, WriterInv, IsNewest, Intact
<1> QED BY <1>1, <1>2, <1>3, StillWriting DEF Inv

(* A torn block belongs to no complete checkpoint.                           *)
LEMMA PowerLossKeeps ==
  ASSUME Inv, PowerLoss
  PROVE  Inv'
<1>1. /\ pc = "writing" /\ pc' = "block0" /\ req' \in Requests
      /\ UNCHANGED <<head, cp, committed, unreadable>>
      /\ UNCHANGED <<paddr, best, tmp, nx, cpm, spaceman, excuse>>
  BY DEF PowerLoss
<1>2. req' \in Nat
  BY <1>1, ContainerAssumption
<1>3. WriterInv'
  BY <1>1 DEF WriterInv
<1>4. Bad \in Descriptors /\ Bad.kind = "bad"
  BY BlockTypes
<1>5. CASE cp # NoCheckpoint /\ ring' = [ring EXCEPT ![Target] = Bad] /\ UNCHANGED <<zero, data>>
  <2>1. PICK t \in Positions : t = Target /\ \A p \in Positions : IsNewest(p) => t \notin At(p)
    BY <1>1, <1>5, TargetFacts
  <2>2. data' \in [0..(Slots - 1) -> Nat] /\ data'[committed % Slots] = committed
    BY <1>5 DEF Inv, TypeInv, DiskInv
  <2>3. DiskInv'
    BY <1>1, <1>4, <1>5, <2>1, <2>2, WriteElsewhere
  <2>4. TypeInv'
    BY <1>1, <1>2, <1>4, <1>5, <2>1 DEF Inv, TypeInv
  <2> QED BY <1>1, <1>3, <2>3, <2>4, StillWriting DEF Inv
<1>6. CASE /\ data' = [data EXCEPT ![(committed + 1) % Slots] = NoSpaceman]
           /\ UNCHANGED <<ring, zero>>
  <2>1. data' \in [0..(Slots - 1) -> Nat] /\ data'[committed % Slots] = committed
    <3> DEFINE s == (committed + 1) % Slots
               t == committed % Slots
    <3>1. data' = [data EXCEPT ![s] = NoSpaceman] /\ data[t] = committed
      BY <1>6 DEF Inv, DiskInv
    <3>2. s \in 0..(Slots - 1) /\ t \in 0..(Slots - 1) /\ s # t
      BY OtherSlot DEF Inv, TypeInv
    <3> HIDE DEF s, t
    <3>3. data' \in [0..(Slots - 1) -> Nat] /\ data'[t] = committed
      BY <3>1, <3>2 DEF Inv, TypeInv, NoSpaceman
    <3> QED BY <3>3 DEF t
  <2>2. TypeInv' /\ DiskInv'
    BY <1>1, <1>2, <1>6, <2>1 DEF Inv, TypeInv, DiskInv, IsNewest, Intact
  <2> QED BY <1>1, <1>3, <2>2, StillWriting DEF Inv
<1>7. CASE zero' = Bad /\ UNCHANGED <<ring, data>>
  <2>1. TypeInv' /\ DiskInv'
    BY <1>1, <1>2, <1>4, <1>7 DEF Inv, TypeInv, DiskInv, IsNewest, Intact
  <2> QED BY <1>1, <1>3, <2>1, StillWriting DEF Inv
<1> QED BY <1>5, <1>6, <1>7 DEF PowerLoss

(* Detaching leaves the disk as it is.                                      *)
LEMMA DetachKeeps ==
  ASSUME Inv, Detach
  PROVE  Inv'
<1>1. /\ pc = "writing" /\ pc' = "block0" /\ req' \in Requests
      /\ UNCHANGED <<ring, zero, data, head, cp, committed, unreadable>>
      /\ UNCHANGED <<paddr, best, tmp, nx, cpm, spaceman, excuse>>
  BY DEF Detach, disk
<1>2. TypeInv'
  BY <1>1, ContainerAssumption DEF Inv, TypeInv
<1>3. DiskInv' /\ WriterInv'
  BY <1>1 DEF Inv, DiskInv, WriterInv, IsNewest, Intact
<1> QED BY <1>1, <1>2, <1>3, StillWriting DEF Inv

-----------------------------------------------------------------------------
(* The driver.                                                              *)

(* The driver changes nothing on the disk.                                  *)
LEMMA DriverKeeps ==
  ASSUME Inv, UNCHANGED <<disk, req>>, pc' # "writing", excuse' \in BOOLEAN
  PROVE  /\ TypeInv' /\ DiskInv' /\ WriterInv'
         /\ UNCHANGED <<ring, committed, req, data>>
         /\ \A p \in Positions : IsNewest(p)' = IsNewest(p)
         /\ \A n : NotBefore(n)' = NotBefore(n)
<1>1. UNCHANGED <<ring, zero, data, head, committed, req>>
  BY DEF disk
<1>2. TypeInv'
  BY <1>1 DEF Inv, TypeInv
<1>3. DiskInv' /\ WriterInv'
  BY <1>1 DEF Inv, DiskInv, WriterInv, IsNewest, Intact
<1> QED BY <1>1, <1>2, <1>3 DEF IsNewest, NotBefore

(* Init may fail if it has a reason.                                        *)
LEMMA FailKeeps ==
  ASSUME Inv, NEW why \in BOOLEAN, Fail(why), req = 0 /\ ~Wraps => excuse \/ why
  PROVE  Inv'
<1>1. pc' = "failed" /\ excuse' = (excuse \/ why) /\ UNCHANGED <<disk, req>>
  BY DEF Fail
<1>2. excuse \in BOOLEAN
  BY DEF Inv, TypeInv
<1>3. TypeInv' /\ DiskInv' /\ WriterInv' /\ req' = req
  BY <1>1, <1>2, DriverKeeps
<1>4. ScanInv' /\ MountInv' /\ FailInv'
  BY <1>1, <1>2, <1>3 DEF ScanInv, MountInv, FailInv, Later
<1> QED BY <1>3, <1>4 DEF Inv

(* Any read may fail: there is a reason then.                               *)
LEMMA ReadFailsKeeps ==
  ASSUME Inv, Fail(TRUE)
  PROVE  Inv'
  BY FailKeeps

(* The scan starts with nothing found.                                      *)
LEMMA ReadBlockZeroKeeps ==
  ASSUME Inv, ReadBlockZero
  PROVE  Inv'
<1>1. /\ pc = "block0" /\ pc' = "scan" /\ paddr' = 0
      /\ UNCHANGED <<disk, req, best, tmp, cpm, spaceman, excuse>>
  BY DEF ReadBlockZero
<1>2. TypeInv' /\ DiskInv' /\ WriterInv' /\ UNCHANGED <<ring, req>>
  BY <1>1, DriverKeeps DEF Inv, TypeInv
<1>3. best = [xid |-> 0, paddr |-> NoPosition] /\ cpm = <<>>
  BY <1>1 DEF Inv, ScanInv
<1>4. \A p \in Positions : ~(p < 0)
  BY ContainerAssumption DEF Positions
<1>5. ScanInv'
  BY <1>1, <1>2, <1>3, <1>4, ContainerAssumption DEF ScanInv, NotBefore
<1>6. MountInv' /\ FailInv'
  BY <1>1 DEF MountInv, FailInv, Later
<1> QED BY <1>2, <1>5, <1>6 DEF Inv

(* The scan keeps the newest superblock so far, or stops at the one asked   *)
(* for.                                                                     *)
LEMMA ScanBlockKeeps ==
  ASSUME Inv, ScanBlock
  PROVE  Inv'
<1> DEFINE b == ring[paddr]
<1>1. /\ pc = "scan" /\ paddr < Ring /\ paddr' = paddr + 1
      /\ UNCHANGED <<disk, req, cpm, excuse>>
      /\ \/ Chosen(b) /\ best' = [xid |-> b.xid, paddr |-> paddr]
            /\ pc' = IF req # 0 THEN "reread" ELSE "scan"
         \/ ~Chosen(b) /\ UNCHANGED <<best, pc>>
  BY DEF ScanBlock, Chosen
<1>2. pc' \in {"scan", "reread"}
  BY <1>1
<1>3. /\ TypeInv' /\ DiskInv' /\ WriterInv' /\ UNCHANGED <<ring, req>>
      /\ \A p \in Positions : IsNewest(p)' = IsNewest(p)
      /\ \A n : NotBefore(n)' = NotBefore(n)
  BY <1>1, <1>2, DriverKeeps DEF Inv, TypeInv
<1>4. /\ Ring \in Nat \ {0} /\ paddr \in 0..Ring /\ paddr \in Positions /\ b \in Descriptors
      /\ b.xid \in Nat /\ best.xid \in Nat /\ cpm = <<>> /\ req \in Nat
      /\ \A p \in Positions : ring[p].xid \in Nat
  <2>1. Ring \in Nat \ {0} /\ paddr \in 0..Ring /\ best.xid \in Nat /\ cpm = <<>> /\ req \in Nat
    BY <1>1, ContainerAssumption DEF Inv, ScanInv, TypeInv
  <2>2. paddr \in Positions
    BY <1>1, <2>1 DEF Positions
  <2>3. \A p \in Positions : ring[p] \in Descriptors
    BY DEF Inv, TypeInv
  <2> QED BY <2>1, <2>2, <2>3 DEF Descriptors
<1>5. \A p \in Positions : p < paddr + 1 => p < paddr \/ p = paddr
  BY <1>4 DEF Positions
<1> HIDE DEF b
<1>6. CASE req = 0
  <2>1. pc' = "scan" /\ paddr + 1 \in 0..Ring
    BY <1>1, <1>4, <1>6
  <2>2. /\ best.xid = 0 \/ /\ best.paddr \in Positions
                           /\ ring[best.paddr].kind = "sb"
                           /\ ring[best.paddr].xid = best.xid
        /\ \A p \in Positions :
             p < paddr /\ ring[p].kind = "sb" => ring[p].xid <= best.xid
    BY <1>1, <1>6 DEF Inv, ScanInv
  <2>3. CASE Chosen(b)
    <3>1. best'.xid = b.xid /\ best'.paddr = paddr /\ b.kind = "sb" /\ b.xid > best.xid
      BY <1>1, <1>6, <2>3 DEF Chosen
    <3>2. ASSUME NEW p \in Positions, p < paddr + 1, ring[p].kind = "sb"
          PROVE  ring[p].xid <= b.xid
      <4>1. CASE p < paddr
        <5>1. ring[p].xid <= best.xid
          BY <2>2, <3>2, <4>1
        <5> QED BY <1>4, <3>1, <5>1
      <4>2. CASE p = paddr
        BY <1>4, <4>2 DEF b
      <4> QED BY <1>5, <3>2, <4>1, <4>2
    <3>3. ScanInv'
      BY <1>1, <1>3, <1>4, <1>6, <2>1, <3>1, <3>2 DEF ScanInv, b
    <3> QED BY <1>3, <2>1, <3>3 DEF Inv, MountInv, FailInv, Later
  <2>4. CASE ~Chosen(b)
    <3>1. b.kind = "sb" => b.xid <= best.xid
      BY <1>4, <1>6, <2>4 DEF Chosen
    <3>2. ASSUME NEW p \in Positions, p < paddr + 1, ring[p].kind = "sb"
          PROVE  ring[p].xid <= best.xid
      BY <1>5, <2>2, <3>1, <3>2 DEF b
    <3>3. best' = best
      BY <1>1, <2>4
    <3>4. ScanInv'
      BY <1>1, <1>3, <1>4, <1>6, <2>1, <2>2, <3>2, <3>3 DEF ScanInv
    <3> QED BY <1>3, <2>1, <3>4 DEF Inv, MountInv, FailInv, Later
  <2> QED BY <2>3, <2>4
<1>7. CASE req # 0
  <2>1. best.paddr = NoPosition /\ NotBefore(paddr)
    BY <1>1, <1>7 DEF Inv, ScanInv
  <2>2. CASE Chosen(b)
    <3>1. pc' = "reread" /\ best'.paddr = paddr /\ b.kind = "sb" /\ b.xid = req
      BY <1>1, <1>7, <2>2 DEF Chosen
    <3>2. ScanInv'
      BY <1>1, <1>3, <1>4, <1>7, <3>1 DEF ScanInv, b
    <3> QED BY <1>3, <3>1, <3>2 DEF Inv, MountInv, FailInv, Later
  <2>3. CASE ~Chosen(b)
    <3>1. pc' = "scan" /\ best' = best /\ paddr + 1 \in 0..Ring
      BY <1>1, <1>4, <2>3
    <3>2. NotBefore(paddr + 1)
      BY <1>5, <1>7, <2>1, <2>3 DEF NotBefore, Chosen, b
    <3>3. \A p \in Positions : p < paddr' /\ ring'[p].kind = "sb" => ring'[p].xid # req'
      BY <1>1, <1>3, <3>2 DEF NotBefore
    <3>4. ScanInv'
      BY <1>1, <1>3, <1>4, <1>7, <2>1, <3>1, <3>3 DEF ScanInv, NotBefore
    <3> QED BY <1>3, <3>1, <3>4 DEF Inv, MountInv, FailInv, Later
  <2> QED BY <2>2, <2>3
<1> QED BY <1>6, <1>7

(* The whole ring was looked at: the superblock kept is the newest, or the  *)
(* one asked for.                                                           *)
LEMMA ScanEndsKeeps ==
  ASSUME Inv, ScanEnds
  PROVE  Inv'
<1>1. /\ pc = "scan" /\ paddr = Ring /\ pc' = "reread"
      /\ UNCHANGED <<disk, req, paddr, best, tmp, nx, cpm, spaceman, excuse>>
  BY DEF ScanEnds, mount
<1>2. /\ TypeInv' /\ DiskInv' /\ WriterInv' /\ UNCHANGED <<ring, req, committed>>
      /\ \A p \in Positions : IsNewest(p)' = IsNewest(p)
      /\ \A n : NotBefore(n)' = NotBefore(n)
  BY <1>1, DriverKeeps DEF Inv, TypeInv
<1>3. /\ Ring \in Nat \ {0} /\ committed \in Nat \ {0} /\ best.xid \in Nat /\ cpm = <<>>
      /\ \A p \in Positions : p < Ring
  BY <1>1, ContainerAssumption DEF Inv, TypeInv, ScanInv, Positions
<1>4. ASSUME req = 0
      PROVE  best.paddr \in Positions /\ IsNewest(best.paddr)
  <2>1. PICK p \in Positions : IsNewest(p)
    BY DEF Inv, DiskInv
  <2>2. committed <= best.xid
    BY <1>1, <1>3, <1>4, <2>1 DEF Inv, ScanInv, IsNewest
  <2>3. best.paddr \in Positions /\ ring[best.paddr].kind = "sb" /\ ring[best.paddr].xid = best.xid
    BY <1>1, <1>3, <1>4, <2>2 DEF Inv, ScanInv
  <2>4. best.xid <= committed
    BY <2>3 DEF Inv, DiskInv
  <2> QED BY <1>3, <2>2, <2>3, <2>4 DEF IsNewest
<1>5. req # 0 => best.paddr = NoPosition /\ NotBefore(Ring)
  BY <1>1 DEF Inv, ScanInv
<1>6. ScanInv'
  <2>1. req = 0 => best'.paddr \in Positions /\ IsNewest(best.paddr)'
    BY <1>1, <1>2, <1>4
  <2>2. req # 0 => best'.paddr = NoPosition /\ NotBefore(Ring)'
    BY <1>1, <1>2, <1>5
  <2>3. best' = best /\ cpm' = <<>>
    BY <1>1, <1>3
  <2>4. CASE req = 0
    BY <1>1, <1>2, <1>4, <2>3, <2>4 DEF ScanInv, IsNewest
  <2>5. CASE req # 0
    BY <1>1, <1>2, <2>2, <2>3, <2>5 DEF ScanInv
  <2> QED BY <2>4, <2>5
<1>7. MountInv' /\ FailInv'
  BY <1>1 DEF MountInv, FailInv, Later
<1> QED BY <1>2, <1>6, <1>7 DEF Inv

(* The superblock read again is the one that was found, or the second read  *)
(* failed.                                                                  *)
LEMMA RereadKeeps ==
  ASSUME Inv, Reread
  PROVE  Inv'
<1>1. /\ pc = "reread" /\ pc' = "fusion"
      /\ UNCHANGED <<disk, req, paddr, best, cpm, spaceman>>
      /\ IF best.paddr = NoPosition
           THEN UNCHANGED <<tmp, nx, excuse>>
           ELSE \/ nx' = ring[best.paddr] /\ UNCHANGED excuse
                \/ excuse' = TRUE
  BY DEF Reread
<1>2. excuse' \in BOOLEAN
  BY <1>1 DEF Inv, TypeInv
<1>3. /\ TypeInv' /\ DiskInv' /\ WriterInv' /\ UNCHANGED <<ring, req, committed>>
      /\ \A p \in Positions : IsNewest(p)' = IsNewest(p)
      /\ \A n : NotBefore(n)' = NotBefore(n)
  BY <1>1, <1>2, DriverKeeps
<1>4. ScanInv' /\ FailInv'
  BY <1>1 DEF ScanInv, FailInv
<1>5. cpm = <<>> /\ \A p \in Positions : p # NoPosition
  BY <1>1, ContainerAssumption DEF Inv, ScanInv, Positions, NoPosition
<1>6. MountInv'
  <2> SUFFICES ASSUME ~excuse' PROVE MountInv'
    BY DEF MountInv
  <2>1. CASE req = 0
    <3>1. best.paddr \in Positions /\ IsNewest(best.paddr)
      BY <1>1, <2>1 DEF Inv, ScanInv
    <3>2. nx' = ring[best.paddr]
      BY <1>1, <1>5, <3>1
    <3>3. Intact(best.paddr)
      BY <3>1 DEF Inv, DiskInv
    <3>4. /\ cpm' = <<>> /\ Len(cpm') = 0 /\ cpm' \in Seq(Descriptors)
          /\ Len(cpm') <= nx'.len - 1
      BY <1>1, <1>5, <3>2, <3>3 DEF Intact
    <3>5. best'.paddr \in Positions /\ IsNewest(best.paddr)' /\ nx' = ring'[best'.paddr]
      BY <1>1, <1>3, <3>1, <3>2
    <3>6. best' = best /\ \A n \in 1..Len(cpm') : FALSE
      BY <1>1, <3>4
    <3> QED BY <1>1, <1>3, <2>1, <3>4, <3>5, <3>6 DEF MountInv, Later
  <2>2. CASE req # 0
    <3>1. nx'.xid = req \/ NotBefore(Ring)
      BY <1>1, <1>5, <2>2 DEF Inv, ScanInv
    <3> QED BY <1>3, <2>2, <3>1 DEF MountInv
  <2> QED BY <2>1, <2>2
<1> QED BY <1>3, <1>4, <1>6 DEF Inv

(* While a mount goes on without a read error, m_nx is the newest           *)
(* superblock, with all that belongs to it.                                 *)
LEMMA Mounting ==
  ASSUME Inv, pc \in {"fusion", "cpm"} \cup Later, ~excuse, req = 0
  PROVE  /\ best.paddr \in Positions /\ IsNewest(best.paddr) /\ nx = ring[best.paddr]
         /\ nx.kind = "sb" /\ nx.xid = committed
         /\ nx.index \in Nat /\ nx.len \in Nat /\ nx.len >= 2
         /\ \A n \in 0..(nx.len - 2) :
              ring[(nx.index + n) % Ring] = MapBlock(committed, committed % Slots)
         /\ ~Wraps => nx.index + nx.len <= Ring
         /\ cpm \in Seq(Descriptors) /\ Len(cpm) <= nx.len - 1
         /\ pc = "fusion" => cpm = <<>>
         /\ \A n \in 1..Len(cpm) : cpm[n] = MapBlock(committed, committed % Slots)
         /\ pc \in Later => Len(cpm) = nx.len - 1
         /\ pc \in {"keys", "mounted"} => spaceman = committed
<1>1. best.paddr \in Positions /\ IsNewest(best.paddr) /\ nx = ring[best.paddr]
  BY DEF Inv, MountInv
<1>2. Intact(best.paddr)
  BY <1>1 DEF Inv, DiskInv
<1>3. nx.index \in Nat
  BY <1>1, <1>2, ContainerAssumption DEF Intact, Positions
<1> QED BY <1>1, <1>2, <1>3 DEF Inv, MountInv, Intact, IsNewest

(* A phase of Init that reads nothing of the checkpoint leads to the next.  *)
LEMMA OnwardKeeps ==
  ASSUME Inv, UNCHANGED <<disk, mount>>,
         \/ pc = "fusion" /\ pc' = "cpm"
         \/ pc = "cpm" /\ nx.kind = "sb" /\ Len(cpm) = nx.len - 1 /\ pc' = "omap"
         \/ pc = "omap" /\ pc' = "spaceman"
         \/ pc = "keys" /\ pc' = "mounted"
  PROVE  Inv'
<1>1. UNCHANGED <<disk, req, paddr, best, tmp, nx, cpm, spaceman, excuse>> /\ UNCHANGED <<disk, req>>
  BY DEF mount
<1>2. excuse' \in BOOLEAN /\ pc' # "writing"
  BY <1>1 DEF Inv, TypeInv
<1>3. /\ TypeInv' /\ DiskInv' /\ WriterInv' /\ UNCHANGED <<ring, req, committed>>
      /\ \A p \in Positions : IsNewest(p)' = IsNewest(p)
      /\ \A n : NotBefore(n)' = NotBefore(n)
  BY <1>1, <1>2, DriverKeeps
<1>4. ScanInv' /\ FailInv'
  BY DEF ScanInv, FailInv
<1>5. MountInv'
  <2> SUFFICES ASSUME ~excuse' PROVE MountInv'
    BY DEF MountInv
  <2>1. ~excuse /\ pc \in {"fusion", "cpm"} \cup Later
    BY <1>1 DEF Later
  <2>2. CASE req = 0
    <3>1. /\ best.paddr \in Positions /\ IsNewest(best.paddr) /\ nx = ring[best.paddr]
          /\ cpm \in Seq(Descriptors) /\ Len(cpm) <= nx.len - 1
          /\ \A n \in 1..Len(cpm) : cpm[n] = MapBlock(committed, committed % Slots)
          /\ pc \in Later => Len(cpm) = nx.len - 1
          /\ pc \in {"keys", "mounted"} => spaceman = committed
      BY <2>1, <2>2, Mounting
    <3>2. best'.paddr \in Positions /\ IsNewest(best.paddr)' /\ nx' = ring'[best'.paddr]
      BY <1>1, <1>3, <3>1
    <3>3. /\ pc' # "fusion"
          /\ pc' \in Later => Len(cpm) = nx.len - 1
          /\ pc' \in {"keys", "mounted"} => spaceman = committed
      BY <3>1 DEF Later
    <3> QED BY <1>1, <1>3, <2>2, <3>1, <3>2, <3>3 DEF MountInv, IsNewest
  <2>3. CASE req # 0
    <3>1. nx.xid = req \/ NotBefore(Ring)
      BY <2>1, <2>3 DEF Inv, MountInv
    <3> QED BY <1>1, <1>3, <2>3, <3>1 DEF MountInv
  <2> QED BY <2>2, <2>3
<1> QED BY <1>3, <1>4, <1>5 DEF Inv

(* A checkpoint map that is read is one of the newest checkpoint's.         *)
LEMMA ReadMapKeeps ==
  ASSUME Inv, ReadMap
  PROVE  Inv'
<1>1. /\ pc = "cpm" /\ pc' = pc /\ Len(cpm) < nx.len - 1 /\ MapIndex < Ring
      /\ cpm' = Append(cpm, ring[MapIndex])
      /\ UNCHANGED <<disk, req, best, nx, spaceman, excuse>>
  BY DEF ReadMap
<1>2. excuse' \in BOOLEAN /\ pc' # "writing"
  BY <1>1 DEF Inv, TypeInv
<1>3. /\ TypeInv' /\ DiskInv' /\ WriterInv' /\ UNCHANGED <<ring, req, committed>>
      /\ \A p \in Positions : IsNewest(p)' = IsNewest(p)
      /\ \A n : NotBefore(n)' = NotBefore(n)
  BY <1>1, <1>2, DriverKeeps
<1>4. ScanInv' /\ FailInv'
  BY <1>1 DEF ScanInv, FailInv
<1>5. MountInv'
  <2> SUFFICES ASSUME ~excuse' PROVE MountInv'
    BY DEF MountInv
  <2>1. ~excuse /\ pc \in {"fusion", "cpm"} \cup Later
    BY <1>1
  <2>2. CASE req = 0
    <3> DEFINE b == ring[MapIndex]
               n == Len(cpm)
    <3>1. /\ best.paddr \in Positions /\ IsNewest(best.paddr) /\ nx = ring[best.paddr]
          /\ nx.index \in Nat /\ nx.len \in Nat /\ nx.len >= 2
          /\ \A k \in 0..(nx.len - 2) :
               ring[(nx.index + k) % Ring] = MapBlock(committed, committed % Slots)
          /\ cpm \in Seq(Descriptors)
          /\ \A k \in 1..n : cpm[k] = MapBlock(committed, committed % Slots)
      BY <2>1, <2>2, Mounting
    <3>2. n \in 0..(nx.len - 2) /\ MapIndex \in 0..(Ring - 1)
      <4>1. n \in Nat /\ n < nx.len - 1 /\ Ring \in Nat
        BY <1>1, <3>1, ContainerAssumption
      <4>2. nx.index \in Nat /\ nx.len \in Nat
        BY <3>1
      <4>3. nx.index + n < Ring
        BY <1>1 DEF MapIndex
      <4> HIDE DEF n
      <4>4. n \in 0..(nx.len - 2) /\ nx.index + n \in 0..(Ring - 1)
        BY <4>1, <4>2, <4>3
      <4> QED BY <4>4 DEF MapIndex, n
    <3>3. b = MapBlock(committed, committed % Slots)
      <4>1. MapIndex % Ring = MapIndex
        BY <3>2, ContainerAssumption, ModSmall
      <4> QED BY <3>1, <3>2, <4>1 DEF MapIndex
    <3>4. b \in Descriptors
      BY <3>2 DEF Inv, TypeInv, Positions
    <3>5. cpm' = Append(cpm, b)
      BY <1>1
    <3> HIDE DEF b
    <3>6. cpm' \in Seq(Descriptors) /\ Len(cpm') = n + 1 /\ n + 1 <= nx.len - 1
      <4>1. cpm \in Seq(Descriptors) /\ nx.len \in Nat
        BY <3>1
      <4> QED BY <3>2, <3>4, <3>5, <4>1
    <3>7. ASSUME NEW k \in 1..Len(cpm') PROVE cpm'[k] = MapBlock(committed, committed % Slots)
      <4>1. k \in 1..n \/ k = n + 1
        BY <3>1, <3>6
      <4>2. CASE k \in 1..n
        BY <3>1, <3>4, <3>5, <4>2
      <4>3. CASE k = n + 1
        BY <3>1, <3>3, <3>4, <3>5, <4>3
      <4> QED BY <4>1, <4>2, <4>3
    <3>8. best'.paddr \in Positions /\ IsNewest(best.paddr)' /\ nx' = ring'[best'.paddr]
      BY <1>1, <1>3, <3>1
    <3>9. pc' = "cpm" /\ nx' = nx /\ best' = best
      BY <1>1
    <3> QED BY <1>3, <2>2, <3>6, <3>7, <3>8, <3>9 DEF MountInv, Later, IsNewest
  <2>3. CASE req # 0
    <3>1. nx.xid = req \/ NotBefore(Ring)
      BY <2>1, <2>3 DEF Inv, MountInv
    <3> QED BY <1>1, <1>3, <2>3, <3>1 DEF MountInv
  <2> QED BY <2>2, <2>3
<1> QED BY <1>3, <1>4, <1>5 DEF Inv

(* What is at the place of a checkpoint map of the newest checkpoint is     *)
(* one, unless the checkpoint goes round the end of the ring.               *)
LEMMA ReadMapFailsKeeps ==
  ASSUME Inv, ReadMapFails
  PROVE  Inv'
<1>1. CASE Fail(TRUE)
  BY <1>1, ReadFailsKeeps
<1>2. CASE /\ Fail(FALSE) /\ ~(MapIndex < Ring /\ ring[MapIndex].kind = "map")
  <2>1. pc = "cpm" /\ Len(cpm) < nx.len - 1
    BY DEF ReadMapFails
  <2>2. ASSUME req = 0, ~Wraps, ~excuse PROVE FALSE
    <3>1. /\ nx.index \in Nat /\ nx.len \in Nat /\ nx.len >= 2
          /\ \A k \in 0..(nx.len - 2) :
               ring[(nx.index + k) % Ring] = MapBlock(committed, committed % Slots)
          /\ nx.index + nx.len <= Ring
          /\ cpm \in Seq(Descriptors)
      BY <2>1, <2>2, Mounting
    <3>2. Len(cpm) \in 0..(nx.len - 2) /\ MapIndex \in 0..(Ring - 1)
      <4> DEFINE n == Len(cpm)
      <4>1. n \in Nat /\ n < nx.len - 1 /\ Ring \in Nat
        BY <2>1, <3>1, ContainerAssumption
      <4>2. nx.index \in Nat /\ nx.len \in Nat /\ nx.index + nx.len <= Ring
        BY <3>1
      <4> HIDE DEF n
      <4>3. n \in 0..(nx.len - 2) /\ nx.index + n \in 0..(Ring - 1)
        BY <4>1, <4>2
      <4> QED BY <4>3 DEF MapIndex, n
    <3>3. MapIndex % Ring = MapIndex
      BY <3>2, ContainerAssumption, ModSmall
    <3>4. ring[MapIndex] = MapBlock(committed, committed % Slots)
      BY <3>1, <3>2, <3>3 DEF MapIndex
    <3> QED BY <1>2, <3>2, <3>4, ContainerAssumption DEF MapBlock
  <2>3. excuse \in BOOLEAN
    BY DEF Inv, TypeInv
  <2> QED BY <1>2, <2>2, <2>3, FailKeeps
<1> QED BY <1>1, <1>2 DEF ReadMapFails

(* The entry of the first map leads to the spaceman of this checkpoint.     *)
LEMMA FirstEntry ==
  ASSUME Inv, pc = "spaceman", ~excuse, req = 0
  PROVE  /\ cpm # <<>>
         /\ data[Head(cpm).index] = committed
<1>1. /\ cpm \in Seq(Descriptors) /\ Len(cpm) = nx.len - 1
      /\ nx.len \in Nat /\ nx.len >= 2
      /\ \A n \in 1..Len(cpm) : cpm[n] = MapBlock(committed, committed % Slots)
  BY Mounting DEF Later
<1>2. Len(cpm) >= 1 /\ cpm # <<>>
  BY <1>1
<1>3. Head(cpm) = MapBlock(committed, committed % Slots)
  BY <1>1, <1>2
<1>4. Head(cpm).index = committed % Slots
  BY <1>3 DEF MapBlock
<1> QED BY <1>2, <1>4 DEF Inv, DiskInv

(* The spaceman that is loaded is the one of the newest checkpoint.         *)
LEMMA LoadSpacemanKeeps ==
  ASSUME Inv, LoadSpaceman
  PROVE  Inv'
<1>1. /\ pc = "spaceman" /\ pc' = "keys" /\ spaceman' = data[Head(cpm).index]
      /\ UNCHANGED <<disk, req, best, nx, cpm, excuse>>
  BY DEF LoadSpaceman
<1>2. excuse' \in BOOLEAN /\ pc' # "writing"
  BY <1>1 DEF Inv, TypeInv
<1>3. /\ TypeInv' /\ DiskInv' /\ WriterInv' /\ UNCHANGED <<ring, req, committed>>
      /\ \A p \in Positions : IsNewest(p)' = IsNewest(p)
      /\ \A n : NotBefore(n)' = NotBefore(n)
  BY <1>1, <1>2, DriverKeeps DEF disk
<1>4. ScanInv' /\ FailInv'
  BY <1>1 DEF ScanInv, FailInv
<1>5. MountInv'
  <2> SUFFICES ASSUME ~excuse' PROVE MountInv'
    BY DEF MountInv
  <2>1. ~excuse /\ pc \in {"fusion", "cpm"} \cup Later /\ pc \in Later
    BY <1>1 DEF Later
  <2>2. CASE req = 0
    <3>1. /\ best.paddr \in Positions /\ IsNewest(best.paddr) /\ nx = ring[best.paddr]
          /\ cpm \in Seq(Descriptors) /\ Len(cpm) = nx.len - 1 /\ nx.len \in Nat
          /\ \A n \in 1..Len(cpm) : cpm[n] = MapBlock(committed, committed % Slots)
      BY <2>1, <2>2, Mounting
    <3>2. spaceman' = committed
      BY <1>1, <2>1, <2>2, FirstEntry
    <3>3. best'.paddr \in Positions /\ IsNewest(best.paddr)' /\ nx' = ring'[best'.paddr]
      BY <1>1, <1>3, <3>1
    <3>4. Len(cpm) <= nx.len - 1
      BY <3>1
    <3> QED BY <1>1, <1>3, <2>2, <3>1, <3>2, <3>3, <3>4 DEF MountInv, IsNewest
  <2>3. CASE req # 0
    <3>1. nx.xid = req \/ NotBefore(Ring)
      BY <2>1, <2>3 DEF Inv, MountInv
    <3> QED BY <1>1, <1>3, <2>3, <3>1 DEF MountInv
  <2> QED BY <2>2, <2>3
<1> QED BY <1>3, <1>4, <1>5 DEF Inv

(* The newest checkpoint has a spaceman: Init gives up for a read error.    *)
LEMMA SpacemanUnusableKeeps ==
  ASSUME Inv, SpacemanUnusable
  PROVE  Inv'
<1>1. CASE Fail(TRUE)
  BY <1>1, ReadFailsKeeps
<1>2. CASE Fail(FALSE) /\ (cpm = <<>> \/ data[Head(cpm).index] = NoSpaceman)
  <2>1. pc = "spaceman" /\ committed # NoSpaceman
    BY DEF SpacemanUnusable, Inv, TypeInv, NoSpaceman
  <2>2. req = 0 /\ ~Wraps => excuse
    BY <1>2, <2>1, FirstEntry
  <2> QED BY <1>2, <2>2, FailKeeps
<1> QED BY <1>1, <1>2 DEF SpacemanUnusable

(* Without a superblock nothing is promised, and that has its cause.        *)
LEMMA GarbageKeeps ==
  ASSUME Inv, GarbageSuperblock
  PROVE  Inv'
<1>1. pc' \in {"failed", "crashed"} /\ excuse' = TRUE /\ UNCHANGED <<disk, req>>
  BY DEF GarbageSuperblock
<1>2. TypeInv' /\ DiskInv' /\ WriterInv'
  BY <1>1, DriverKeeps
<1>3. ScanInv' /\ MountInv' /\ FailInv'
  BY <1>1 DEF ScanInv, MountInv, FailInv
<1> QED BY <1>2, <1>3 DEF Inv

-----------------------------------------------------------------------------
(* The theorems.                                                            *)

(* A container starts with one checkpoint, in the first two blocks.         *)
LEMMA InitInv ==
  ASSUME Init
  PROVE  Inv
<1>1. /\ Ring \in Nat \ {0} /\ Ring >= 4 /\ MaxMaps \in Nat \ {0}
      /\ 0 \in Positions /\ 1 \in Positions /\ 1 \in Nat
      /\ 0 % Ring = 0 /\ 1 % Ring = 1 /\ 2 % Ring \in Positions
  <2>1. Ring \in Nat \ {0} /\ Ring >= 4 /\ MaxMaps \in Nat \ {0}
    BY ContainerAssumption
  <2>2. 0 \in 0..(Ring - 1) /\ 1 \in 0..(Ring - 1) /\ 2 \in 0..(Ring - 1)
    BY <2>1
  <2>3. 0 % Ring = 0 /\ 1 % Ring = 1 /\ 2 % Ring = 2
    BY <2>1, <2>2, ModSmall
  <2> QED BY <2>1, <2>2, <2>3 DEF Positions
<1>2. 1 % Slots \in 0..(Slots - 1) /\ 1 % Slots \in Nat
  BY OtherSlot, ContainerAssumption
<1> DEFINE s == 1 % Slots
<1>3. /\ MapBlock(1, s) \in Descriptors /\ MapBlock(1, s).kind = "map"
      /\ Superblock(1, 0, 2) \in Descriptors
      /\ Superblock(1, 0, 2).kind = "sb" /\ Superblock(1, 0, 2).xid = 1
      /\ Superblock(1, 0, 2).index = 0 /\ Superblock(1, 0, 2).len = 2
      /\ Bad \in Descriptors /\ Bad.kind = "bad"
  <2>1. MapBlock(1, s) \in Descriptors /\ MapBlock(1, s).kind = "map"
    BY <1>2, BlockTypes
  <2>2. Superblock(1, 0, 2) \in Descriptors /\ Bad \in Descriptors /\ Bad.kind = "bad"
    BY BlockTypes
  <2> QED BY <2>1, <2>2 DEF Superblock
<1> HIDE DEF s
<1>4. /\ ring = [p \in Positions |-> CASE p = 0 -> MapBlock(1, s)
                                       [] p = 1 -> Superblock(1, 0, 2)
                                       [] OTHER -> Bad]
      /\ zero = Superblock(1, 0, 2)
      /\ data = [n \in 0..(Slots - 1) |-> IF n = s THEN 1 ELSE NoSpaceman]
      /\ head = 2 % Ring /\ committed = 1 /\ cp = NoCheckpoint
      /\ pc = "writing" /\ req = 0 /\ paddr = 0 /\ best = [xid |-> 0, paddr |-> NoPosition]
      /\ cpm = <<>> /\ excuse = FALSE
  BY DEF Init, s
<1>5. /\ ring[0] = MapBlock(1, s) /\ ring[1] = Superblock(1, 0, 2)
      /\ \A p \in Positions : p # 0 /\ p # 1 => ring[p] = Bad
  BY <1>1, <1>4
<1>6. \A p \in Positions : p = 0 \/ p = 1 \/ ring[p] = Bad
  BY <1>5
<1>7. TypeInv
  <2>1. ring \in [Positions -> Descriptors]
    <3>1. \A p \in Positions : ring[p] \in Descriptors
      BY <1>3, <1>5, <1>6
    <3>2. ring = [p \in Positions |-> ring[p]]
      BY <1>4
    <3> QED BY <3>1, <3>2
  <2>2. data \in [0..(Slots - 1) -> Nat]
    BY <1>4 DEF NoSpaceman
  <2>3. zero \in Descriptors /\ head \in Positions /\ committed \in Nat \ {0}
    BY <1>1, <1>3, <1>4
  <2>4. req \in Nat /\ excuse \in BOOLEAN
    BY <1>4
  <2> QED BY <2>1, <2>2, <2>3, <2>4 DEF TypeInv
<1>8. DiskInv
  <2>1. \A p \in Positions : IsNewest(p) <=> p = 1
    BY <1>1, <1>3, <1>4, <1>5, <1>6 DEF IsNewest
  <2>2. \A p \in Positions : ring[p].kind = "sb" => ring[p].xid <= committed
    BY <1>3, <1>4, <1>5, <1>6
  <2>3. Intact(1)
    <3>1. /\ ring[1].index = 0 /\ ring[1].len = 2 /\ 0 + (2 - 1) = 1 /\ 0 + 2 <= Ring
          /\ \A n \in 0..(2 - 2) : n = 0
      BY <1>1, <1>3, <1>5
    <3>2. ring[(0 + 0) % Ring] = MapBlock(committed, committed % Slots)
      BY <1>1, <1>4, <1>5 DEF s
    <3> QED BY <1>1, <3>1, <3>2 DEF Intact
  <2>4. data[committed % Slots] = committed
    <3>1. data[s] = 1
      BY <1>2, <1>4 DEF s
    <3> QED BY <1>4, <3>1 DEF s
  <2> QED BY <1>1, <2>1, <2>2, <2>3, <2>4 DEF DiskInv
<1>9. WriterInv /\ MountInv /\ FailInv
  BY <1>4 DEF WriterInv, MountInv, FailInv, Later
<1>10. ScanInv
  BY <1>4 DEF ScanInv
<1> QED BY <1>7, <1>8, <1>9, <1>10 DEF Inv

(* A step that changes nothing keeps everything.                            *)
LEMMA StutterKeeps ==
  ASSUME Inv, UNCHANGED vars
  PROVE  Inv'
<1>1. /\ UNCHANGED <<ring, zero, data, head, cp, committed, pc, req, paddr, best>>
      /\ UNCHANGED <<nx, cpm, spaceman, excuse>>
  BY DEF vars, disk, mount
<1>2. TypeInv' /\ DiskInv'
  BY <1>1 DEF Inv, TypeInv, DiskInv, IsNewest, Intact
<1>3. WriterInv'
  <2>1. Span(cp.start, cp.maps)' = Span(cp.start, cp.maps) /\ \A p : At(p)' = At(p)
    BY <1>1 DEF Span, At
  <2> QED BY <1>1, <2>1 DEF Inv, WriterInv, IsNewest
<1>4. ScanInv' /\ MountInv' /\ FailInv'
  BY <1>1 DEF Inv, ScanInv, MountInv, FailInv, IsNewest, NotBefore
<1> QED BY <1>2, <1>3, <1>4 DEF Inv

(* Every step of the writer and of the driver keeps the invariant.          *)
LEMMA StepInv ==
  ASSUME Inv, [Next]_vars
  PROVE  Inv'
<1>1. CASE Write
  BY <1>1, BeginKeeps, WriteMapKeeps, WriteSuperblockKeeps, CopyKeeps DEF Write
<1>2. CASE PowerLoss \/ Detach
  BY <1>2, PowerLossKeeps, DetachKeeps
<1>3. CASE ReadBlockZero \/ ScanBlock \/ ScanEnds \/ Reread
  BY <1>3, ReadBlockZeroKeeps, ScanBlockKeeps, ScanEndsKeeps, RereadKeeps
<1>4. CASE BlockZeroUnusable \/ ScanFails
  BY <1>4, ReadFailsKeeps DEF BlockZeroUnusable, ScanFails
<1>5. CASE CheckFusion
  BY <1>5, ReadFailsKeeps, OnwardKeeps DEF CheckFusion
<1>6. CASE GarbageSuperblock \/ ReadMap \/ ReadMapFails \/ LoadSpaceman \/ SpacemanUnusable
  BY <1>6, GarbageKeeps, ReadMapKeeps, ReadMapFailsKeeps, LoadSpacemanKeeps, SpacemanUnusableKeeps
<1>7. CASE MapsRead
  BY <1>7, OnwardKeeps DEF MapsRead
<1>8. CASE InitOmap
  BY <1>8, ReadFailsKeeps, OnwardKeeps DEF InitOmap
<1>9. CASE InitKeys
  BY <1>9, ReadFailsKeeps, OnwardKeeps DEF InitKeys
<1>10. CASE UNCHANGED vars
  BY <1>10, StutterKeeps
<1> QED BY <1>1, <1>2, <1>3, <1>4, <1>5, <1>6, <1>7, <1>8, <1>9, <1>10 DEF Next, Mount

(* The invariant says what the properties say.                              *)
LEMMA InvGives ==
  ASSUME Inv
  PROVE  /\ MountsNewest /\ MountsOneCheckpoint /\ MountsRequestedIfThere
         /\ ~Wraps => FailsForCause
<1>1. ASSUME pc = "mounted", req = 0, ~excuse
      PROVE  /\ nx.xid = committed
             /\ \A n \in 1..Len(cpm) : cpm[n].xid = nx.xid
             /\ Len(cpm) = nx.len - 1
             /\ spaceman = nx.xid
  <2>1. /\ nx.xid = committed /\ Len(cpm) = nx.len - 1 /\ spaceman = committed
        /\ \A n \in 1..Len(cpm) : cpm[n] = MapBlock(committed, committed % Slots)
    BY <1>1, Mounting DEF Later
  <2> QED BY <2>1 DEF MapBlock
<1>2. MountsRequestedIfThere
  <2> SUFFICES ASSUME pc = "mounted", req # 0, ~excuse, nx.xid # req,
                      NEW p \in Positions, ring[p].kind = "sb"
               PROVE  ring[p].xid # req
    BY DEF MountsRequestedIfThere
  <2>1. NotBefore(Ring) /\ p < Ring
    BY ContainerAssumption DEF Inv, MountInv, Later, Positions
  <2> QED BY <2>1 DEF NotBefore
<1>3. ~Wraps => FailsForCause
  BY DEF Inv, FailInv, FailsForCause
<1> QED BY <1>1, <1>2, <1>3 DEF MountsNewest, MountsOneCheckpoint

(* Whatever the writer did and wherever the power failed, the checkpoint    *)
(* that is mounted is the newest (ApfsContainer::Init).                     *)
THEOREM MountsTheNewest == Spec => []MountsNewest
<1>1. Init => Inv
  BY InitInv
<1>2. Inv /\ [Next]_vars => Inv'
  BY StepInv
<1>3. Inv => MountsNewest
  BY InvGives
<1> QED BY <1>1, <1>2, <1>3, PTL DEF Spec

(* The checkpoint maps and the spaceman in use belong to the checkpoint     *)
(* that is mounted, none to a later one (CheckPointMap::Init).              *)
THEOREM MountsOne == Spec => []MountsOneCheckpoint
<1>1. Init => Inv
  BY InitInv
<1>2. Inv /\ [Next]_vars => Inv'
  BY StepInv
<1>3. Inv => MountsOneCheckpoint
  BY InvGives
<1> QED BY <1>1, <1>2, <1>3, PTL DEF Spec

(* The checkpoint asked for with xid=N is mounted if the ring still has its *)
(* superblock.                                                              *)
THEOREM MountsRequested == Spec => []MountsRequestedIfThere
<1>1. Init => Inv
  BY InitInv
<1>2. Inv /\ [Next]_vars => Inv'
  BY StepInv
<1>3. Inv => MountsRequestedIfThere
  BY InvGives
<1> QED BY <1>1, <1>2, <1>3, PTL DEF Spec

(* While no checkpoint goes round the end of the ring, the newest one fails *)
(* to mount for read errors and a damaged block 0 only.                     *)
THEOREM FailsOnlyForCause ==
  ASSUME ~Wraps
  PROVE  Spec => []FailsForCause
<1>1. Init => Inv
  BY InitInv
<1>2. Inv /\ [Next]_vars => Inv'
  BY StepInv
<1>3. Inv => FailsForCause
  BY InvGives
<1> QED BY <1>1, <1>2, <1>3, PTL DEF Spec

=============================================================================
