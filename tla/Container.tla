------------------------------ MODULE Container ------------------------------
(***************************************************************************)
(* ApfsContainer::Init: mounting the container at its newest checkpoint,   *)
(* or at the one asked for with the option xid=N.                          *)
(*                                                                         *)
(* The file system that wrote the container is the environment.  It writes *)
(* a checkpoint as a spaceman (an ephemeral object) into one of a few data *)
(* slots, then checkpoint map blocks and last a superblock into the ring   *)
(* of descriptor blocks, and now and then copies the superblock to block 0.*)
(* It may lose power at any moment, tearing the block being written.  Then *)
(* the driver mounts the container and reads block by block.               *)
(***************************************************************************)
EXTENDS Naturals, Sequences, FiniteSets

CONSTANTS
  Ring,       \* nx_xp_desc_blocks
  Slots,      \* places for a spaceman in the data area
  MaxMaps,    \* most checkpoint maps of a checkpoint
  MaxXid,     \* bound on the checkpoints written
  Wraps,      \* a checkpoint may continue at the start of the ring
  Transient,  \* a block that was read once may fail to be read again
  Requests    \* values of the option xid=N, 0 for none

ASSUME ContainerAssumption ==
  /\ Ring \in Nat \ {0} /\ Slots \in Nat /\ Slots >= 2
  /\ MaxMaps \in Nat \ {0} /\ MaxXid \in Nat \ {0}
  /\ Ring >= 2 * (MaxMaps + 1)
  /\ Wraps \in BOOLEAN /\ Transient \in BOOLEAN
  /\ Requests \subseteq Nat

\* What a descriptor block holds.  "bad" fails VerifyBlock.
Bad == [kind |-> "bad", xid |-> 0, index |-> 0, len |-> 0]
MapBlock(x, slot) == [kind |-> "map", xid |-> x, index |-> slot, len |-> 0]
Superblock(x, i, l) == [kind |-> "sb", xid |-> x, index |-> i, len |-> l]

Positions == 0..(Ring - 1)
NoPosition == Ring       \* max_paddr = 0
NoSpaceman == 0          \* a slot with nothing valid in it

VARIABLES
  ring,       \* the descriptor blocks
  zero,       \* block 0
  data,       \* the checkpoint each slot's spaceman belongs to
  head,       \* next descriptor block to be written
  cp,         \* the checkpoint being written
  committed,  \* newest checkpoint whose superblock was completely written
  unreadable, \* blocks the device cannot read
  pc,         \* "writing", the phases of Init, "mounted", "failed", "crashed"
  req,        \* req_xid
  paddr,      \* scan position
  best,       \* max_xid and max_paddr
  tmp,        \* the block buffer of the scan
  nx,         \* m_nx
  cpm,        \* m_cpm_data
  spaceman,   \* checkpoint of the spaceman in use
  excuse      \* a read failed, or what is there is not for this driver

disk == <<ring, zero, data, head, cp, committed, unreadable>>
mount == <<req, paddr, best, tmp, nx, cpm, spaceman, excuse>>
vars == <<disk, pc, mount>>

\* Blocks outside the ring, named as places of the device.
BlockZero == Ring
OmapBlock == Ring + 1
SpacemanBlock == Ring + 2
KeybagBlock == Ring + 3
Tier2 == Ring + 4    \* the second device, for a container that needs one
Places == 0..(Ring + 4)

NoCheckpoint == [xid |-> 0, start |-> 0, maps |-> 0, done |-> 0]

Init ==
  /\ ring = [p \in Positions |-> CASE p = 0 -> MapBlock(1, 1 % Slots)
                                   [] p = 1 -> Superblock(1, 0, 2)
                                   [] OTHER -> Bad]
  /\ zero = Superblock(1, 0, 2)
  /\ data = [s \in 0..(Slots - 1) |-> IF s = 1 % Slots THEN 1 ELSE NoSpaceman]
  /\ head = 2 % Ring
  /\ cp = NoCheckpoint
  /\ committed = 1
  /\ unreadable \in {u \in SUBSET Places : Cardinality(u) <= 1}
  /\ pc = "writing"
  /\ req = 0 /\ paddr = 0 /\ best = [xid |-> 0, paddr |-> NoPosition]
  /\ tmp = Bad /\ nx = Bad /\ cpm = <<>> /\ spaceman = NoSpaceman
  /\ excuse = FALSE

-----------------------------------------------------------------------------
(* The writing file system.                                                 *)

\* The descriptor blocks of a checkpoint of k maps that starts at h.
Span(h, k) == {(h + n) % Ring : n \in 0..k}

\* Where the newest complete checkpoint is.
Current ==
  LET p == CHOOSE q \in Positions : ring[q].kind = "sb" /\ ring[q].xid = committed
  IN Span(ring[p].index, ring[p].len - 1)

\* A checkpoint that starts by writing its spaceman.
Begin ==
  /\ pc = "writing"
  /\ cp = NoCheckpoint
  /\ committed < MaxXid
  /\ \E k \in 1..MaxMaps :
       LET start == IF ~Wraps /\ head + k >= Ring THEN 0 ELSE head
           x == committed + 1
       IN /\ Span(start, k) \cap Current = {}
          /\ cp' = [xid |-> x, start |-> start, maps |-> k, done |-> 0]
          /\ data' = [data EXCEPT ![x % Slots] = x]
  /\ UNCHANGED <<ring, zero, head, committed, unreadable, pc, mount>>

\* The descriptor block to be written next.
Target == (cp.start + cp.done) % Ring

WriteMap ==
  /\ pc = "writing"
  /\ cp # NoCheckpoint
  /\ cp.done < cp.maps
  /\ ring' = [ring EXCEPT ![Target] = MapBlock(cp.xid, cp.xid % Slots)]
  /\ cp' = [cp EXCEPT !.done = @ + 1]
  /\ UNCHANGED <<zero, data, head, committed, unreadable, pc, mount>>

WriteSuperblock ==
  /\ pc = "writing"
  /\ cp # NoCheckpoint
  /\ cp.done = cp.maps
  /\ ring' = [ring EXCEPT ![Target] = Superblock(cp.xid, cp.start, cp.maps + 1)]
  /\ head' = (Target + 1) % Ring
  /\ committed' = cp.xid
  /\ cp' = NoCheckpoint
  /\ UNCHANGED <<zero, data, unreadable, pc, mount>>

CopyToBlockZero ==
  /\ pc = "writing"
  /\ cp = NoCheckpoint
  /\ \E p \in Positions :
       /\ ring[p].kind = "sb"
       /\ ring[p].xid = committed
       /\ zero' = ring[p]
  /\ UNCHANGED <<ring, data, head, cp, committed, unreadable, pc, mount>>

\* The power fails while the next block of a checkpoint, or block 0, is
\* written.
PowerLoss ==
  /\ pc = "writing"
  /\ \/ /\ cp # NoCheckpoint
        /\ ring' = [ring EXCEPT ![Target] = Bad]
        /\ UNCHANGED <<zero, data>>
     \/ /\ cp = NoCheckpoint
        /\ committed < MaxXid
        /\ data' = [data EXCEPT ![(committed + 1) % Slots] = NoSpaceman]
        /\ UNCHANGED <<ring, zero>>
     \/ /\ cp = NoCheckpoint
        /\ zero' = Bad
        /\ UNCHANGED <<ring, data>>
  /\ pc' = "block0"
  /\ req' \in Requests
  /\ UNCHANGED <<head, cp, committed, unreadable, paddr, best, tmp, nx, cpm,
                 spaceman, excuse>>

\* The container is detached, and the driver started on it.
Detach ==
  /\ pc = "writing"
  /\ pc' = "block0"
  /\ req' \in Requests
  /\ UNCHANGED <<disk, paddr, best, tmp, nx, cpm, spaceman, excuse>>

-----------------------------------------------------------------------------
(* ApfsContainer::Init.                                                     *)

\* A read of place a succeeds, or fails.
Readable(a) == a \notin unreadable
Fails(a) == a \in unreadable \/ Transient

\* Init returns false.
Fail(why) ==
  /\ pc' = "failed"
  /\ excuse' = (excuse \/ why)
  /\ UNCHANGED <<disk, req, paddr, best, tmp, nx, cpm, spaceman>>

\* Block 0 gives the block size and the place of the ring.
ReadBlockZero ==
  /\ pc = "block0"
  /\ Readable(BlockZero)
  /\ zero.kind = "sb"
  /\ nx' = zero
  /\ pc' = "scan"
  /\ paddr' = 0
  /\ UNCHANGED <<disk, req, best, tmp, cpm, spaceman, excuse>>

BlockZeroUnusable ==
  /\ pc = "block0"
  /\ Fails(BlockZero) \/ zero.kind = "bad"
  /\ Fail(TRUE)

\* Mutants: the last superblock of the ring is taken; the first not older than
\* the requested one.
ChosenLast(b) ==
  /\ b.kind = "sb"
  /\ req # 0 => b.xid = req
ChosenFrom(b) ==
  /\ b.kind = "sb"
  /\ b.xid > (IF req # 0 THEN req - 1 ELSE best.xid)

\* One block of the scan for the newest superblock, or the requested one.
Chosen(b) ==
  /\ b.kind = "sb"
  /\ IF req # 0 THEN b.xid = req ELSE b.xid > best.xid

\* Mutant: the scan goes round the ring.
ScanRepeats ==
  /\ pc = "scan"
  /\ paddr < Ring
  /\ Readable(paddr)
  /\ tmp' = ring[paddr]
  /\ IF Chosen(tmp')
       THEN /\ best' = [xid |-> tmp'.xid, paddr |-> paddr]
            /\ pc' = IF req # 0 THEN "reread" ELSE "scan"
       ELSE UNCHANGED <<best, pc>>
  /\ paddr' = (paddr + 1) % Ring
  /\ UNCHANGED <<disk, req, nx, cpm, spaceman, excuse>>

ScanBlock ==
  /\ pc = "scan"
  /\ paddr < Ring
  /\ Readable(paddr)
  /\ tmp' = ring[paddr]
  /\ IF Chosen(tmp')
       THEN /\ best' = [xid |-> tmp'.xid, paddr |-> paddr]
            /\ pc' = IF req # 0 THEN "reread" ELSE "scan"
       ELSE UNCHANGED <<best, pc>>
  /\ paddr' = paddr + 1
  /\ UNCHANGED <<disk, req, nx, cpm, spaceman, excuse>>

ScanFails ==
  /\ pc = "scan"
  /\ paddr < Ring
  /\ Fails(paddr)
  /\ Fail(TRUE)

ScanEnds ==
  /\ pc = "scan"
  /\ paddr = Ring
  /\ pc' = "reread"
  /\ UNCHANGED <<disk, mount>>

\* The chosen superblock is read again; whether that worked is not looked at,
\* and m_nx becomes what the buffer holds.  Without a chosen one m_nx is still
\* block 0.
Reread ==
  /\ pc = "reread"
  /\ IF best.paddr = NoPosition
       THEN UNCHANGED <<tmp, nx, excuse>>
       ELSE /\ \/ Readable(best.paddr) /\ tmp' = ring[best.paddr] /\ UNCHANGED excuse
               \/ Fails(best.paddr) /\ excuse' = TRUE /\ UNCHANGED tmp
            /\ nx' = tmp'
  /\ pc' = "fusion"
  /\ UNCHANGED <<disk, req, paddr, best, cpm, spaceman>>

CheckFusion ==
  /\ pc = "fusion"
  /\ \/ Tier2 \notin unreadable /\ pc' = "cpm" /\ UNCHANGED <<disk, mount>>
     \/ Tier2 \in unreadable /\ Fail(TRUE)

\* A superblock that is none: sizes and addresses are arbitrary.
GarbageSuperblock ==
  /\ pc = "cpm"
  /\ nx.kind # "sb"
  /\ pc' \in {"failed", "crashed"}
  /\ excuse' = TRUE
  /\ UNCHANGED <<disk, req, paddr, best, tmp, nx, cpm, spaceman>>

\* Mutants: the maps are read from the start of the ring; one block too far.
MapIndexFromBase == Len(cpm)
MapIndexShifted == nx.index + Len(cpm) + 1

\* CheckPointMap::Init reads len - 1 blocks from index on, past the end of the
\* ring if need be, where no checkpoint map is.
MapIndex == nx.index + Len(cpm)

ReadMap ==
  /\ pc = "cpm"
  /\ nx.kind = "sb"
  /\ Len(cpm) < nx.len - 1
  /\ MapIndex < Ring
  /\ Readable(MapIndex)
  /\ ring[MapIndex].kind = "map"
  /\ cpm' = Append(cpm, ring[MapIndex])
  /\ UNCHANGED <<disk, pc, req, paddr, best, tmp, nx, spaceman, excuse>>

ReadMapFails ==
  /\ pc = "cpm"
  /\ nx.kind = "sb"
  /\ Len(cpm) < nx.len - 1
  /\ IF MapIndex < Ring
       THEN \/ Fails(MapIndex) /\ Fail(TRUE)
            \/ ring[MapIndex].kind # "map" /\ Fail(FALSE)
       ELSE Fail(FALSE)

MapsRead ==
  /\ pc = "cpm"
  /\ nx.kind = "sb"
  /\ Len(cpm) = nx.len - 1
  /\ pc' = "omap"
  /\ UNCHANGED <<disk, mount>>

\* The container's object map; it does not move between the checkpoints.
InitOmap ==
  /\ pc = "omap"
  /\ \/ Readable(OmapBlock) /\ pc' = "spaceman" /\ UNCHANGED <<disk, mount>>
     \/ Fails(OmapBlock) /\ Fail(TRUE)

\* The first entry for the spaceman is in the first map; the xid is not
\* looked at.  A failed read leaves a buffer of zeros, which does not verify.
LoadSpaceman ==
  /\ pc = "spaceman"
  /\ cpm # <<>>
  /\ Readable(SpacemanBlock)
  /\ data[Head(cpm).index] # NoSpaceman
  /\ spaceman' = data[Head(cpm).index]
  /\ pc' = "keys"
  /\ UNCHANGED <<disk, req, paddr, best, tmp, nx, cpm, excuse>>

SpacemanUnusable ==
  /\ pc = "spaceman"
  /\ \/ cpm = <<>> /\ Fail(FALSE)
     \/ cpm # <<>> /\ data[Head(cpm).index] = NoSpaceman /\ Fail(FALSE)
     \/ Fails(SpacemanBlock) /\ Fail(TRUE)

\* The free queue trees may be missing; a key bag that is there must load.
InitKeys ==
  /\ pc = "keys"
  /\ \/ Readable(KeybagBlock) /\ pc' = "mounted" /\ UNCHANGED <<disk, mount>>
     \/ Fails(KeybagBlock) /\ Fail(TRUE)

Write == Begin \/ WriteMap \/ WriteSuperblock \/ CopyToBlockZero

Mount ==
  \/ ReadBlockZero \/ BlockZeroUnusable \/ ScanBlock \/ ScanFails \/ ScanEnds
  \/ Reread \/ CheckFusion \/ GarbageSuperblock
  \/ ReadMap \/ ReadMapFails \/ MapsRead
  \/ InitOmap \/ LoadSpaceman \/ SpacemanUnusable \/ InitKeys

Next == Write \/ PowerLoss \/ Detach \/ Mount

Spec == Init /\ [][Next]_vars

FairSpec == Spec /\ WF_vars(Mount)

-----------------------------------------------------------------------------
(* Without xid=N the driver mounts the newest checkpoint whose superblock   *)
(* reached the disk, wherever the power failed, if it could be read.        *)
MountsNewest == pc = "mounted" /\ req = 0 /\ ~excuse => nx.xid = committed

(* Everything a mount uses belongs to the one checkpoint it mounted: its    *)
(* maps and its spaceman were not replaced by those of a later checkpoint.  *)
MountsOneCheckpoint ==
  pc = "mounted" /\ req = 0 /\ ~excuse =>
    /\ \A n \in 1..Len(cpm) : cpm[n].xid = nx.xid
    /\ Len(cpm) = nx.len - 1
    /\ spaceman = nx.xid

(* "xid=N : Mount specific xid" (ApfsFuse.cpp:657): a checkpoint that is    *)
(* still in the ring is the one mounted on request.                         *)
MountsRequestedIfThere ==
  pc = "mounted" /\ req # 0 /\ ~excuse =>
    nx.xid = req \/ \A p \in Positions : ring[p].kind = "sb" => ring[p].xid # req

(* A block read as a checkpoint map is one (the assertion of                *)
(* CheckPointMap.cpp:36): the newest checkpoint fails to mount only for     *)
(* blocks that cannot be read or a damaged block 0.                         *)
FailsForCause == pc = "failed" /\ req = 0 => excuse

(* A mount comes to an end.                                                 *)
MountEnds == (pc = "block0") ~> (pc \in {"mounted", "failed", "crashed"})
=============================================================================
