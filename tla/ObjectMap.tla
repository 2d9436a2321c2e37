------------------------------ MODULE ObjectMap ------------------------------
(***************************************************************************)
(* The object map of a volume with snapshots, and how the driver finds     *)
(* through it the blocks of the live file system or of a snapshot:         *)
(* ApfsVolume::Init and MountSnapshot, BTree::GetNode and                  *)
(* ApfsNodeMapperBTree::Lookup.                                            *)
(*                                                                         *)
(* An entry maps an object id and the transaction that wrote the object to *)
(* a block.  The file system that wrote the volume is the environment: in  *)
(* a transaction it writes and deletes objects and takes or deletes        *)
(* snapshots, and it keeps an old entry exactly as long as a snapshot      *)
(* needs it.  An object is named by the transaction that wrote it, so the  *)
(* entry (oid, xid) stands for the block of that version.                  *)
(***************************************************************************)
EXTENDS Integers

CONSTANTS
  Oids,     \* virtual object ids
  MaxXid    \* bound on the transactions

ASSUME ObjectMapAssumption == Oids \subseteq Nat \ {0} /\ MaxXid \in Nat

VARIABLES
  xid,      \* apfs_o.o_xid of the volume superblock: the last transaction
  entries,  \* the object map
  live,     \* the version of every object in the file system
  views,    \* the same for every snapshot, by the snapshot's xid
  phase,    \* "writing", "mounted", "failed"
  snap_xid, \* what the volume was mounted with, 0 for the live volume
  at,       \* m_xid of the file system tree
  wanted,   \* oid of the last GetNode
  node      \* the entry it used

written == <<xid, entries, live, views>>
omapVars == <<written, phase, snap_xid, at, wanted, node>>

Unborn == 0     \* versions: not written yet, and deleted
Dead == -1
Versions == Int

Entry(o, x, d) == [oid |-> o, xid |-> x, deleted |-> d]
NoEntry == Entry(0, 0, TRUE)

OmapTypeOK ==
  /\ xid \in Nat
  /\ entries \subseteq [oid : Oids, xid : Nat, deleted : BOOLEAN]
  /\ live \in [Oids -> Versions]
  /\ DOMAIN views \subseteq 1..xid
  /\ views \in [DOMAIN views -> [Oids -> Versions]]
  /\ phase \in {"writing", "mounted", "failed"}
  /\ snap_xid \in Nat
  /\ at \in 0..xid
  /\ wanted \in Oids \cup {0}
  /\ node \in entries \cup {NoEntry}

OmapInit ==
  /\ xid = 0
  /\ entries = {}
  /\ live = [o \in Oids |-> Unborn]
  /\ views = [s \in {} |-> live]
  /\ phase = "writing"
  /\ snap_xid = 0 /\ at = 0 /\ wanted = 0 /\ node = NoEntry

-----------------------------------------------------------------------------
(* The writing file system.                                                 *)

\* Some snapshot shows version x of object o.
Shown(o, x) == \E s \in DOMAIN views : views[s][o] = x

\* The entries that writing W and deleting D in transaction x puts in and out.
Added(W, D, x) ==
  {Entry(o, x, FALSE) : o \in W}
    \cup {Entry(o, x, TRUE) : o \in {d \in D : Shown(d, live[d])}}
Removed(W, D) ==
  {e \in entries : e.oid \in W \cup D /\ e.xid = live[e.oid] /\ ~Shown(e.oid, e.xid)}

\* A transaction, after which a snapshot may be taken.
Transaction(W, D, take) ==
  /\ phase = "writing"
  /\ xid < MaxXid
  /\ \A o \in W : live[o] # Dead
  /\ \A o \in D : live[o] > 0
  /\ W \cap D = {}
  /\ xid' = xid + 1
  /\ entries' = (entries \ Removed(W, D)) \cup Added(W, D, xid')
  /\ live' = [o \in Oids |-> IF o \in W THEN xid' ELSE IF o \in D THEN Dead ELSE live[o]]
  /\ views' = IF take
                THEN [s \in DOMAIN views \cup {xid'} |-> IF s = xid' THEN live' ELSE views[s]]
                ELSE views
  /\ UNCHANGED <<phase, snap_xid, at, wanted, node>>

\* Entries nothing needs any more when snapshot s is gone.  They go at once or
\* with a later snapshot.
Unneeded(s, e) ==
  /\ e.xid # live[e.oid]
  /\ \A t \in DOMAIN views \ {s} : views[t][e.oid] # e.xid

DeleteSnapshot(s) ==
  /\ phase = "writing"
  /\ xid < MaxXid
  /\ s \in DOMAIN views
  /\ xid' = xid + 1
  /\ views' = [t \in DOMAIN views \ {s} |-> views[t]]
  /\ entries' \in {entries, {e \in entries : ~Unneeded(s, e)}}
  /\ UNCHANGED <<live, phase, snap_xid, at, wanted, node>>

-----------------------------------------------------------------------------
(* The driver.                                                              *)

\* ApfsVolume::Init: the tree is read as of the superblock's transaction.
MountLive ==
  /\ phase = "writing"
  /\ phase' = "mounted"
  /\ snap_xid' = 0
  /\ at' = xid
  /\ UNCHANGED <<written, wanted, node>>

\* Mutant: whether the snapshot's metadata was found is not looked at.
MountSnapshotUnchecked(s) ==
  /\ phase = "writing"
  /\ phase' = "mounted"
  /\ snap_xid' = s
  /\ at' = s
  /\ UNCHANGED <<written, wanted, node>>

\* ApfsVolume::MountSnapshot: the snapshot's metadata must exist; the tree is
\* read as of the snapshot's superblock, the object map is the live one.
MountSnapshot(s) ==
  /\ phase = "writing"
  /\ snap_xid' = s
  /\ IF s \in DOMAIN views
       THEN phase' = "mounted" /\ at' = s
       ELSE phase' = "failed" /\ UNCHANGED at
  /\ UNCHANGED <<written, wanted, node>>

\* Mutant: entries are compared by transaction first.
AtOrBeforeByXid(e, o, x) == e.xid < x \/ (e.xid = x /\ e.oid <= o)

\* CompareOMapKey: entry e is not after the key (o, x).
AtOrBefore(e, o, x) == e.oid < o \/ (e.oid = o /\ e.xid <= x)

\* The entry the object map's tree returns: the last one at or before the key.
Floor(e, o, x) ==
  /\ e \in entries
  /\ AtOrBefore(e, o, x)
  /\ \A f \in entries : AtOrBefore(f, o, x) => AtOrBefore(f, e.oid, e.xid)

\* ApfsNodeMapperBTree::Lookup: an entry of another object is no answer; the
\* flag of a deleted one is not looked at.
Lookup(o, x, e) ==
  \/ Floor(e, o, x) /\ e.oid = o
  \/ ~(\E f \in entries : Floor(f, o, x) /\ f.oid = o) /\ e = NoEntry

\* What the mounted file system shows.
View == IF snap_xid = 0 THEN live ELSE views[snap_xid]

\* GetNode of an object the tree refers to.
GetNode(o) ==
  /\ phase = "mounted"
  /\ View[o] > 0
  /\ wanted' = o
  /\ \E e \in entries \cup {NoEntry} : Lookup(o, at, e) /\ node' = e
  /\ UNCHANGED <<written, phase, snap_xid, at>>

OmapNext ==
  \/ \E W, D \in SUBSET Oids, take \in BOOLEAN : Transaction(W, D, take)
  \/ \E s \in DOMAIN views : DeleteSnapshot(s)
  \/ MountLive
  \/ \E s \in 1..MaxXid : MountSnapshot(s)
  \/ \E o \in Oids : GetNode(o)

OmapSpec == OmapInit /\ [][OmapNext]_omapVars

-----------------------------------------------------------------------------
(* The driver reads every object in the version the mounted file system,    *)
(* live or snapshot, had: not a later one written since the snapshot, not   *)
(* an earlier one kept for another snapshot, not another object, and not    *)
(* nothing at all.                                                          *)
RightVersion ==
  phase = "mounted" /\ wanted # 0 => node = Entry(wanted, View[wanted], FALSE)
=============================================================================
