----------------------------- MODULE Volume_proofs -----------------------------
(***************************************************************************)
(* Proof that no volume is mounted with the wrong key, that nobody is asked*)
(* for a password in vain, and that what can be mounted is, whatever the   *)
(* volumes, key bags and passwords.                                        *)
(***************************************************************************)
EXTENDS Volume, ObjectMap, TLAPS

Start == {"idle", "superblock", "snap_meta"}
Search == {"bag", "records", "vek", "nokey"}

\* The key bag tells nothing the mount of the container did not.
Plainness == unencrypted = vol.plain

\* Past the snapshot's lookup, which a live volume skips, the snapshot exists.
SnapshotExists ==
  /\ pc = "snap_meta" => snap # 0
  /\ pc \notin Start \cup {"failed"} => snap \in vol.snapshots \cup {0}

\* A key is looked for, and a password asked for, only if one is needed.
SearchNeeded == pc \in Search \/ asked => vol.encrypted /\ ~vol.plain

\* The password in use is the one on the command line until one is typed.
Offered == pc \in Search /\ ~asked => trying = passphrase

\* No record before the k-th takes the password, and the one that ends the
\* loop early does.
Tried ==
  /\ pc = "records" => \A i \in 1..(k - 1) : ~Opens(vol.bag[i], trying)
  /\ pc = "vek" => Opened(trying)
  /\ pc = "nokey" /\ "bag" \notin unreadable /\ vol.vek => ~Opened(trying)

\* Decryption is set up at the end of the search, and is what the volume needs.
KeySet ==
  /\ pc \notin {"trees", "mounted", "failed"} => ~decrypting
  /\ pc \in {"trees", "mounted"} =>
       /\ decrypting <=> vol.encrypted /\ ~vol.plain
       /\ decrypting => Opened(trying) /\ (trying = passphrase \/ asked)

Conforms ==
  /\ Plainness /\ SnapshotExists /\ SearchNeeded /\ Offered /\ Tried /\ KeySet
  /\ AskedOnlyIfNeeded /\ MountsIfItCan

IInv == TypeOK /\ (PlainSnapshot \/ Conforms)

(* No unlock record opens for somebody who gave no password.                *)
LEMMA NoPasswordOpensNothing ==
  ASSUME TypeOK PROVE ~Opened(NoPassword)
<1>1. vol.bag \in Seq(Entries)
  BY VolumeAssumption DEF TypeOK
<1>2. \A i \in DOMAIN vol.bag : vol.bag[i] \in Entries
  BY <1>1
<1>3. \A e \in Entries : e.password # NoPassword
  BY VolumeAssumption DEF Entries
<1> QED BY <1>2, <1>3 DEF Opened, Opens

(* Nothing is known, asked for or decrypted before the mount begins.        *)
LEMMA InitInv == Init => IInv
<1>1. Init => TypeOK
  <2>1. \A v \in Volumes : v.bag \in Seq(Entries)
    BY VolumeAssumption
  <2>2. ASSUME NEW v \in Volumes PROVE 1 \in 1..(Len(v.bag) + 1)
    <3>1. Len(v.bag) \in Nat
      BY <2>1
    <3> QED BY <3>1
  <2>3. \A v \in Volumes : v.plain \in BOOLEAN
    BY VolumeAssumption
  <2> QED BY <2>2, <2>3 DEF Init, TypeOK
<1> QED
  BY <1>1 DEF Init, IInv, Conforms, Plainness, SnapshotExists, SearchNeeded, Offered, Tried,
              KeySet, AskedOnlyIfNeeded, MountsIfItCan, Start, Search

(* Every step of a mount keeps the types.                                   *)
LEMMA StepTypes == ASSUME TypeOK, [Next]_vars PROVE TypeOK'
<1> USE VolumeAssumption DEF TypeOK, given
<1>1. CASE GetVolume \/ ReadSuperblock \/ FindSnapshot \/ InitOmap \/ ReadSnapshotSuperblock
  BY <1>1 DEF GetVolume, ReadSuperblock, FindSnapshot, InitOmap, ReadSnapshotSuperblock,
              Reads, Goto
<1>2. CASE CheckEncryption
  BY <1>2 DEF CheckEncryption, Goto
<1>3. CASE LoadKeybag
  BY <1>3 DEF LoadKeybag
<1>4. CASE TryRecord
  BY <1>4 DEF TryRecord, Goto
<1>5. CASE NoRecordOpens \/ WrongPassword \/ InitTrees
  BY <1>5 DEF NoRecordOpens, WrongPassword, InitTrees, Goto
<1>6. CASE UnwrapVek
  BY <1>6 DEF UnwrapVek, Goto
<1>7. CASE AskPassword
  BY <1>7 DEF AskPassword
<1>8. CASE UNCHANGED vars
  BY <1>8 DEF vars
<1> QED
  BY <1>1, <1>2, <1>3, <1>4, <1>5, <1>6, <1>7, <1>8 DEF Next

(* Every step of a mount keeps the invariant, unless a snapshot of a volume  *)
(* is mounted whose device decrypts.                                        *)
LEMMA StepConforms ==
  ASSUME TypeOK, ~PlainSnapshot, Conforms, [Next]_vars PROVE Conforms'
<1>1. TypeOK /\ TypeOK'
  BY StepTypes
<1>2. ~Opened(NoPassword)
  BY <1>1, NoPasswordOpensNothing
<1>3. vol' = vol /\ unreadable' = unreadable /\ snap' = snap /\ passphrase' = passphrase
  BY DEF Next, vars, given, GetVolume, ReadSuperblock, FindSnapshot, InitOmap,
         ReadSnapshotSuperblock, Reads, Goto, CheckEncryption, LoadKeybag, TryRecord,
         NoRecordOpens, UnwrapVek, AskPassword, WrongPassword, InitTrees
<1>4. \A p : Opened(p)' = Opened(p)
  BY <1>3 DEF Opened, Opens
<1>5. Len(vol.bag) \in Nat /\ DOMAIN vol.bag = 1..Len(vol.bag) /\ k \in Nat
  BY <1>1, VolumeAssumption DEF TypeOK
<1> USE <1>3 DEF Plainness, SnapshotExists, SearchNeeded, Offered, KeySet,
                 AskedOnlyIfNeeded, MountsIfItCan, PlainSnapshot, Start, Search,
                 given
<1>6. CASE GetVolume \/ ReadSuperblock \/ FindSnapshot \/ InitOmap \/ ReadSnapshotSuperblock
  <2>1. UNCHANGED <<unencrypted, asked, trying, k, decrypting>>
    BY <1>6 DEF GetVolume, ReadSuperblock, FindSnapshot, InitOmap, ReadSnapshotSuperblock,
                Reads, Goto
  <2>2. pc' \in {"superblock", "snap_meta", "omap", "snap_superblock", "check", "failed"}
    BY <1>6 DEF GetVolume, ReadSuperblock, FindSnapshot, InitOmap, ReadSnapshotSuperblock,
                Reads, Goto
  <2>3. SnapshotExists'
    BY <1>6 DEF Conforms, GetVolume, ReadSuperblock, FindSnapshot, InitOmap,
                ReadSnapshotSuperblock, Reads, Goto
  <2>4. pc' = "failed" => unreadable # {} \/ (snap # 0 /\ snap \notin vol.snapshots)
    BY <1>6, VolumeAssumption
       DEF Conforms, GetVolume, ReadSuperblock, FindSnapshot, InitOmap,
           ReadSnapshotSuperblock, Reads, Goto
  <2>5. pc \in Start \cup {"omap", "snap_superblock"}
    BY <1>6 DEF GetVolume, ReadSuperblock, FindSnapshot, InitOmap,
                ReadSnapshotSuperblock, Reads
  <2> QED BY <1>1, <1>4, <2>1, <2>2, <2>3, <2>4, <2>5 DEF Conforms, Tried
<1>7. CASE CheckEncryption
  <2>1. pc = "check" /\ UNCHANGED <<unencrypted, asked, k, decrypting>>
    BY <1>7 DEF CheckEncryption, Goto
  <2>2. NeedsKey <=> vol.encrypted /\ ~vol.plain
    BY <1>1, <2>1 DEF Conforms, NeedsKey, PlainSnapshot, TypeOK
  <2>3. CASE ~NeedsKey
    BY <1>1, <1>4, <1>7, <2>1, <2>2, <2>3 DEF Conforms, CheckEncryption, Goto, Tried
  <2>4. CASE NeedsKey
    BY <1>1, <1>2, <1>4, <1>7, <2>1, <2>2, <2>4 DEF Conforms, CheckEncryption, Tried
  <2> QED BY <2>3, <2>4
<1>8. CASE LoadKeybag
  BY <1>1, <1>4, <1>8 DEF Conforms, LoadKeybag, Tried, TypeOK
<1>9. CASE TryRecord
  <2>1. CASE Opens(vol.bag[k], trying)
    BY <1>1, <1>4, <1>5, <1>9, <2>1 DEF Conforms, TryRecord, Goto, Tried, Opened, TypeOK
  <2>2. CASE ~Opens(vol.bag[k], trying)
    <3>1. k' = k + 1 /\ UNCHANGED <<unencrypted, pc, asked, trying, decrypting>>
          /\ pc = "records"
      BY <1>9, <2>2 DEF TryRecord
    <3>2. \A i \in 1..(k' - 1) : ~Opens(vol.bag[i], trying)
      BY <1>5, <2>2, <3>1 DEF Conforms, Tried
    <3>3. Tried'
      BY <1>3, <3>1, <3>2 DEF Tried, Opens
    <3> QED BY <1>1, <1>4, <3>1, <3>3 DEF Conforms
  <2> QED BY <2>1, <2>2
<1>10. CASE NoRecordOpens
  <2>1. pc = "records" /\ pc' = "nokey" /\ UNCHANGED <<unencrypted, asked, trying, k, decrypting>>
    BY <1>10 DEF NoRecordOpens, Goto
  <2>2. ~Opened(trying)
    <3>1. \A i \in DOMAIN vol.bag : i \in 1..(k - 1)
      BY <1>5, <1>10 DEF NoRecordOpens
    <3> QED BY <2>1, <3>1 DEF Conforms, Tried, Opened
  <2> QED BY <1>1, <1>4, <2>1, <2>2 DEF Conforms, Tried
<1>11. CASE UnwrapVek
  BY <1>1, <1>4, <1>11 DEF Conforms, UnwrapVek, Goto, Tried
<1>12. CASE AskPassword
  BY <1>1, <1>4, <1>12 DEF Conforms, AskPassword, Tried, TypeOK
<1>13. CASE WrongPassword
  BY <1>1, <1>4, <1>13 DEF Conforms, WrongPassword, Goto, Tried
<1>14. CASE InitTrees
  BY <1>1, <1>4, <1>14 DEF Conforms, InitTrees, Goto, Tried
<1>15. CASE UNCHANGED vars
  BY <1>1, <1>4, <1>15 DEF Conforms, vars, Tried, Opens
<1> QED
  BY <1>6, <1>7, <1>8, <1>9, <1>10, <1>11, <1>12, <1>13, <1>14, <1>15 DEF Next

(* Every step of a mount keeps the invariant.                               *)
LEMMA StepInv == ASSUME IInv, [Next]_vars PROVE IInv'
<1>1. TypeOK'
  BY StepTypes DEF IInv
<1>2. CASE PlainSnapshot
  <2>1. vol' = vol /\ snap' = snap
    BY DEF Next, vars, given, GetVolume, ReadSuperblock, FindSnapshot, InitOmap,
           ReadSnapshotSuperblock, Reads, Goto, CheckEncryption, LoadKeybag, TryRecord,
           NoRecordOpens, UnwrapVek, AskPassword, WrongPassword, InitTrees
  <2> QED BY <1>1, <1>2, <2>1 DEF IInv, PlainSnapshot
<1>3. CASE ~PlainSnapshot
  BY <1>1, <1>3, StepConforms DEF IInv
<1> QED BY <1>2, <1>3

-----------------------------------------------------------------------------
(* The invariant holds of every mount.                                      *)
THEOREM Invariance ==
  Spec => []IInv
<1>1. IInv /\ [Next]_vars => IInv'
  BY StepInv
<1> QED BY InitInv, <1>1, PTL DEF Spec

(* Every state of a mount is well typed, whatever the volume.               *)
THEOREM TypeCorrect == Spec => []TypeOK
<1>1. Init => TypeOK
  BY InitInv DEF IInv
<1> QED BY <1>1, StepTypes, PTL DEF Spec

(* A mounted volume is decrypted exactly if it must be, with a password     *)
(* that one of its records took (KeyManager::GetVolumeKey).                 *)
THEOREM MountedWithRightKey ==
  Spec => []RightKey
<1>1. IInv => RightKey
  BY DEF IInv, Conforms, KeySet, RightKey, PlainSnapshot
<1> QED BY Invariance, <1>1, PTL

(* A mount fails for a reason alone: a block, a snapshot or a password.     *)
THEOREM FailsForAReason ==
  Spec => []MountsIfItCan
<1>1. IInv => MountsIfItCan
  BY DEF IInv, Conforms, MountsIfItCan
<1> QED BY Invariance, <1>1, PTL

(* Nobody is asked for a password in vain.                                  *)
THEOREM AsksWithReason ==
  Spec => []AskedOnlyIfNeeded
<1>1. IInv => AskedOnlyIfNeeded
  BY DEF IInv, Conforms, AskedOnlyIfNeeded, PlainSnapshot
<1> QED BY Invariance, <1>1, PTL

-----------------------------------------------------------------------------
(* The object map: the driver reads every object in the right version, for  *)
(* every set of objects, every number of transactions and every history of  *)
(* snapshots.                                                               *)

\* In object map E every object that view v of transaction s shows has its
\* entry, and no other entry of the object lies between that version and s.
Shows(E, v, s) ==
  \A o \in Oids : v[o] > 0 =>
    /\ v[o] <= s
    /\ Entry(o, v[o], FALSE) \in E
    /\ \A e \in E :
         e.oid = o /\ e.xid <= s => e.xid < v[o] \/ e = Entry(o, v[o], FALSE)

EntriesPast == \A e \in entries : e.xid <= xid

VersionsKept ==
  /\ Shows(entries, live, xid)
  /\ \A s \in DOMAIN views : Shows(entries, views[s], s)

\* What a mounted tree is read as of, and that nothing was read before.
Mounted ==
  /\ phase = "mounted" =>
       \/ snap_xid = 0 /\ at = xid
       \/ snap_xid \in DOMAIN views /\ at = snap_xid
  /\ phase # "mounted" => wanted = 0 /\ node = NoEntry

OmapIInv == OmapTypeOK /\ EntriesPast /\ VersionsKept /\ Mounted /\ RightVersion

(* In an empty volume there is nothing to be read wrongly.                  *)
LEMMA OmapInitInv == OmapInit => OmapIInv
BY ObjectMapAssumption
DEF OmapInit, OmapIInv, OmapTypeOK, EntriesPast, VersionsKept, Shows, Mounted, RightVersion,
    Versions, Unborn, Entry, NoEntry

(* A transaction keeps what the live volume and the snapshots show, and its *)
(* own snapshot shows the live volume.                                      *)
LEMMA TransactionKeeps ==
  ASSUME OmapIInv, NEW W \in SUBSET Oids, NEW D \in SUBSET Oids,
         NEW take \in BOOLEAN, Transaction(W, D, take)
  PROVE  OmapTypeOK' /\ EntriesPast' /\ VersionsKept'
<1>1. xid \in Nat /\ xid' = xid + 1 /\ xid' \in Nat /\ xid < xid'
  BY DEF Transaction, OmapIInv, OmapTypeOK
<1>2. Added(W, D, xid') \subseteq [oid : Oids, xid : {xid'}, deleted : BOOLEAN]
  <2>1. \A o \in W \cup D, d \in BOOLEAN :
          Entry(o, xid', d) \in [oid : Oids, xid : {xid'}, deleted : BOOLEAN]
    BY DEF Entry
  <2> QED BY <2>1 DEF Added
<1>3. /\ entries' \subseteq entries \cup Added(W, D, xid')
      /\ entries' \subseteq [oid : Oids, xid : Nat, deleted : BOOLEAN]
      /\ entries \subseteq [oid : Oids, xid : Nat, deleted : BOOLEAN]
  BY <1>1, <1>2 DEF Transaction, OmapIInv, OmapTypeOK
<1>4. \A e \in entries' : (e \in entries /\ e.xid <= xid) \/ e.xid = xid'
  BY <1>2, <1>3 DEF OmapIInv, EntriesPast
<1>5. EntriesPast'
  BY <1>1, <1>3, <1>4 DEF EntriesPast
<1>6. live' = [o \in Oids |-> IF o \in W THEN xid' ELSE IF o \in D THEN Dead ELSE live[o]]
      /\ live' \in [Oids -> Versions] /\ live \in [Oids -> Versions]
  BY <1>1 DEF Transaction, OmapIInv, OmapTypeOK, Versions, Dead
<1>7. /\ DOMAIN views \subseteq 1..xid
      /\ \A s \in DOMAIN views : views[s] \in [Oids -> Versions]
  BY DEF OmapIInv, OmapTypeOK
<1>8. /\ DOMAIN views' \subseteq DOMAIN views \cup {xid'}
      /\ \A s \in DOMAIN views : s \in DOMAIN views' /\ views'[s] = views[s]
      /\ \A s \in DOMAIN views' : s \notin DOMAIN views => s = xid' /\ views'[s] = live'
      /\ views' = [s \in DOMAIN views' |-> views'[s]]
  <2>1. xid' \notin DOMAIN views
    BY <1>1, <1>7
  <2>2. CASE take
    BY <2>1, <2>2 DEF Transaction
  <2>3. CASE ~take
    BY <2>3 DEF Transaction, OmapIInv, OmapTypeOK
  <2> QED BY <2>2, <2>3
<1>9. OmapTypeOK'
  <2>1. views' \in [DOMAIN views' -> [Oids -> Versions]]
    BY <1>6, <1>7, <1>8
  <2>2. DOMAIN views' \subseteq 1..xid'
    BY <1>1, <1>7, <1>8
  <2>3. at' \in 0..xid' /\ wanted' \in Oids \cup {0} /\ snap_xid' \in Nat /\ phase' = "writing"
    BY <1>1 DEF Transaction, OmapIInv, OmapTypeOK
  <2>4. node' = NoEntry
    BY DEF Transaction, OmapIInv, Mounted
  <2> QED BY <1>1, <1>3, <1>6, <2>1, <2>2, <2>3, <2>4 DEF OmapTypeOK
<1>10. \A o \in Oids : ~(o \in W \cup D) => live'[o] = live[o]
  BY <1>6
<1>11. \A e \in entries : e.oid \notin W \cup D \/ Shown(e.oid, e.xid) => e \in entries'
  BY DEF Transaction, Removed
<1>12. \A e \in entries' : e.xid # xid' => e \in entries /\ e.xid <= xid
  BY <1>4
<1>13. \A o \in W : Entry(o, xid', FALSE) \in entries'
  BY DEF Transaction, Added
<1>14. Shows(entries', live', xid')
  <2> SUFFICES ASSUME NEW o \in Oids, live'[o] > 0
               PROVE  /\ live'[o] <= xid'
                      /\ Entry(o, live'[o], FALSE) \in entries'
                      /\ \A e \in entries' :
                           e.oid = o /\ e.xid <= xid' =>
                             e.xid < live'[o] \/ e = Entry(o, live'[o], FALSE)
    BY DEF Shows
  <2>1. CASE o \in W
    <3>1. live'[o] = xid'
      BY <1>6, <2>1
    <3>2. ASSUME NEW e \in entries', e.oid = o, e.xid = xid'
          PROVE  e = Entry(o, xid', FALSE)
      <4>1. e \notin entries
        BY <1>1, <1>3, <3>2 DEF OmapIInv, EntriesPast
      <4>2. e \in Added(W, D, xid')
        BY <1>3, <4>1
      <4>3. o \notin D
        BY <2>1 DEF Transaction
      <4> QED BY <4>2, <4>3, <3>2 DEF Added, Entry
    <3>3. \A e \in entries' : e.xid < xid' \/ e.xid = xid'
      BY <1>1, <1>3, <1>4
    <3>4. \A e \in entries' : e.oid = o => e.xid < xid' \/ e = Entry(o, xid', FALSE)
      BY <3>2, <3>3
    <3>5. xid' <= xid'
      BY <1>1
    <3> QED BY <1>13, <2>1, <3>1, <3>4, <3>5
  <2>2. CASE o \in D /\ o \notin W
    BY <1>6, <2>2 DEF Dead
  <2>3. CASE o \notin W \cup D
    <3>1. live'[o] = live[o] /\ live[o] \in Int
      BY <1>6, <1>10, <2>3 DEF Versions
    <3>2. /\ live[o] <= xid
          /\ Entry(o, live[o], FALSE) \in entries
          /\ \A e \in entries :
               e.oid = o /\ e.xid <= xid =>
                 e.xid < live[o] \/ e = Entry(o, live[o], FALSE)
      BY <3>1 DEF OmapIInv, VersionsKept, Shows
    <3>3. Entry(o, live[o], FALSE) \in entries'
      BY <1>11, <2>3, <3>2 DEF Entry
    <3>4. \A e \in entries' : e.oid = o => e \in entries /\ e.xid <= xid
      <4> SUFFICES ASSUME NEW e \in entries', e.oid = o
                   PROVE  e \in entries /\ e.xid <= xid
        OBVIOUS
      <4>1. e \notin Added(W, D, xid')
        BY <2>3 DEF Added, Entry
      <4> QED BY <1>3, <4>1 DEF OmapIInv, EntriesPast
    <3>5. live[o] <= xid'
      BY <1>1, <3>1, <3>2
    <3> QED BY <3>1, <3>2, <3>3, <3>4, <3>5
  <2> QED BY <2>1, <2>2, <2>3
<1>15. ASSUME NEW s \in DOMAIN views
       PROVE  Shows(entries', views'[s], s)
  <2>1. views'[s] = views[s] /\ s \in Nat /\ s <= xid
    BY <1>1, <1>7, <1>8
  <2> SUFFICES ASSUME NEW o \in Oids, views[s][o] > 0
               PROVE  /\ views[s][o] <= s
                      /\ Entry(o, views[s][o], FALSE) \in entries'
                      /\ \A e \in entries' :
                           e.oid = o /\ e.xid <= s =>
                             e.xid < views[s][o] \/ e = Entry(o, views[s][o], FALSE)
    BY <2>1 DEF Shows
  <2>2. /\ views[s][o] <= s
        /\ Entry(o, views[s][o], FALSE) \in entries
        /\ \A e \in entries :
             e.oid = o /\ e.xid <= s =>
               e.xid < views[s][o] \/ e = Entry(o, views[s][o], FALSE)
    BY DEF OmapIInv, VersionsKept, Shows
  <2>3. Entry(o, views[s][o], FALSE) \in entries'
    BY <1>11, <2>2 DEF Shown, Entry
  <2>4. \A e \in entries' : e.xid <= s => e \in entries
    BY <1>1, <1>12, <2>1
  <2> QED BY <2>2, <2>3, <2>4
<1>16. VersionsKept'
  <2> SUFFICES ASSUME NEW s \in DOMAIN views'
               PROVE  Shows(entries', views'[s], s)
    BY <1>14 DEF VersionsKept
  <2>1. CASE s \in DOMAIN views
    BY <1>15, <2>1
  <2>2. CASE s \notin DOMAIN views
    <3>1. s = xid' /\ views'[s] = live'
      BY <1>8, <2>2
    <3> QED BY <1>14, <3>1
  <2> QED BY <2>1, <2>2
<1> QED BY <1>5, <1>9, <1>16

(* Deleting a snapshot takes only entries that neither the live volume nor  *)
(* another snapshot shows.                                                  *)
LEMMA DeleteSnapshotKeeps ==
  ASSUME OmapIInv, NEW s \in DOMAIN views, DeleteSnapshot(s)
  PROVE  OmapTypeOK' /\ EntriesPast' /\ VersionsKept'
<1>1. /\ xid \in Nat /\ xid' = xid + 1
      /\ entries' \subseteq entries
      /\ entries \subseteq [oid : Oids, xid : Nat, deleted : BOOLEAN]
      /\ live' = live /\ live \in [Oids -> Versions]
  BY DEF DeleteSnapshot, OmapIInv, OmapTypeOK
<1>2. /\ DOMAIN views' = DOMAIN views \ {s}
      /\ \A t \in DOMAIN views' : views'[t] = views[t]
      /\ views' = [t \in DOMAIN views' |-> views'[t]]
      /\ DOMAIN views \subseteq 1..xid
      /\ \A t \in DOMAIN views : views[t] \in [Oids -> Versions]
  BY DEF DeleteSnapshot, OmapIInv, OmapTypeOK
<1>3. \A e \in entries :
        e.xid = live[e.oid] \/ (\E t \in DOMAIN views' : views[t][e.oid] = e.xid)
          => e \in entries'
  BY <1>2 DEF DeleteSnapshot, Unneeded
<1>4. OmapTypeOK'
  <2>1. node' = NoEntry /\ phase' = "writing" /\ snap_xid' \in Nat /\ wanted' \in Oids \cup {0}
    BY DEF DeleteSnapshot, OmapIInv, OmapTypeOK, Mounted
  <2>2. at' \in 0..xid' /\ DOMAIN views' \subseteq 1..xid'
    BY <1>1, <1>2 DEF DeleteSnapshot, OmapIInv, OmapTypeOK
  <2>3. views' \in [DOMAIN views' -> [Oids -> Versions]]
    BY <1>2
  <2> QED BY <1>1, <2>1, <2>2, <2>3 DEF OmapTypeOK
<1>5. EntriesPast'
  BY <1>1 DEF OmapIInv, EntriesPast
<1>6. Shows(entries', live', xid')
  <2> SUFFICES ASSUME NEW o \in Oids, live[o] > 0
               PROVE  /\ live[o] <= xid'
                      /\ Entry(o, live[o], FALSE) \in entries'
                      /\ \A e \in entries' :
                           e.oid = o /\ e.xid <= xid' =>
                             e.xid < live[o] \/ e = Entry(o, live[o], FALSE)
    BY <1>1 DEF Shows
  <2>1. live[o] \in Int
    BY <1>1 DEF Versions
  <2>2. /\ live[o] <= xid
        /\ Entry(o, live[o], FALSE) \in entries
        /\ \A e \in entries :
             e.oid = o /\ e.xid <= xid =>
               e.xid < live[o] \/ e = Entry(o, live[o], FALSE)
    BY DEF OmapIInv, VersionsKept, Shows
  <2>3. Entry(o, live[o], FALSE) \in entries'
    BY <1>3, <2>2 DEF Entry
  <2>4. \A e \in entries' : e \in entries /\ e.xid <= xid
    BY <1>1 DEF OmapIInv, EntriesPast
  <2>5. live[o] <= xid'
    BY <1>1, <2>1, <2>2
  <2> QED BY <2>2, <2>3, <2>4, <2>5
<1>7. ASSUME NEW t \in DOMAIN views'
      PROVE  Shows(entries', views'[t], t)
  <2>1. t \in DOMAIN views /\ views'[t] = views[t] /\ Shows(entries, views[t], t)
    BY <1>2 DEF OmapIInv, VersionsKept
  <2>2. \A o \in Oids : Entry(o, views[t][o], FALSE) \in entries =>
                        Entry(o, views[t][o], FALSE) \in entries'
    BY <1>3 DEF Entry
  <2> QED BY <1>1, <2>1, <2>2 DEF Shows
<1> QED BY <1>4, <1>5, <1>6, <1>7 DEF VersionsKept

(* The floor of (oid, m_xid) is the version the mounted tree refers to.     *)
LEMMA LookupRight ==
  ASSUME OmapIInv, phase = "mounted", NEW o \in Oids, View[o] > 0,
         NEW e \in entries \cup {NoEntry}, Lookup(o, at, e)
  PROVE  e = Entry(o, View[o], FALSE) /\ e \in entries
<1>1. /\ entries \subseteq [oid : Oids, xid : Nat, deleted : BOOLEAN]
      /\ at \in Nat /\ xid \in Nat /\ Oids \subseteq Nat
  BY ObjectMapAssumption DEF OmapIInv, OmapTypeOK
<1>2. Shows(entries, View, at)
  <2>1. CASE snap_xid = 0
    <3>1. 0 \notin DOMAIN views
      BY <1>1 DEF OmapIInv, OmapTypeOK
    <3> QED BY <2>1, <3>1 DEF View, OmapIInv, Mounted, VersionsKept
  <2>2. CASE snap_xid # 0
    BY <2>2 DEF View, OmapIInv, Mounted, VersionsKept
  <2> QED BY <2>1, <2>2
<1> DEFINE it == Entry(o, View[o], FALSE)
<1>3. /\ View[o] <= at /\ it \in entries
      /\ \A f \in entries : f.oid = o /\ f.xid <= at => f.xid < View[o] \/ f = it
  BY <1>2 DEF Shows
<1>4. it.oid = o /\ it.xid = View[o] /\ View[o] \in Nat
  BY <1>1, <1>3 DEF Entry
<1> HIDE DEF it
<1>5. Floor(it, o, at)
  <2>1. \A f \in entries : AtOrBefore(f, o, at) => AtOrBefore(f, it.oid, it.xid)
    BY <1>1, <1>3, <1>4 DEF AtOrBefore
  <2> QED BY <1>3, <1>4, <2>1 DEF Floor, AtOrBefore
<1>6. Floor(e, o, at) /\ e.oid = o
  BY <1>3, <1>4, <1>5 DEF Lookup
<1>7. e \in entries /\ e.xid \in Nat /\ e.xid <= at /\ View[o] <= e.xid
  BY <1>1, <1>3, <1>4, <1>5, <1>6 DEF Floor, AtOrBefore
<1>8. e = it
  BY <1>3, <1>4, <1>6, <1>7
<1> QED BY <1>7, <1>8 DEF it

(* Every step keeps the invariant.                                          *)
LEMMA OmapStepInv == OmapIInv /\ [OmapNext]_omapVars => OmapIInv'
<1> SUFFICES ASSUME OmapIInv, [OmapNext]_omapVars
             PROVE  OmapIInv'
  OBVIOUS
<1>1. ASSUME NEW W \in SUBSET Oids, NEW D \in SUBSET Oids, NEW take \in BOOLEAN,
             Transaction(W, D, take)
      PROVE  OmapIInv'
  <2>1. phase' = "writing" /\ wanted' = 0 /\ node' = NoEntry
    BY <1>1 DEF Transaction, OmapIInv, Mounted
  <2> QED BY <1>1, <2>1, TransactionKeeps DEF OmapIInv, Mounted, RightVersion
<1>2. ASSUME NEW s \in DOMAIN views, DeleteSnapshot(s)
      PROVE  OmapIInv'
  <2>1. phase' = "writing" /\ wanted' = 0 /\ node' = NoEntry
    BY <1>2 DEF DeleteSnapshot, OmapIInv, Mounted
  <2> QED BY <1>2, <2>1, DeleteSnapshotKeeps DEF OmapIInv, Mounted, RightVersion
<1>3. CASE MountLive
  <2>1. wanted' = 0 /\ node' = NoEntry /\ at' = xid /\ snap_xid' = 0 /\ phase' = "mounted"
        /\ UNCHANGED written
    BY <1>3 DEF MountLive, OmapIInv, Mounted
  <2>2. OmapTypeOK'
    BY <2>1 DEF OmapIInv, OmapTypeOK, written
  <2> QED BY <2>1, <2>2
          DEF OmapIInv, Mounted, RightVersion, EntriesPast, VersionsKept, written
<1>4. ASSUME NEW s \in 1..MaxXid, MountSnapshot(s)
      PROVE  OmapIInv'
  <2>1. /\ wanted' = 0 /\ node' = NoEntry /\ snap_xid' = s /\ UNCHANGED written
        /\ \/ s \in DOMAIN views /\ phase' = "mounted" /\ at' = s
           \/ phase' = "failed" /\ at' = at
    BY <1>4 DEF MountSnapshot, OmapIInv, Mounted
  <2>2. at' \in 0..xid
    BY <2>1 DEF OmapIInv, OmapTypeOK
  <2>3. OmapTypeOK'
    BY <2>1, <2>2, ObjectMapAssumption DEF OmapIInv, OmapTypeOK, written
  <2> QED BY <2>1, <2>3
          DEF OmapIInv, Mounted, RightVersion, EntriesPast, VersionsKept, written
<1>5. ASSUME NEW o \in Oids, GetNode(o)
      PROVE  OmapIInv'
  <2>1. /\ phase = "mounted" /\ View[o] > 0 /\ wanted' = o
        /\ UNCHANGED <<written, phase, snap_xid, at>>
    BY <1>5 DEF GetNode
  <2>2. PICK e \in entries \cup {NoEntry} : Lookup(o, at, e) /\ node' = e
    BY <1>5 DEF GetNode
  <2>3. e = Entry(o, View[o], FALSE) /\ e \in entries
    BY <2>1, <2>2, LookupRight
  <2>4. View' = View
    BY <2>1 DEF View, written
  <2>5. RightVersion'
    BY <2>1, <2>2, <2>3, <2>4 DEF RightVersion
  <2>6. OmapTypeOK'
    BY <2>1, <2>2, <2>3 DEF OmapIInv, OmapTypeOK, written
  <2> QED BY <2>1, <2>5, <2>6 DEF OmapIInv, Mounted, EntriesPast, VersionsKept, written
<1>6. CASE UNCHANGED omapVars
  BY <1>6 DEF omapVars, written, OmapIInv, OmapTypeOK, EntriesPast, VersionsKept, Mounted,
              RightVersion, View
<1> QED BY <1>1, <1>2, <1>3, <1>4, <1>5, <1>6 DEF OmapNext

(* The variables of the object map's life stay of their types.              *)
THEOREM OmapTypeCorrect == OmapSpec => []OmapTypeOK
<1>1. OmapIInv => OmapTypeOK
  BY DEF OmapIInv
<1> QED BY <1>1, OmapInitInv, OmapStepInv, PTL DEF OmapSpec

(* Whatever was written, deleted, and kept for snapshots or not, a lookup   *)
(* as of the transaction of the mounted superblock finds the version of the *)
(* object that the mounted file system shows.                               *)
THEOREM SnapshotsRight == OmapSpec => []RightVersion
<1>1. OmapIInv => RightVersion
  BY DEF OmapIInv
<1> QED BY <1>1, OmapInitInv, OmapStepInv, PTL DEF OmapSpec
===============================================================================
