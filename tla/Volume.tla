-------------------------------- MODULE Volume --------------------------------
(***************************************************************************)
(* ApfsContainer::GetVolume: mounting a volume or one of its snapshots, and*)
(* finding the key of an encrypted one (ApfsVolume::Init and MountSnapshot,*)
(* KeyManager::GetVolumeKey).                                              *)
(*                                                                         *)
(* The volume's key is wrapped by a key that several unlock records hold,  *)
(* each wrapped by its own password.  A wrap opens for its password alone. *)
(* A container whose device decrypts has plain key bags and plain files.   *)
(***************************************************************************)
EXTENDS Naturals, Sequences

CONSTANTS
  Volumes,    \* the volumes
  Snapshots,  \* values of the option snap=N but 0
  Passwords,  \* passwords people may give
  NoPassword  \* the option -r was not used

\* A volume: its flag for encryption, whether the device decrypts, its
\* snapshots, the entries of its key bag, of which only unlock records count,
\* and whether the container's key bag has its key undamaged.
Unlock == "unlock"
Other == "hint"
Entries == [tag : {Unlock, Other}, password : Passwords, intact : BOOLEAN]

ASSUME VolumeAssumption ==
  /\ NoPassword \notin Passwords
  /\ Snapshots \subseteq Nat \ {0}
  /\ \A v \in Volumes :
       /\ v.encrypted \in BOOLEAN /\ v.plain \in BOOLEAN
       /\ v.snapshots \subseteq Snapshots
       /\ v.bag \in Seq(Entries) /\ v.vek \in BOOLEAN

\* Blocks a mount may fail to read.
Parts == {"superblock", "snap_meta", "omap", "snap_superblock", "bag"}

VARIABLES
  vol, unreadable,  \* the volume, and what of it cannot be read
  unencrypted,      \* m_keymgr.m_is_unencrypted
  pc,               \* "idle", the phases of the mount, "mounted", "failed"
  snap,             \* snap_xid
  passphrase,       \* m_passphrase
  asked,            \* the user was asked for a password
  trying,           \* the password GetVolumeKey runs with
  k,                \* its position in the key bag
  decrypting        \* m_is_encrypted

given == <<vol, unreadable, snap, passphrase>>
vars == <<given, unencrypted, pc, asked, trying, k, decrypting>>

TypeOK ==
  /\ vol \in Volumes
  /\ unreadable \subseteq Parts
  /\ unencrypted \in BOOLEAN
  /\ pc \in {"idle", "superblock", "snap_meta", "omap", "snap_superblock", "check",
             "bag", "records", "vek", "nokey", "trees", "mounted", "failed"}
  /\ snap \in Snapshots \cup {0}
  /\ passphrase \in Passwords \cup {NoPassword}
  /\ asked \in BOOLEAN
  /\ trying \in Passwords \cup {NoPassword}
  /\ k \in 1..(Len(vol.bag) + 1)
  /\ decrypting \in BOOLEAN

\* The container is mounted; its own key bag was plain or not.
Init ==
  /\ vol \in Volumes
  /\ unreadable \in {{}} \cup {{p} : p \in Parts}
  /\ unencrypted = vol.plain
  /\ pc = "idle"
  /\ snap \in Snapshots \cup {0}
  /\ passphrase \in Passwords \cup {NoPassword}
  /\ asked = FALSE
  /\ trying = NoPassword
  /\ k = 1
  /\ decrypting = FALSE

-----------------------------------------------------------------------------
Goto(p) ==
  /\ pc' = p
  /\ UNCHANGED <<given, unencrypted, asked, trying, k, decrypting>>

\* Phase p reads part r and goes on to q.
Reads(p, r, q) ==
  /\ pc = p
  /\ Goto(IF r \in unreadable THEN "failed" ELSE q)

GetVolume == pc = "idle" /\ Goto("superblock")

ReadSuperblock == Reads("superblock", "superblock", IF snap = 0 THEN "omap" ELSE "snap_meta")

FindSnapshot ==
  Reads("snap_meta", "snap_meta", IF snap \in vol.snapshots THEN "omap" ELSE "failed")

InitOmap == Reads("omap", "omap", IF snap = 0 THEN "check" ELSE "snap_superblock")

ReadSnapshotSuperblock == Reads("snap_superblock", "snap_superblock", "check")

\* Mutant: a live volume is taken for encrypted by its flag alone, too.
NeedsKeyByFlag == vol.encrypted

\* Init looks at what the key bag told, MountSnapshot does not.
NeedsKey == vol.encrypted /\ (snap = 0 => ~unencrypted)

CheckEncryption ==
  /\ pc = "check"
  /\ IF ~NeedsKey
       THEN Goto("trees")
       ELSE /\ pc' = IF passphrase = NoPassword THEN "nokey" ELSE "bag"
            /\ trying' = passphrase
            /\ UNCHANGED <<given, unencrypted, asked, k, decrypting>>

\* GetVolumeKey and GetPasswordHint load the volume's key bag.  A read that
\* failed is noticed when the bag does not verify.
LoadKeybag ==
  /\ pc = "bag"
  /\ IF "bag" \in unreadable
       THEN pc' = "nokey" /\ UNCHANGED unencrypted
       ELSE pc' = "records" /\ unencrypted' = (unencrypted \/ vol.plain)
  /\ k' = 1
  /\ UNCHANGED <<given, asked, trying, decrypting>>

Opens(e, p) == e.tag = Unlock /\ e.intact /\ e.password = p

\* Mutant: only the first unlock record is tried.
TryRecordOnce ==
  /\ pc = "records"
  /\ k <= Len(vol.bag)
  /\ IF Opens(vol.bag[k], trying)
       THEN Goto("vek")
       ELSE /\ k' = k + 1
            /\ pc' = IF vol.bag[k].tag = Unlock THEN "nokey" ELSE "records"
            /\ UNCHANGED <<given, unencrypted, asked, trying, decrypting>>

TryRecord ==
  /\ pc = "records"
  /\ k <= Len(vol.bag)
  /\ IF Opens(vol.bag[k], trying)
       THEN Goto("vek")
       ELSE /\ k' = k + 1
            /\ UNCHANGED <<given, unencrypted, pc, asked, trying, decrypting>>

\* Mutant: the key the last record gave is used.
NoRecordGoesOn ==
  /\ pc = "records"
  /\ k > Len(vol.bag)
  /\ Goto("vek")

NoRecordOpens ==
  /\ pc = "records"
  /\ k > Len(vol.bag)
  /\ Goto("nokey")

\* The container's key bag has the volume's key under the same key.
UnwrapVek ==
  /\ pc = "vek"
  /\ IF vol.vek
       THEN /\ pc' = "trees"
            /\ decrypting' = TRUE
            /\ UNCHANGED <<given, unencrypted, asked, trying, k>>
       ELSE Goto("nokey")

\* The user is asked, once.
AskPassword ==
  /\ pc = "nokey"
  /\ ~asked
  /\ \E p \in Passwords : trying' = p
  /\ asked' = TRUE
  /\ unencrypted' = (unencrypted \/ (vol.plain /\ "bag" \notin unreadable))
  /\ pc' = "bag"
  /\ UNCHANGED <<given, k, decrypting>>

WrongPassword ==
  /\ pc = "nokey"
  /\ asked
  /\ Goto("failed")

\* A tree that cannot be read is reported, no more.
InitTrees == pc = "trees" /\ Goto("mounted")

Next ==
  \/ GetVolume \/ ReadSuperblock \/ FindSnapshot \/ InitOmap \/ ReadSnapshotSuperblock
  \/ CheckEncryption \/ LoadKeybag \/ TryRecord \/ NoRecordOpens \/ UnwrapVek
  \/ AskPassword \/ WrongPassword \/ InitTrees

Spec == Init /\ [][Next]_vars

-----------------------------------------------------------------------------
Opened(p) == \E i \in DOMAIN vol.bag : Opens(vol.bag[i], p)

\* MountSnapshot asks for a key where the device decrypts, Init does not: of such
\* a snapshot the properties say nothing.
PlainSnapshot == snap # 0 /\ vol.encrypted /\ vol.plain

(* A mounted volume decrypts what it reads exactly when the files are       *)
(* encrypted on the device, and then some unlock record took the password   *)
(* that was used: no state left behind by a failed attempt, and no flag,    *)
(* mounts a volume with the wrong key.                                      *)
RightKey ==
  pc = "mounted" /\ ~PlainSnapshot =>
    /\ decrypting <=> vol.encrypted /\ ~vol.plain
    /\ decrypting => Opened(trying) /\ (trying = passphrase \/ asked)

(* "snap=...: Mount snapshot with given XID" (README.md:115): a volume, and *)
(* every snapshot it has, mounts unless something cannot be read or the     *)
(* files are encrypted and none of the passwords offered, one on the command*)
(* line and one typed, opens any of the unlock records.                     *)
MountsIfItCan ==
  pc = "failed" =>
    \/ unreadable # {} \/ ~vol.vek
    \/ snap # 0 /\ snap \notin vol.snapshots
    \/ PlainSnapshot
    \/ vol.encrypted /\ ~vol.plain /\ ~Opened(passphrase) /\ ~Opened(trying)

(* Nobody is asked for a password who has given the right one, or whose     *)
(* volume needs none.                                                       *)
AskedOnlyIfNeeded ==
  asked /\ ~PlainSnapshot /\ "bag" \notin unreadable /\ vol.vek =>
    vol.encrypted /\ ~vol.plain /\ ~Opened(passphrase)
=============================================================================
