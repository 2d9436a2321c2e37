------------------------------- MODULE FlatDisk -------------------------------
(***************************************************************************)
(* What the rest of the driver takes a Device for: a row of sectors with a *)
(* fixed content.  A read delivers the sectors asked for, or says that it   *)
(* failed.  A device may break, and from then on deliver anything.          *)
(***************************************************************************)
EXTENDS Integers, Sequences

VARIABLES
  disk,    \* what the sectors hold; Nothing before the device is there
  asked,   \* the read under way: where and how much; Nothing if none is
  answer,  \* the answer to the last read: ok and data; Nothing before
  broken   \* the device delivers what it likes

flat == <<disk, asked, answer, broken>>

Nothing == <<>>

\* The n sectors from o on, as far as there are any; what lies behind the end
\* of the disk may hold anything.
IsSlice(data, o, n) ==
  /\ Len(data) = n
  /\ \A i \in 1..n : o + i - 1 \in DOMAIN disk => data[i] = disk[o + i - 1]

FlatInit == disk = Nothing /\ asked = Nothing /\ answer = Nothing /\ broken \in BOOLEAN

Insert ==
  /\ disk = Nothing
  /\ disk' # Nothing
  /\ UNCHANGED <<asked, answer>>

Ask ==
  /\ disk # Nothing
  /\ asked = Nothing
  /\ asked' # Nothing
  /\ answer' = Nothing
  /\ UNCHANGED <<disk, broken>>

Answer ==
  /\ asked # Nothing
  /\ asked' = Nothing
  /\ answer'.ok \in BOOLEAN
  /\ answer'.ok /\ ~broken' => IsSlice(answer'.data, asked.offs, asked.len)
  /\ UNCHANGED disk

\* The buffer is used for something else.
Forget ==
  /\ answer' = Nothing
  /\ UNCHANGED <<disk, asked>>

Break == broken' /\ UNCHANGED <<disk, asked, answer>>

\* A device that is there does not heal.
FlatNext ==
  \/ Insert
  \/ disk = Nothing /\ UNCHANGED <<disk, asked, answer>>
  \/ (broken => broken') /\ (Ask \/ Answer \/ Forget \/ Break)

FlatSpec == FlatInit /\ [][FlatNext]_flat
=============================================================================
