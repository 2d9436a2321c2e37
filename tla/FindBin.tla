------------------------------- MODULE FindBin -------------------------------
(***************************************************************************)
(* BTree::FindBin: the binary search every descent of a B-tree and every   *)
(* positioning inside a leaf goes through, in its five modes.              *)
(*                                                                         *)
(* The keys of the node are abstracted to what the search can see of them: *)
(* cmp[k] is the result of comparing entry k with the search key, -1 when  *)
(* the entry is smaller, 0 when it is equal and 1 when it is larger.  All  *)
(* comparators of the code (CompareStdKey, CompareOMapKey,                 *)
(* CompareStdDirKey, CompareFextKey, CompareSnapMetaKey) return exactly    *)
(* these three values.                                                     *)
(***************************************************************************)
EXTENDS Integers

CONSTANT MaxCnt    \* entries of the largest node, bounded by the block size

ASSUME MaxCntAssumption == MaxCnt \in Nat

VARIABLES
  stage,  \* "idle", "enter", "loop", "select"
  cnt,    \* node->entries_cnt()
  cmp,    \* what func returns for each entry
  mode,   \* FindMode
  beg, end, mid, rc,   \* the locals of FindBin
  res     \* its result

searchVars == <<stage, cnt, cmp, mode, beg, end, mid, rc, res>>

FindMode == {"EQ", "LE", "LT", "GE", "GT"}

\* A node of n entries with distinct keys in ascending order, as a search
\* sees it: what comes before an entry that is not larger than the key is
\* smaller, what comes after one that is not smaller is larger.
NodeViews(n) ==
  {c \in [0..(n - 1) -> {-1, 0, 1}] :
     \A i, j \in 0..(n - 1) :
       i < j => (c[j] <= 0 => c[i] = -1) /\ (c[i] >= 0 => c[j] = 1)}

LocalsOK ==
  /\ stage \in {"idle", "enter", "loop", "select"}
  /\ cnt \in 0..MaxCnt
  /\ cmp \in NodeViews(cnt)
  /\ mode \in FindMode
  /\ beg \in 0..cnt
  /\ end \in -1..(cnt - 1)
  /\ mid \in -1..(cnt - 1)
  /\ rc \in {-1, 0, 1}
  /\ res \in -1..(cnt - 1)

SearchInit ==
  /\ stage = "idle"
  /\ cnt = 0
  /\ cmp = [k \in 0..-1 |-> 0]
  /\ mode = "EQ"
  /\ beg = 0 /\ end = -1 /\ mid = -1 /\ rc = 0 /\ res = -1

CallFindBin(n, c, m) ==
  /\ stage = "idle"
  /\ stage' = "enter"
  /\ cnt' = n /\ cmp' = c /\ mode' = m
  /\ beg' = 0 /\ end' = -1
  /\ mid' = -1
  /\ rc' = 0          \* uninitialised in the code, never read before a probe
  /\ res' = -1

\* Mutant: the interval starts one entry past the last one.
EnterOffByOne ==
  /\ stage = "enter"
  /\ IF cnt <= 0
       THEN stage' = "idle" /\ res' = -1 /\ UNCHANGED <<beg, end>>
       ELSE stage' = "loop" /\ beg' = 0 /\ end' = cnt /\ UNCHANGED res
  /\ UNCHANGED <<cnt, cmp, mode, mid, rc>>

\* An empty node is answered before anything is compared.
Enter ==
  /\ stage = "enter"
  /\ IF cnt <= 0
       THEN /\ stage' = "idle"
            /\ res' = -1
            /\ UNCHANGED <<beg, end>>
       ELSE /\ stage' = "loop"
            /\ beg' = 0
            /\ end' = cnt - 1
            /\ UNCHANGED res
  /\ UNCHANGED <<cnt, cmp, mode, mid, rc>>

\* Mutant: the probed entry stays in the interval.
ProbeKeeps ==
  /\ stage = "loop"
  /\ beg <= end
  /\ mid' = (beg + end) \div 2
  /\ rc' = cmp[mid']
  /\ stage' = IF rc' = 0 THEN "select" ELSE "loop"
  /\ beg' = IF rc' = -1 THEN mid' ELSE beg
  /\ end' = IF rc' = 1 THEN mid' - 1 ELSE end
  /\ UNCHANGED <<cnt, cmp, mode, res>>

\* One round of the while loop.
Probe ==
  /\ stage = "loop"
  /\ beg <= end
  /\ mid' = (beg + end) \div 2
  /\ rc' = cmp[mid']
  /\ stage' = IF rc' = 0 THEN "select" ELSE "loop"
  /\ beg' = IF rc' = -1 THEN mid' + 1 ELSE beg
  /\ end' = IF rc' = 1 THEN mid' - 1 ELSE end
  /\ UNCHANGED <<cnt, cmp, mode, res>>

Exhausted ==
  /\ stage = "loop"
  /\ beg > end
  /\ stage' = "select"
  /\ UNCHANGED <<cnt, cmp, mode, beg, end, mid, rc, res>>

\* The switch on the mode: the last probe decides on which side of mid the
\* answer lies.
Pick ==
  CASE mode = "EQ" -> IF rc = 0 THEN mid ELSE -1
    [] mode = "LE" -> IF rc <= 0 THEN mid ELSE mid - 1
    [] mode = "LT" -> IF rc < 0 THEN mid ELSE mid - 1
    [] mode = "GE" -> IF rc >= 0 THEN mid ELSE mid + 1
    [] mode = "GT" -> IF rc > 0 THEN mid ELSE mid + 1

\* Mutant: the position after the last entry is returned.
SelectUnclamped ==
  /\ stage = "select"
  /\ stage' = "idle"
  /\ res' = Pick
  /\ UNCHANGED <<cnt, cmp, mode, beg, end, mid, rc>>

Select ==
  /\ stage = "select"
  /\ stage' = "idle"
  /\ res' = IF Pick = cnt THEN -1 ELSE Pick
  /\ UNCHANGED <<cnt, cmp, mode, beg, end, mid, rc>>

SearchStep == Enter \/ Probe \/ Exhausted \/ Select

SearchNext ==
  \/ \E n \in 0..MaxCnt, m \in FindMode :
       \E c \in NodeViews(n) : CallFindBin(n, c, m)
  \/ SearchStep

SearchSpec == SearchInit /\ [][SearchNext]_searchVars

-----------------------------------------------------------------------------
\* The entries mode m asks for, and which of them it means.
Wanted(m) ==
  {k \in 0..(cnt - 1) :
     CASE m = "EQ" -> cmp[k] = 0
       [] m = "LE" -> cmp[k] <= 0
       [] m = "LT" -> cmp[k] < 0
       [] m = "GE" -> cmp[k] >= 0
       [] m = "GT" -> cmp[k] > 0}

Answers(m, r) ==
  \/ r = -1 /\ Wanted(m) = {}
  \/ /\ r \in Wanted(m)
     /\ \A k \in Wanted(m) : IF m \in {"LE", "LT"} THEN k <= r ELSE k >= r

(* FindBin returns the last entry at or before the key (LE, LT), the first  *)
(* one at or after it (GE, GT), the equal one (EQ), and -1 exactly when the *)
(* node has no such entry: in particular the positions one before the first *)
(* and one after the last entry are never returned.                         *)
ResultCorrect == stage = "idle" => Answers(mode, res)

(* Every round that goes on at least halves the interval still to be        *)
(* searched, so a node of n entries costs at most log2(n) + 1 comparisons   *)
(* and the loop cannot spin.                                                *)
IntervalHalves ==
  [][stage = "loop" /\ stage' = "loop" =>
       2 * (end' - beg' + 1) <= end - beg + 1]_searchVars
=============================================================================
