-------------------------------- MODULE Names --------------------------------
(***************************************************************************)
(* HashFilename: a name is decoded from UTF-8, normalised (NFD), its case   *)
(* folded where the volume says so, and its combining marks are sorted; the *)
(* result is what the CRC of a directory record's key is computed over.     *)
(***************************************************************************)
EXTENDS Integers, Sequences, SequencesExt

CONSTANTS
  Table,  \* what the tries of UnicodeTables_v10.h lead to for a character
  Basic   \* nf_basic_cf

\* An entry of Table is
\*   [kind |-> "none"]                    not assigned
\*   [kind |-> "hangul"]                  a syllable, decomposed by arithmetic
\*   [kind |-> "char", to, ccc]           one character and its combining class
\*   [kind |-> "seq", to, ccc, foldonly]  a sequence and the class of its first
\* Basic folds the characters below 0x500; it has no entry for the others.
Invalid == <<>>  \* what becomes of a character that is not assigned
Crash == <<-1>>
Iota == 953           \* 0x3B9
Ypogegrammeni == 837  \* 0x345
IotaClass == 240

-----------------------------------------------------------------------------
\* Utf8toUtf32 stops at the first byte that does not fit, and nobody looks at
\* what it returns.  A zero ends the string.
Following(c) ==
  CASE c < 128 -> 0
    [] c \in 192..223 -> 1
    [] c \in 224..239 -> 2
    [] c \in 240..247 -> 3
    [] OTHER -> -1

LeadBits(c) ==
  CASE c < 128 -> c
    [] c \in 192..223 -> c % 32
    [] c \in 224..239 -> c % 16
    [] OTHER -> c % 8

RECURSIVE Utf8toUtf32(_)
Utf8toUtf32(b) ==
  IF b = <<>> \/ b[1] = 0 THEN <<>>
  ELSE LET n == Following(b[1])
           whole == n >= 0 /\ Len(b) > n /\ \A i \in 2..(n + 1) : b[i] \div 64 = 2
           ch[i \in 1..(n + 1)] == IF i = 1 THEN LeadBits(b[1]) ELSE 64 * ch[i - 1] + (b[i] % 64)
       IN IF whole
            THEN <<ch[n + 1]>> \o Utf8toUtf32(SubSeq(b, n + 2, Len(b)))
            ELSE <<>>

-----------------------------------------------------------------------------
SBase == 44032  \* 0xAC00
LBase == 4352   \* 0x1100
VBase == 4449   \* 0x1161
TBase == 4519   \* 0x11A7
VCount == 21
TCount == 28

Starter(c) == [ch |-> c, ccc |-> 0]

normalizeJimdo(ch) ==
  LET s == ch - SBase
      t == s % TCount
      lv == <<Starter(LBase + s \div (VCount * TCount)),
              Starter(VBase + (s % (VCount * TCount)) \div TCount)>>
  IN IF t > 0 THEN Append(lv, Starter(TBase + t)) ELSE lv

Fold(c, fold) == IF fold /\ c \in DOMAIN Basic THEN Basic[c] ELSE c

\* The class of a character within a sequence, looked up again.
ClassWithin(c) ==
  IF c = Iota THEN IotaClass
  ELSE IF Table[c].kind = "char" THEN Table[c].ccc ELSE 0

\* What ch becomes, with the combining classes.
normalizeOptFoldU32Char(ch, fold) ==
  LET e == Table[ch]
      seq == [i \in 1..Len(e.to) |->
                [ch |-> e.to[i], ccc |-> IF i = 1 THEN e.ccc ELSE ClassWithin(e.to[i])]]
      first == [seq EXCEPT ![1].ch = Fold(@, fold)]
      last == Len(first)
  IN CASE e.kind = "none" -> Invalid
       [] e.kind = "hangul" -> normalizeJimdo(ch)
       [] e.kind = "char" -> <<[ch |-> Fold(e.to, fold), ccc |-> e.ccc]>>
       [] e.kind = "seq" /\ e.foldonly /\ ~fold -> <<Starter(ch)>>
       [] OTHER -> IF fold /\ last >= 2 /\ first[last].ch = Ypogegrammeni
                     THEN [first EXCEPT ![last].ch = Iota]
                     ELSE first

-----------------------------------------------------------------------------
(* CanonicalReorder, a bubble sort of each run of marks. *)
Swap(s, i) == [s EXCEPT ![i] = s[i + 1], ![i + 1] = s[i]]

\* The index at which the inner loop over a run from k on ends.
RECURSIVE RunEnd(_, _)
RunEnd(s, k) == IF k < Len(s) /\ s[k + 1].ccc # 0 THEN RunEnd(s, k + 1) ELSE k

\* Mutant: marks of the same class change places, too.
Unstable(a, b) == a.ccc > b.ccc \/ (a.ccc = b.ccc /\ a.ch > b.ch)

OutOfOrder(a, b) == a.ccc > b.ccc

\* One pass of the inner loop over i to e - 1.
RECURSIVE Pass(_, _, _)
Pass(s, i, e) ==
  IF i >= e THEN s
  ELSE Pass(IF OutOfOrder(s[i], s[i + 1]) THEN Swap(s, i) ELSE s, i + 1, e)

RECURSIVE SortRun(_, _, _)
SortRun(s, k, e) == LET p == Pass(s, k, e) IN IF p = s THEN s ELSE SortRun(p, k, e)

\* The outer loop from k on, which skips the character behind a run.
RECURSIVE ReorderFrom(_, _)
ReorderFrom(s, k) ==
  IF k >= Len(s) THEN s
  ELSE IF s[k].ccc = 0 \/ s[k + 1].ccc = 0 THEN ReorderFrom(s, k + 1)
  ELSE LET e == RunEnd(s, k) IN ReorderFrom(SortRun(s, k, e), e + 2)

\* Of no characters, len - 1 is the largest number there is, and ccc is null.
CanonicalReorder(s) == IF s = <<>> THEN <<Starter(-1)>> ELSE ReorderFrom(s, 1)

\* NormalizeFoldString stops at a character that is not assigned, and leaves its
\* result four times as long as the name, filled up with zeros.
NormalizeFoldString(name, fold) ==
  LET n == [i \in DOMAIN name |-> normalizeOptFoldU32Char(name[i], fold)]
      bad == {i \in DOMAIN name : n[i] = Invalid}
      until == CHOOSE i \in bad : \A j \in bad : i <= j
      before == FlattenSeq(SubSeq(n, 1, until - 1))
  IN IF bad = {} THEN CanonicalReorder(FlattenSeq(n))
     ELSE before \o [i \in 1..(4 * Len(name) - Len(before)) |-> Starter(0)]

\* What the CRC of HashFilename is computed over.
HashInput(bytes, fold) ==
  LET s == NormalizeFoldString(Utf8toUtf32(bytes), fold)
  IN [i \in DOMAIN s |-> s[i].ch]
=============================================================================
