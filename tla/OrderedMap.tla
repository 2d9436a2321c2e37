------------------------------ MODULE OrderedMap ------------------------------
(***************************************************************************)
(* What a B-tree promises its users: a fixed ordered set of records that   *)
(* can be looked up (exactly, or for the last record at or before a key)   *)
(* and walked in ascending order from the first record at or after a key.  *)
(*                                                                         *)
(* Records are the positions 1..N of the sorted sequence of keys RecKey.   *)
(* A reading that needs a block which cannot be read may instead end in    *)
(* Failed, or take the whole program down (Crashed): the promise is that   *)
(* an answer, when there is one, is the right one.                         *)
(***************************************************************************)
EXTENDS Integers

CONSTANTS
  N,        \* number of records
  RecKey,   \* their keys, ascending
  Keys      \* the keys that are asked for

Absent == 0     \* the answer "no such record"
Failed == -1    \* the answer "not found", given because a block was unreadable
NoCursor == 0   \* no walk has been started

VARIABLES
  question,  \* the operation being answered, or the last one answered
  busy,      \* it has not been answered yet
  answer,    \* position, Absent or Failed for a lookup
  cursor     \* position of the walk, N + 1 at its end

mapVars == <<question, busy, answer, cursor>>

Positions == 1..N

\* p is the last record at or before k.
IsFloor(k, p) ==
  /\ p \in Positions
  /\ RecKey[p] <= k
  /\ \A q \in Positions : RecKey[q] <= k => q <= p

\* p is the first record at or after k, or N + 1.
IsCeiling(k, p) ==
  \A q \in Positions : RecKey[q] >= k <=> q >= p

\* The right answers to a lookup of k.
Right(k, exact, a) ==
  \/ /\ a \in Positions
     /\ IF exact THEN RecKey[a] = k ELSE IsFloor(k, a)
  \/ /\ a = Absent
     /\ \A q \in Positions : IF exact THEN RecKey[q] # k ELSE RecKey[q] > k

\* A question; key and exact are 0 and FALSE where it has none.
Question(o, k, x) == [op |-> o, key |-> k, exact |-> x]

MapInit ==
  /\ question = Question("none", 0, FALSE)
  /\ busy = FALSE
  /\ answer = Absent
  /\ cursor = NoCursor

Ask(q) ==
  /\ ~busy
  /\ question' = q
  /\ busy' = TRUE
  /\ cursor' = IF q.op \in {"seek", "first"} THEN NoCursor ELSE cursor
  /\ UNCHANGED answer

AskLookup(k, exact) == Ask(Question("lookup", k, exact))
AskSeek(k) == Ask(Question("seek", k, FALSE))
AskFirst == Ask(Question("first", 0, FALSE))
AskNext ==
  /\ cursor # NoCursor
  /\ cursor <= N
  /\ Ask(Question("next", 0, FALSE))

AnswerLookup ==
  /\ busy
  /\ question.op = "lookup"
  /\ busy' = FALSE
  /\ \E a \in Positions \cup {Absent, Failed} :
       /\ a = Failed \/ Right(question.key, question.exact, a)
       /\ answer' = a
  /\ UNCHANGED <<question, cursor>>

AnswerSeek ==
  /\ busy
  /\ question.op = "seek"
  /\ busy' = FALSE
  /\ \E p \in 1..(N + 1) : IsCeiling(question.key, p) /\ cursor' = p
  /\ UNCHANGED <<question, answer>>

AnswerFirst ==
  /\ busy
  /\ question.op = "first"
  /\ busy' = FALSE
  /\ cursor' = 1
  /\ UNCHANGED <<question, answer>>

AnswerNext ==
  /\ busy
  /\ question.op = "next"
  /\ busy' = FALSE
  /\ cursor' = cursor + 1
  /\ UNCHANGED <<question, answer>>

MapNext ==
  \/ \E k \in Keys, exact \in BOOLEAN : AskLookup(k, exact)
  \/ \E k \in Keys : AskSeek(k)
  \/ AskFirst \/ AskNext
  \/ AnswerLookup \/ AnswerSeek \/ AnswerFirst \/ AnswerNext

MapSpec == MapInit /\ [][MapNext]_mapVars
=============================================================================
