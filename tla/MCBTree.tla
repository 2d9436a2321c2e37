------------------------------- MODULE MCBTree -------------------------------
EXTENDS BTree

\* A tree of three levels.  Object ids are mixed so that the eviction loop
\* meets parents before and after their children.
MCN == 7
MCRecKey == [p \in 1..7 |-> 2 * p]
MCNodes == {1, 2, 3, 5, 6, 7, 8, 9}
MCLevel == 5 :> 2 @@ [n \in {3, 8} |-> 1] @@ [n \in {1, 2, 6, 7, 9} |-> 0]
MCLo == 5 :> 1 @@ 3 :> 1 @@ 8 :> 4 @@ 1 :> 1 @@ 6 :> 3 @@ 7 :> 4 @@ 2 :> 6 @@ 9 :> 7
MCHi == 5 :> 7 @@ 3 :> 3 @@ 8 :> 7 @@ 1 :> 2 @@ 6 :> 3 @@ 7 :> 5 @@ 2 :> 6 @@ 9 :> 7
MCCnt == 5 :> 2 @@ 3 :> 2 @@ 8 :> 3 @@ 1 :> 2 @@ 6 :> 1 @@ 7 :> 2 @@ 2 :> 1 @@ 9 :> 1
MCKid == 5 :> (0 :> 3 @@ 1 :> 8)
      @@ 3 :> (0 :> 1 @@ 1 :> 6)
      @@ 8 :> (0 :> 7 @@ 1 :> 2 @@ 2 :> 9)
=============================================================================
