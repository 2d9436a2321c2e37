----------------------------- MODULE MCDirectory -----------------------------
EXTENDS Directory

\* "b" in two cases, "e" composed and decomposed, and two names whose folded
\* forms have the same hash.
MCNames == {"a", "b", "B", "c", "e", "E"}
MCNormal == [n \in MCNames |-> IF n = "E" THEN "e" ELSE n]
MCFolded == [n \in MCNames |-> CASE n = "E" -> "e" [] n = "B" -> "b" [] OTHER -> n]
MCRank == [n \in MCNames |-> CASE n = "B" -> 1 [] n = "a" -> 2 [] n = "b" -> 3
                               [] n = "c" -> 4 [] n = "e" -> 5 [] n = "E" -> 6]
MCSpace == [n \in MCNames |-> IF n \in {"a", "e"} THEN 3 ELSE 2]
MCCrc == [f \in {"a", "b", "B", "c", "e"} |->
            CASE f = "a" -> 7 [] f \in {"b", "c"} -> 4 [] f = "B" -> 0 [] f = "e" -> 5]

Rec(d, n, i) == [dir |-> d, name |-> n, file |-> i]

MCVolumes ==
  {[fmt |-> 0, recs |-> {Rec(2, "a", 10), Rec(2, "b", 11), Rec(2, "B", 12), Rec(3, "c", 10)}],
   [fmt |-> 1, recs |-> {Rec(2, "a", 10), Rec(2, "b", 11), Rec(2, "c", 12), Rec(2, "e", 13),
                         Rec(3, "c", 14)}],
   [fmt |-> 8, recs |-> {Rec(2, "b", 11), Rec(2, "B", 12), Rec(2, "c", 11)}]}
=============================================================================
