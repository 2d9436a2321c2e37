------------------------------- MODULE MCVolume -------------------------------
EXTENDS Volume

Record(p, ok) == [tag |-> Unlock, password |-> p, intact |-> ok]
Hint == [tag |-> Other, password |-> "user", intact |-> TRUE]

Vol(enc, plain, snaps, bag) ==
  [encrypted |-> enc, plain |-> plain, snapshots |-> snaps, bag |-> bag, vek |-> TRUE]

\* Records of a user, of a recovery key and of a user that is damaged.
Bags == {<<Record("user", TRUE), Record("recovery", TRUE), Hint>>,
         <<Hint, Record("user", FALSE), Record("recovery", TRUE)>>,
         <<Record("recovery", TRUE), Hint, Record("user", TRUE), Hint>>}

MCPasswords == {"user", "recovery", "wrong"}

MCVolumes ==
  {Vol(FALSE, p, {5}, <<>>) : p \in BOOLEAN}
    \cup {Vol(TRUE, FALSE, {5}, b) : b \in Bags}
    \cup {Vol(TRUE, TRUE, {5}, b) : b \in Bags}
    \cup {[Vol(TRUE, FALSE, {}, b) EXCEPT !.vek = FALSE] : b \in Bags}
=============================================================================
