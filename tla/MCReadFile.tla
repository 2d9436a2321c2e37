------------------------------ MODULE MCReadFile ------------------------------
EXTENDS ReadFile

Ext(i, a, n, p, c) == [ino |-> i, addr |-> a * BlkSize, blocks |-> n,
                       paddr |-> p, crypto |-> c]

Neighbours == {Ext(1, 0, 2, 20, 40), Ext(3, 0, 1, 30, 7)}

\* Data, a hole and data again, the second part below the first on the device.
Mixed == {Ext(2, 0, 2, 10, 50), Ext(2, 2, 1, 0, 0), Ext(2, 3, 2, 5, 90)}

Volume(ext, sealed, enc) == [extents |-> ext, sealed |-> sealed, encrypted |-> enc]

MCVolumes ==
  {Volume(Neighbours \cup Mixed, FALSE, FALSE),
   Volume(Neighbours \cup Mixed, FALSE, TRUE),
   Volume(Neighbours \cup {Ext(2, 0, 1, 0, 0), Ext(2, 1, 3, 4, 0)}, TRUE, FALSE),
   Volume(Neighbours, FALSE, FALSE),
   Volume({Ext(3, 0, 1, 30, 0)}, FALSE, FALSE)}
=============================================================================
