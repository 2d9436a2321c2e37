----------------------------- MODULE MCOpenFile -----------------------------
EXTENDS OpenFile, TLC

Field(type, len) == [type |-> type, len |-> len]
Inode0 ==
  [mode |-> "reg", packed |-> FALSE, xfields |-> <<>>, blob |-> <<>>, usize |-> None,
   header |-> Nothing, fork |-> <<>>, attrs |-> <<>>]

\* An ordinary file: its size is the third of its extended fields.
Plain ==
  [Inode0 EXCEPT !.xfields = <<Field("name", 9), Field("sparse", 8), Field("dstream", 40)>>,
     !.blob = (0 :> 7) @@ (16 :> 8) @@ (24 :> 5),
     !.attrs = [a \in {"x", "y"} |-> 3]]
Link == [Inode0 EXCEPT !.mode = "link", !.attrs = [a \in {"symlink"} |-> 2]]
Dir == [Inode0 EXCEPT !.mode = "dir"]

Packed(algo, infork, size, usize, fork) ==
  [Inode0 EXCEPT !.packed = TRUE, !.usize = usize, !.fork = fork,
     !.header = [algo |-> algo, fork |-> infork, size |-> size]]

Mixed == <<"packed", "raw">>
Many == [k \in 1..4 |-> "packed"]
MCInodes ==
  {Plain, Link, Dir,
   Packed("zlib", TRUE, 3, None, <<"raw", "packed">>), Packed("zlib", TRUE, 4, 4, Mixed),
   Packed("lzvn", TRUE, 3, 3, Mixed), Packed("plain", TRUE, 3, None, <<"raw", "raw">>),
   Packed("lzfse", FALSE, 1, 1, <<>>), Packed("lzbitmap", TRUE, 0, 0, <<>>),
   Packed("lz77", TRUE, 3, None, Mixed), [Inode0 EXCEPT !.packed = TRUE],
   Packed("lzbitmap", TRUE, 3, None, <<>>),
   Packed("lzvn", TRUE, 5, None, SubSeq(Many, 1, 3)),
   Packed("lzfse", TRUE, 7, 7, Many), Packed("zlib", TRUE, 7, 7, Many)}
MCVolumes == {"f" :> i : i \in MCInodes}
=============================================================================
