------------------------------ MODULE Algorithms ------------------------------
(***************************************************************************)
(* The pure algorithms of the library: those of Codecs, and names and        *)
(* property lists, called on bounded inputs in the same way.                 *)
(***************************************************************************)
EXTENDS Codecs, SequencesExt

-----------------------------------------------------------------------------
(* Names.  The characters stand for what Unicode has: A and E with their     *)
(* small letters, letters that are decomposed, marks of five classes, one    *)
(* that is folded to a letter, one that is decomposed to marks, a letter     *)
(* that is folded to two, a syllable, and a character that is not assigned.  *)
Sharp == 223
Dialytika == 836
Psili == 8064     \* alpha with psili and ypogegrammeni
Syllable == 44033
Unassigned == 888
Class == [c \in {769, 776, 787, 803, 807, 837} |->
            CASE c = 807 -> 202 [] c = 803 -> 220 [] c = 837 -> 240 [] OTHER -> 230]
Letters == {65, 69, 97, 101, 115, 945, 953}
Mapped(to, ccc, foldonly) == [kind |-> "seq", to |-> to, ccc |-> ccc, foldonly |-> foldonly]
Entry(c) ==
  CASE c \in Letters -> [kind |-> "char", to |-> c, ccc |-> 0]
    [] c \in DOMAIN Class -> [kind |-> "char", to |-> c, ccc |-> Class[c]]
    [] c = 201 -> Mapped(<<69, 769>>, 0, FALSE)
    [] c = 233 -> Mapped(<<101, 769>>, 0, FALSE)
    [] c = Sharp -> Mapped(<<115, 115>>, 0, TRUE)
    [] c = Dialytika -> Mapped(<<776, 769>>, 230, FALSE)
    [] c = Psili -> Mapped(<<945, 787, 837>>, 0, FALSE)
    [] c = Syllable -> [kind |-> "hangul"]
    [] OTHER -> [kind |-> "none"]
Characters ==
  Letters \cup DOMAIN Class \cup {201, 233, Sharp, Dialytika, Psili, Syllable, Unassigned}
Table == [c \in Characters |-> Entry(c)]
Basic == [c \in {65, 69, 837} |-> CASE c = 65 -> 97 [] c = 69 -> 101 [] OTHER -> 953]

Na == INSTANCE Names

Marks == {97, 769, 803, 837, Dialytika}
NamesToHash ==
  {<<>>} \cup [1..1 -> Characters] \cup [1..2 -> Characters] \cup [1..3 -> Marks] \cup [1..4 -> Marks]

\* UTF-8 of a character.
Utf8(c) ==
  CASE c < 128 -> <<c>>
    [] c \in 128..2047 -> <<192 + (c \div 64), 128 + (c % 64)>>
    [] OTHER -> <<224 + (c \div 4096), 128 + ((c \div 64) % 64), 128 + (c % 64)>>
Encoded(name) == FlattenSeq([i \in DOMAIN name |-> Utf8(name[i])])

\* The name is cut off after some of its bytes.
HashFilename ==
  /\ call = Nothing
  /\ \E name \in NamesToHash, fold \in BOOLEAN, cut \in 0..1 :
       LET bytes == SubSeq(Encoded(name), 1, Len(Encoded(name)) - cut)
       IN /\ call' = [op |-> "HashFilename", name |-> name, fold |-> fold, cut |-> cut]
          /\ result' = Na!HashInput(bytes, fold)

\* Unicode: canonical decomposition, step by step.
Canonical(c) ==
  CASE c = 201 -> <<69, 769>> [] c = 233 -> <<101, 769>> [] c = Dialytika -> <<776, 769>>
    [] c = Psili -> <<7936, 837>> [] c = 7936 -> <<945, 787>>
    [] c = Syllable -> <<44032, 4520>> [] c = 44032 -> <<4352, 4449>>
    [] OTHER -> <<c>>
CaseFold(c) ==
  CASE c = 65 -> <<97>> [] c = 69 -> <<101>> [] c = Sharp -> <<115, 115>> [] c = 837 -> <<953>>
    [] OTHER -> <<c>>
Everywhere(f(_), s) == FlattenSeq([i \in DOMAIN s |-> f(s[i])])
ClassOf(c) == IF c \in DOMAIN Class THEN Class[c] ELSE 0

\* Canonical ordering: between starters, by class, and else as they were.
Ordered(s) ==
  LET run(i) == Cardinality({j \in 1..i : ClassOf(s[j]) = 0})
      before(i, j) ==
        \/ run(i) < run(j)
        \/ run(i) = run(j) /\ ClassOf(s[i]) < ClassOf(s[j])
        \/ run(i) = run(j) /\ ClassOf(s[i]) = ClassOf(s[j]) /\ i < j
      place(i) == Cardinality({j \in DOMAIN s : before(j, i)}) + 1
  IN [k \in DOMAIN s |-> s[CHOOSE i \in DOMAIN s : place(i) = k]]
NFD(s) == Ordered(Everywhere(Canonical, Everywhere(Canonical, s)))
Caseless(s) == NFD(Everywhere(CaseFold, NFD(s)))

\* HashFilename computes the hash of a name's canonical decomposition (with the
\* case folded as for a canonical caseless match), of the characters that are
\* whole: names that Unicode takes for the same get the same hash.  It crashes
\* for a name of no characters, and only then; a character that is not
\* assigned cuts the name off, and nothing is said of it.
NamesRight ==
  call.op = "HashFilename" =>
    LET s == SubSeq(call.name, 1, Len(call.name) - call.cut)
    IN CASE s = <<>> -> result = Na!Crash
         [] s # <<>> /\ Unassigned \notin ToSet(s) ->
              result = IF call.fold THEN Caseless(s) ELSE NFD(s)
         [] OTHER -> result # Na!Crash
-----------------------------------------------------------------------------
(* Property lists.  Data is written in Base64, as RFC 4648 has it, in lines. *)
Pl == INSTANCE PList

One == <<"1">>
Str == <<"s">>
Key1 == <<"k">>
Key2 == <<"l">>
Binary == <<255, 4, 131, 66>>
Datas == {Pl!Data(SubSeq(Binary, 1, n)) : n \in 0..4}
Leaves == {Pl!Integer(One), Pl!String(Str), Pl!String(<<>>)} \cup Datas
Dicts(vals) == {Pl!Dict(f) : f \in UNION {[ks -> vals] : ks \in SUBSET {Key1, Key2}}}
Arrays(vals) == {Pl!Array(s) : s \in {<<>>} \cup [1..1 -> vals] \cup [1..2 -> vals]}
Small == Leaves \cup {Pl!Dict(<<>>), Pl!Array(<<>>), Pl!Array(<<Pl!Integer(One)>>)}
           \cup {Pl!Dict([k \in {Key1} |-> Pl!String(Str)])}
Trees == Dicts(Small \cup Arrays({Pl!Data(Binary), Pl!Dict([k \in {Key1} |-> Pl!Integer(One)])}))

Start(name) == Pl!TagOf("start", name)
End(name) == Pl!TagOf("end", name)
\* Texts without characters are not there.
Filled(s) == IF s = <<>> THEN <<>> ELSE <<Pl!Text(s)>>
\* Three bytes are four characters; what is missing of the last three is marked.
Base64(bin) ==
  LET byte(k) == IF k > Len(bin) THEN 0 ELSE bin[k]
      char(j) ==
        LET k == (3 * (j \div 4)) + 1
        IN CASE j % 4 = 0 -> byte(k) \div 4
             [] j % 4 = 1 -> ((byte(k) % 4) * 16) + (byte(k + 1) \div 16)
             [] j % 4 = 2 -> IF k + 1 > Len(bin) THEN Pl!Equals
                             ELSE ((byte(k + 1) % 16) * 4) + (byte(k + 2) \div 64)
             [] OTHER -> IF k + 2 > Len(bin) THEN Pl!Equals ELSE byte(k + 2) % 64
      n == 4 * ((Len(bin) + 2) \div 3)
  IN [j \in 1..n |-> char(j - 1)]
Lines(s) == IF s = <<>> THEN <<>> ELSE <<Pl!Other>> \o s \o <<Pl!Other>>
Element(name, body) == <<Start(name)>> \o body \o <<End(name)>>
KeysInOrder(f) == SelectSeq(<<Key1, Key2>>, LAMBDA k : k \in DOMAIN f)
RECURSIVE Written(_)
Written(v) ==
  CASE v[1] = "array" -> Element("array", FlattenSeq([i \in DOMAIN v[2] |-> Written(v[2][i])]))
    [] v[1] = "dict" ->
         LET ks == KeysInOrder(v[2])
         IN Element("dict", FlattenSeq([i \in DOMAIN ks |->
                              Element("key", <<Pl!Text(ks[i])>>) \o Written(v[2][ks[i]])]))
    [] v[1] = "data" -> Element("data", Filled(Lines(Base64(v[2]))))
    [] OTHER -> Element(v[1], Filled(v[2]))
Document(v) == <<Pl!TagOf("procinstr", "xml"), Pl!TagOf("doctype", "plist")>> \o Element("plist", Written(v))

ParsePList ==
  /\ call = Nothing
  /\ \E v \in Trees : \E k \in 0..Len(Document(v)) :
       /\ call' = [op |-> "Parse", tree |-> v, left |-> Len(Document(v)) - k]
       /\ result' = Pl!Parse(SubSeq(Document(v), 1, k))

\* A property list is parsed to what was written; one that is cut off within its
\* dictionary is refused, however deep, and not taken for a smaller one.
ListsWhole ==
  call.op = "Parse" => result = (IF call.left <= 1 THEN call.tree ELSE Pl!Null)

-----------------------------------------------------------------------------
Init == CodecsInit
Next == CodecsNext \/ HashFilename \/ ParsePList
Spec == Init /\ [][Next]_vars
=============================================================================
