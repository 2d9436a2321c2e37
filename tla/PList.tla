-------------------------------- MODULE PList --------------------------------
(***************************************************************************)
(* PListXmlParser, which reads the property list of a DMG.  A document is a *)
(* sequence of tags and texts, and m_idx an index into it.  A text is a     *)
(* sequence of characters.                                                  *)
(***************************************************************************)
EXTENDS Integers, Sequences, Codings

\* Tags: what FindTag finds.
TagOf(type, name) == [type |-> type, name |-> name]
NoTag == TagOf("none", "")
Text(s) == [type |-> "text", text |-> s]

\* Objects; Null is a null pointer, and Error an exception.
Null == <<"null">>
Error == <<"error">>
Integer(x) == <<"integer", x>>
String(x) == <<"string", x>>
Data(x) == <<"data", x>>
Array(s) == <<"array", s>>
Dict(f) == <<"dict", f>>

Result(val, idx) == [val |-> val, idx |-> idx]

\* The next tag from idx on, behind any text.
RECURSIVE FindTag(_, _)
FindTag(doc, idx) ==
  IF idx > Len(doc) THEN Result(NoTag, idx)
  ELSE IF doc[idx].type = "text" THEN FindTag(doc, idx + 1)
  ELSE Result(doc[idx], idx + 1)

\* The text up to the next tag, if there is a next tag.
GetContent(doc, idx) ==
  IF idx < Len(doc) /\ doc[idx].type = "text" THEN doc[idx].text ELSE <<>>

\* strtoll; the texts of numbers are the numbers.
Convert(name, content) ==
  CASE name = "integer" -> Integer(content)
    [] name = "string" -> String(content)
    [] OTHER -> Data(Base64Decode(content))

RECURSIVE ParseObject(_, _), ParseArray(_, _, _), ParseDict(_, _, _)

\* The array ends with anything that is no object: its end tag, another end tag,
\* a comment, or the end of the document.
ParseArray(doc, idx, arr) ==
  LET obj == ParseObject(doc, idx)
  IN IF obj.val = Error THEN obj
     ELSE IF obj.val = Null THEN Result(Array(arr), obj.idx)
     ELSE ParseArray(doc, obj.idx, Append(arr, obj.val))

\* A key of a dictionary that is given again is overwritten.
Put(dict, key, val) == [k \in DOMAIN dict \cup {key} |-> IF k = key THEN val ELSE dict[k]]

\* Mutant: the end of the document ends a dictionary as it ends an array.
AnyEnd(tag) == tag = TagOf("end", "dict") \/ tag = NoTag

EndsDict(tag) == tag = TagOf("end", "dict")

ParseDict(doc, idx, dict) ==
  LET start == FindTag(doc, idx)
      key == GetContent(doc, start.idx)
      end == FindTag(doc, start.idx)
      obj == ParseObject(doc, end.idx)
  IN IF EndsDict(start.val) THEN Result(Dict(dict), start.idx)
     ELSE IF start.val # TagOf("start", "key") \/ key = <<>> THEN Result(Error, idx)
     ELSE IF end.val # TagOf("end", "key") THEN Result(Error, idx)
     ELSE IF obj.val = Error THEN obj
     ELSE ParseDict(doc, obj.idx, IF obj.val = Null THEN dict ELSE Put(dict, key, obj.val))

ParseObject(doc, idx) ==
  LET tag == FindTag(doc, idx)
      end == FindTag(doc, tag.idx)
      name == tag.val.name
  IN CASE tag.val.type = "start" /\ name \in {"integer", "string", "data"} ->
            IF end.val = TagOf("end", name)
              THEN Result(Convert(name, GetContent(doc, tag.idx)), end.idx)
              ELSE Result(Error, idx)
       [] tag.val.type = "start" /\ name = "array" -> ParseArray(doc, tag.idx, <<>>)
       [] tag.val.type = "start" /\ name = "dict" -> ParseDict(doc, tag.idx, <<>>)
       [] tag.val.type = "empty" /\ name = "true" -> Result(Integer(<<"1">>), tag.idx)
       [] tag.val.type = "empty" /\ name = "false" -> Result(Integer(<<"0">>), tag.idx)
       [] tag.val.type \in {"end", "none", "procinstr", "doctype"} -> Result(Null, tag.idx)
       [] OTHER -> Result(Error, idx)

\* The object behind the first tag <plist>.
RECURSIVE ParseFrom(_, _)
ParseFrom(doc, idx) ==
  LET tag == FindTag(doc, idx)
      obj == ParseObject(doc, tag.idx)
  IN IF tag.val = NoTag THEN Null
     ELSE IF tag.val # TagOf("start", "plist") THEN ParseFrom(doc, tag.idx)
     ELSE IF obj.val = Error THEN Null ELSE obj.val

Parse(doc) == ParseFrom(doc, 1)
=============================================================================
