--------------------------------- MODULE Der ---------------------------------
(***************************************************************************)
(* The DER decoder of Asn1Der.cpp, and what KeyManager decodes with it: the *)
(* key encryption keys and volume encryption keys of a keybag.              *)
(*                                                                         *)
(* A blob is a sequence of bytes.  A tag is one byte: the fields of these    *)
(* keys have no longer ones, for which der_decode_tl has a loop.  A pointer  *)
(* is an index into the blob, or Null; an end is the index behind the last   *)
(* byte.                                                                   *)
(***************************************************************************)
EXTENDS Integers, Sequences

CONSTANTS
  HashLen,    \* lengths of the fields: the HMAC,
  SaltLen,    \* its salt,
  UuidLen,    \* the id of the key,
  InfoMax,    \* the most that is taken for the key's type,
  WrappedLen, \* the wrapped key,
  KdfSaltLen  \* and the salt of the password

Null == 0
Unset == -1       \* a variable that nothing was assigned to
Crashed == [outcome |-> "crashed"]

\* The decoders return a pointer and what they decoded.
Result(der, val) == [der |-> der, val |-> val]

\* The length of a long form is a number of any size here, and one of 64 bits
\* in the code, where a sum with a pointer may wrap: no blob of a keybag, of
\* 64 KB at most, has a whole field of such a length.
LongForm == 128
der_decode_len(b, der, end) ==
  IF der = Null \/ der >= end THEN Result(Null, 0)
  ELSE IF b[der] < LongForm THEN Result(der + 1, b[der])
  ELSE LET n == b[der] - LongForm
           len[i \in 0..n] == IF i = 0 THEN 0 ELSE 256 * len[i - 1] + b[der + i]
       IN IF der + 1 + n >= end THEN Result(Null, 0) ELSE Result(der + 1 + n, len[n])

\* The length is not assigned to where the tag is another.  A null pointer
\* is not looked for, but nothing is behind the end from it.
der_decode_tl(tag, b, der, end) ==
  IF der = Null \/ der >= end \/ b[der] # tag THEN Result(Null, Unset)
  ELSE LET r == der_decode_len(b, der + 1, end)
       IN IF r.der + r.val > end THEN Result(Null, r.val) ELSE r

\* A constructed element: val is the end of its body.
der_decode_constructed_tl(tag, b, der, end) ==
  LET r == der_decode_tl(tag, b, der, end)
  IN IF r.der = Null THEN Result(Null, Null) ELSE Result(r.der, r.der + r.val)

der_decode_uint64(tag, b, der, end) ==
  LET r == der_decode_tl(tag, b, der, end)
      v[i \in 0..r.val] == IF i = 0 THEN 0 ELSE 256 * v[i - 1] + b[r.der + i - 1]
  IN IF r.der = Null \/ r.val > 8 THEN Result(Null, 0) ELSE Result(r.der + r.val, v[r.val])

\* Mutant: a string may be longer than what is copied of it.
Fits(slen, len) == slen >= len

SameLen(slen, len) == slen = len

der_decode_octet_string_copy(tag, len, b, der, end) ==
  LET r == der_decode_tl(tag, b, der, end)
  IN IF r.der = Null \/ ~SameLen(r.val, len) THEN Result(Null, <<>>)
     ELSE Result(r.der + r.val, SubSeq(b, r.der, r.der + len - 1))

-----------------------------------------------------------------------------
Sequence == 48     \* 0x30
Tag(n) == 128 + n  \* 0x80: context specific
Nested == 163      \* 0xA3

\* Fields that follow each other: a null pointer is passed on.
Uint64(tag) == [tag |-> tag, len |-> Null]
Octets(tag, len) == [tag |-> tag, len |-> len]
DecodeField(f, b, der, end) ==
  IF f.len = Null THEN der_decode_uint64(f.tag, b, der, end)
  ELSE der_decode_octet_string_copy(f.tag, f.len, b, der, end)
DecodeFields(fields, b, der, end) ==
  LET r[i \in 0..Len(fields)] ==
        IF i = 0 THEN Result(der, <<>>)
        ELSE LET f == DecodeField(fields[i], b, r[i - 1].der, end)
             IN Result(f.der, Append(r[i - 1].val, f.val))
  IN r[Len(fields)]

\* What is read of a header: the pointer behind it, the end of its body, the id
\* and the type.  The HMAC is computed, and a wrong one reported, but not
\* refused.  info_len is looked at although der may be null: nothing, everything
\* or too much may then be copied from there (KeyMgmt.cpp:710).
Header(der, end, uuid, info) == [der |-> der, end |-> end, uuid |-> uuid, info |-> info]
HeaderOf(b, end, uuid, info) ==
  IF info.der # Null /\ info.val <= InfoMax
    THEN {Header(info.der + info.val, end, uuid, SubSeq(b, info.der, info.der + info.val - 1))}
  ELSE IF info.val > InfoMax \/ info.val = 0 THEN {Header(Null, end, uuid, <<>>)}
  ELSE IF info.val = Unset THEN {Header(Null, end, uuid, <<>>), Crashed}
  ELSE {Crashed}
HeaderBody(b, body) ==
  LET fields == DecodeFields(<<Uint64(Tag(0)), Octets(Tag(1), UuidLen)>>, b, body.der, body.val)
  IN HeaderOf(b, body.val, fields.val[2], der_decode_tl(Tag(2), b, fields.der, body.val))
DecodeKeyHeader(b, der0, end0) ==
  LET seq == der_decode_constructed_tl(Sequence, b, der0, end0)
      fields == DecodeFields(<<Uint64(Tag(0)), Octets(Tag(1), HashLen), Octets(Tag(2), SaltLen)>>,
                             b, seq.der, seq.val)
  IN IF fields.der = Null THEN {Header(Null, end0, <<>>, <<>>)}
     ELSE HeaderBody(b, der_decode_constructed_tl(Nested, b, fields.der, seq.val))

Rejected == [outcome |-> "rejected"]

\* The headers DecodeKEK and DecodeVEK go on with, and what they return else.
AfterHeader(b) ==
  {h \in DecodeKeyHeader(b, 1, Len(b) + 1) : h # Crashed /\ h.der # Null}
Refused(b) ==
  {IF h = Crashed THEN Crashed ELSE Rejected : h \in DecodeKeyHeader(b, 1, Len(b) + 1) \ AfterHeader(b)}

DecodeKEK(b) ==
  LET key(h) ==
        LET r == DecodeFields(<<Octets(Tag(3), WrappedLen), Uint64(Tag(4)), Octets(Tag(5), KdfSaltLen)>>,
                              b, h.der, h.end)
        IN IF r.der = Null THEN Rejected
           ELSE [uuid |-> h.uuid, info |-> h.info, wrapped |-> r.val[1],
                 iterations |-> r.val[2], salt |-> r.val[3]]
  IN Refused(b) \cup {key(h) : h \in AfterHeader(b)}

\* DecodeVEK looks for the wrapped key up to the end of the blob.
DecodeVEK(b) ==
  LET key(h) ==
        LET r == der_decode_octet_string_copy(Tag(3), WrappedLen, b, h.der, Len(b) + 1)
        IN IF r.der = Null THEN Rejected
           ELSE [uuid |-> h.uuid, info |-> h.info, wrapped |-> r.val]
  IN Refused(b) \cup {key(h) : h \in AfterHeader(b)}
=============================================================================
