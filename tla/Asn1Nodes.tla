----------------------------- MODULE Asn1Nodes -----------------------------
(***************************************************************************)
(* The values and the tree of egg-asn1x.c: the tag-length-value layer, the *)
(* values read from it and written to it, and the nodes made of them.      *)
(*                                                                         *)
(* The first part is the tag-length-value layer.  Data is bytes in order,  *)
(* and a place in it is an index; the end of a stretch is the index after  *)
(* its last byte.  A TLV is a record                                       *)
(*   cls, tag, off, len  its class byte, tag, header and content length,   *)
(*   value               <<>>, or <<bytes>> for a primitive TLV,           *)
(*   decoded             <<>>, or <<bytes>> it was read from,              *)
(*   kids                the TLVs inside it,                               *)
(*   prefix, sorted      how it is written: the byte put before the value  *)
(*                       (<<>> for none) and whether the kids are sorted.  *)
(* Reading fails the way the C code returns an error; writing fails where  *)
(* the C code fails an assertion.                                          *)
(***************************************************************************)
EXTENDS Integers, Sequences, SequencesExt

CONSTANT UintMod      \* the number of values of a guint: 2^32 in C, less here

Byte == 0..255
UNIVERSAL == 0
STRUCTURED == 32
CONTEXT_SPECIFIC == 128
IsStructured(cls) == (cls \div STRUCTURED) % 2 = 1
IsContext(cls) == cls \div CONTEXT_SPECIFIC = 1

Tlv(cls, tag, off, len) ==
  [cls |-> cls, tag |-> tag, off |-> off, len |-> len, value |-> <<>>,
   decoded |-> <<>>, kids |-> <<>>, prefix |-> <<>>, sorted |-> FALSE]

(* acc * base + digit in a guint, or -1 once it has wrapped around. *)
Shift(acc, base, digit) ==
  LET r == (acc * base) % UintMod
      s == (r + digit) % UintMod
  IN  IF acc < 0 \/ r < acc \/ s < r THEN -1 ELSE s

(* The class and tag at `at': [ok, cls, tag, off].  The bytes of a long    *)
(* tag end at the first below 128, which may not be the last of the data.  *)
ParseClsTag(d, at, end) ==
  LET n == end - at
      cls == (d[at] \div 32) * 32
      last == SelectInSubSeq(d, at + 1, end - 1, LAMBDA b : b < 128)
      tag == FoldLeft(LAMBDA acc, b : Shift(acc, 128, b % 128), 0,
                      SubSeq(d, at + 1, last))
  IN  IF n < 2 THEN [ok |-> FALSE]
      ELSE IF d[at] % 32 # 31
      THEN [ok |-> TRUE, cls |-> cls, tag |-> d[at] % 32, off |-> 1]
      ELSE IF last = 0 \/ last + 1 >= end \/ tag < 0 THEN [ok |-> FALSE]
      ELSE [ok |-> TRUE, cls |-> cls, tag |-> tag, off |-> last + 1 - at]

(* The length at `at': -1 when it is indefinite, -2 when it wraps around.  *)
(* Length bytes that the data ends before are not missed.                  *)
ParseLength(d, at, end) ==
  LET k == d[at] % 128
      m == IF k < end - at - 1 THEN k ELSE end - at - 1
      ans == FoldLeft(LAMBDA acc, b : Shift(acc, 256, b), 0, SubSeq(d, at + 1, at + m))
  IN  IF d[at] < 128 THEN [len |-> d[at], off |-> 1]
      ELSE IF k = 0 THEN [len |-> -1, off |-> 1]
      ELSE IF ans < 0 THEN [len |-> -2, off |-> 0]
      ELSE [len |-> IF ans >= UintMod \div 2 THEN ans - UintMod ELSE ans,
            off |-> m + 1]

(* The length after a tag that was read, which must end before `limit'. *)
TagWithLength(t, l, at, limit) ==
  IF l.len < -1 \/ (l.len >= 0 /\ at + t.off + l.off + l.len > limit) THEN [ok |-> FALSE]
  ELSE [ok |-> TRUE, cls |-> t.cls, tag |-> t.tag, off |-> t.off + l.off, len |-> l.len]
LengthAfter(d, t, at, end, limit) ==
  IF ~t.ok THEN [ok |-> FALSE]
  ELSE TagWithLength(t, ParseLength(d, at + t.off, end), at, limit)


ParseClsTagLen(d, at, end) == LengthAfter(d, ParseClsTag(d, at, end), at, end, end)

RECURSIVE ParseDerTag(_, _, _), ParseKids(_, _, _, _)

(* The TLV with header h at `at': [ok, tlv, at].  One of indefinite length *)
(* may reach to the end of all the data, wherever its parent ends.         *)
Structured(d, tlv, inner, at) ==
  IF ~inner.ok THEN [ok |-> FALSE]
  ELSE [ok |-> TRUE, at |-> inner.at,
        tlv |-> [tlv EXCEPT !.kids = inner.kids, !.decoded = <<SubSeq(d, at, inner.at - 1)>>]]

ParseDerTag(d, h, at) ==
  LET tlv == Tlv(h.cls, h.tag, h.off, h.len)
      start == at + h.off
      end == IF h.len >= 0 THEN start + h.len ELSE Len(d) + 1
  IN  IF IsStructured(h.cls) THEN Structured(d, tlv, ParseKids(d, start, end, h.len < 0), at)
      ELSE IF h.len < 0 THEN [ok |-> FALSE]
      ELSE [ok |-> TRUE, at |-> end,
            tlv |-> [tlv EXCEPT !.value = <<SubSeq(d, start, end - 1)>>,
                                !.decoded = <<SubSeq(d, at, end - 1)>>]]

(* The TLVs from `at' to `end', or to the mark that ends an indefinite one. *)
FirstAndRest(first, rest) ==
  IF ~rest.ok THEN [ok |-> FALSE]
  ELSE [ok |-> TRUE, kids |-> <<first.tlv>> \o rest.kids, at |-> rest.at]
KidsAfter(d, first, end, indefinite) ==
  IF ~first.ok THEN [ok |-> FALSE] ELSE FirstAndRest(first, ParseKids(d, first.at, end, indefinite))
KidsFrom(d, h, at, end, indefinite) ==
  IF ~h.ok THEN [ok |-> FALSE]
  ELSE IF indefinite /\ h.cls = UNIVERSAL /\ h.tag = 0 /\ h.len = 0
  THEN [ok |-> TRUE, kids |-> <<>>, at |-> at + h.off]
  ELSE KidsAfter(d, ParseDerTag(d, h, at), end, indefinite)
ParseKids(d, at, end, indefinite) ==
  IF at >= end THEN [ok |-> TRUE, kids |-> <<>>, at |-> at]
  ELSE KidsFrom(d, ParseClsTagLen(d, at, end), at, end, indefinite)

(* All the data is one TLV. *)
WholeTlv(d, r) ==
  IF ~r.ok THEN [ok |-> FALSE]
  ELSE IF r.at # Len(d) + 1 THEN [ok |-> FALSE]
  ELSE [ok |-> TRUE, tlv |-> r.tlv]
WholeFrom(d, h) == IF ~h.ok THEN [ok |-> FALSE] ELSE WholeTlv(d, ParseDerTag(d, h, 1))
ParseDer(d) ==
  IF d = <<>> THEN [ok |-> FALSE] ELSE WholeFrom(d, ParseClsTagLen(d, 1, Len(d) + 1))

(* The length and the content of the element that data starts with; the    *)
(* content's end is not compared with the end of the data.                 *)
ElementLength(d) ==
  LET t == ParseClsTag(d, 1, Len(d) + 1)
      l == ParseLength(d, 1 + t.off, Len(d) + 1)
  IN  IF d = <<>> \/ ~t.ok THEN -1
      ELSE IF l.len >= 0 /\ t.off + l.off + l.len <= Len(d) THEN t.off + l.off + l.len
      ELSE -1

ElementContent(d) ==
  LET t == ParseClsTag(d, 1, Len(d) + 1)
      l == ParseLength(d, 1 + t.off, Len(d) + 1)
  IN  IF d = <<>> \/ ~t.ok THEN [ok |-> FALSE]
      ELSE IF l.len < 0 THEN [ok |-> FALSE]
      ELSE [ok |-> TRUE, start |-> 1 + t.off + l.off, len |-> l.len]

RECURSIVE Digits(_, _)
Digits(n, base) == IF n = 0 THEN <<>> ELSE Digits(n \div base, base) \o <<n % base>>

UnparseLen(len) ==
  LET k == Digits(len, 256) IN
  IF len < 128 THEN <<len>> ELSE <<Len(k) + 128>> \o k

UnparseClsTagLen(cls, tag, len) ==
  LET k == Digits(tag, 128)
      id == IF tag < 31 THEN <<cls + tag>>
            ELSE <<cls + 31>> \o [i \in DOMAIN k |-> IF i < Len(k) THEN k[i] + 128 ELSE k[i]]
  IN  id \o UnparseLen(len)

RECURSIVE UnparseDer(_)
(* What is written for a TLV.  The header and the content must come out as *)
(* long as the TLV says: ok is FALSE where an assertion would fail.        *)
UnparseDer(tlv) ==
  LET inside == [i \in DOMAIN tlv.kids |-> UnparseDer(tlv.kids[i])]
      content == IF tlv.value # <<>> THEN tlv.prefix \o tlv.value[1]
                 ELSE FlattenSeq([i \in DOMAIN inside |-> inside[i].bytes])
      header == UnparseClsTagLen(tlv.cls, tlv.tag, tlv.len)
  IN  IF tlv.len < 0 THEN [ok |-> FALSE, bytes |-> <<>>]
      ELSE [ok |-> /\ Len(header) = tlv.off
                   /\ Len(content) = tlv.len
                   /\ \A i \in DOMAIN inside : inside[i].ok,
            bytes |-> header \o content]

RECURSIVE BytesLess(_, _)
BytesLess(a, b) ==
  IF a = <<>> \/ b = <<>> THEN a = <<>> /\ b # <<>>
  ELSE a[1] < b[1] \/ (a[1] = b[1] /\ BytesLess(Tail(a), Tail(b)))

RECURSIVE SortPerform(_)
(* The kids of a SET OF are chained anew in the order of their encodings,  *)
(* equal ones last first.  The chain is not ended: unless the last one in  *)
(* that order was the last before, it turns into a ring, and writing it    *)
(* runs into the end of the buffer, an assertion.                          *)
SortPerform(tlv) ==
  LET inner == [i \in DOMAIN tlv.kids |-> SortPerform(tlv.kids[i])]
      kids == [i \in DOMAIN inner |-> inner[i].tlv]
      enc == [i \in DOMAIN kids |-> UnparseDer(kids[i]).bytes]
      order == SetToSortSeq(DOMAIN kids, LAMBDA i, j :
                 BytesLess(enc[i], enc[j]) \/ (enc[i] = enc[j] /\ i > j))
      ok == \A i \in DOMAIN inner : inner[i].ok
  IN  IF ~tlv.sorted \/ kids = <<>> THEN [ok |-> ok, tlv |-> [tlv EXCEPT !.kids = kids]]
      ELSE [ok |-> ok /\ Last(order) = Len(kids),
            tlv |-> [tlv EXCEPT !.kids = [i \in DOMAIN kids |-> kids[order[i]]]]]

----------------------------------------------------------------------------
(* How egg-asn1x.c reads and writes the contents of primitive values:      *)
(* integers, booleans, bit strings, object identifiers and times.  A value *)
(* is a sequence of bytes; a failed conversion is the empty set or <<>>,   *)
(* a successful one {v} or <<v>>.                                          *)

CONSTANTS UlongBytes, \* sizeof (gulong)
          IntBytes    \* sizeof (int), the type the bytes are shifted in

----------------------------------------------------------------------------
(* Integers *)

(* A byte shifted in an int and widened to a gulong: shifting into the sign *)
(* bit fills what is above it, and a shift past the int's width is         *)
(* undefined: the machine drops the byte, or shifts by the rest.           *)
Shifted(b, k) ==
  IF k < IntBytes - 1 THEN {b * 256 ^ k}
  ELSE IF k = IntBytes - 1
  THEN {b * 256 ^ k + IF b >= 128 THEN 256 ^ UlongBytes - 256 ^ IntBytes ELSE 0}
  ELSE {0, b * 256 ^ (k % IntBytes)}

(* a | b for numbers of a gulong. *)
Or(a, b) ==
  LET bits(n) == {i \in 0..(8 * UlongBytes - 1) : (n \div 2 ^ i) % 2 = 1} IN
  FoldSet(LAMBDA i, acc : acc + 2 ^ i, 0, bits(a) \cup bits(b))

RECURSIVE ReadFrom(_, _)
ReadFrom(p, acc) ==
  IF p = <<>> THEN {acc}
  ELSE UNION {ReadFrom(Tail(p), Or(acc, v)) : v \in Shifted(p[1], Len(p) - 1)}

(* What may be read of an integer as a gulong. *)
ReadIntegerUlong(p) ==
  IF Len(p) < 1 \/ Len(p) > UlongBytes THEN {} ELSE ReadFrom(p, 0)

(* The integer is written from the byte after the last zero byte of the    *)
(* gulong, with a zero in front of a byte that would make it negative.     *)
WriteIntegerUlong(value) ==
  LET buf == [i \in 1..UlongBytes |-> (value \div 256 ^ (UlongBytes - i)) % 256]
      zero == {i \in DOMAIN buf : buf[i] = 0}
      last == IF zero = {} THEN 0 ELSE Max(zero)
      bytes == IF last = UlongBytes THEN 1 ELSE UlongBytes - last
      at == SubSeq(buf, UlongBytes - bytes + 1, UlongBytes)
  IN  IF at[1] >= 128 THEN <<0>> \o at ELSE at

RECURSIVE StripZeros(_)
(* Leading zero bytes taken off, to one byte. *)
StripZeros(p) == IF Len(p) > 1 /\ p[1] = 0 THEN StripZeros(Tail(p)) ELSE p

----------------------------------------------------------------------------
(* Booleans: one byte *)
ReadBoolean(p) == p[1] = 255
WriteBoolean(b) == <<IF b THEN 255 ELSE 0>>

----------------------------------------------------------------------------
(* Bit strings *)

(* The first byte of the content counts the empty bits at the end, which   *)
(* must be zero: <<>>, or <<empty, bytes>>.                                *)
DecodeBits(p) ==
  IF p = <<>> THEN <<>>
  ELSE IF p[1] >= 8 \/ (Len(p) > 1 /\ Last(p) % (2 ^ p[1]) # 0) THEN <<>>
  ELSE <<p[1], Tail(p)>>

Empty(n_bits) == (8 - (n_bits % 8)) % 8

(* The empty bits are cleared when a bit string is written. *)
ClearBits(p, empty) ==
  IF p = <<>> THEN p
  ELSE [p EXCEPT ![Len(p)] = @ - (@ % (2 ^ empty))]

BitsUlong(p, empty) ==
  FoldLeft(LAMBDA acc, b : acc * 256 + b, 0, p) \div 2 ^ empty

UlongBits(bits, n_bits) ==
  LET empty == Empty(n_bits)
      len == (n_bits \div 8) + IF empty > 0 THEN 1 ELSE 0
      value == (bits * 2 ^ empty) % 256 ^ UlongBytes
  IN  [i \in 1..len |-> (value \div 256 ^ (len - i)) % 256]

----------------------------------------------------------------------------
(* Object identifiers, as sequences of numbers *)

RECURSIVE ReadOidFrom(_, _, _)
ReadOidFrom(p, val, pval) ==
  LET v == (val * 128 + (p[1] % 128)) % UintMod
      rest == ReadOidFrom(Tail(p), IF p[1] < 128 THEN 0 ELSE v, IF p[1] < 128 THEN 0 ELSE v)
  IN  IF p = <<>> THEN <<<<>>>>
      ELSE IF p[1] = 128 \/ v < pval THEN <<>>
      ELSE IF rest = <<>> THEN <<>>
      ELSE <<(IF p[1] < 128 THEN <<v>> ELSE <<>>) \o rest[1]>>

(* A number cut off by the end of the value is left out.  A byte of 128 is *)
(* refused anywhere, not only in front.  The first byte is read even where *)
(* there is none: it is whatever lies behind the value.                    *)
ReadObjectId(p) ==
  LET rest == ReadOidFrom(Tail(p), 0, 0)
      first(b) == <<b \div 40, b % 40>>
  IN  IF p = <<>> THEN {first(b) : b \in Byte}
      ELSE IF rest = <<>> THEN {}
      ELSE {first(p[1]) \o rest[1]}

WriteNumber(n) ==
  LET g == IF n = 0 THEN <<0>> ELSE Digits(n, 128) IN [i \in DOMAIN g |-> IF i < Len(g) THEN g[i] + 128 ELSE g[i]]

WriteObjectId(oid) ==
  LET data == IF Len(oid) < 2 THEN <<>>
              ELSE <<(40 * oid[1] + oid[2]) % 256>>
                   \o FlattenSeq([i \in 1..(Len(oid) - 2) |-> WriteNumber(oid[i + 2])])
  IN  IF Len(data) < 2 THEN <<>> ELSE <<data>>

----------------------------------------------------------------------------
(* Times: the bytes of the text *)

Digit == 48..57
Point == 46
Zulu == 90
Signs == {43, 45}

Atoin(p, n) ==
  IF \E i \in 1..n : p[i] \notin Digit THEN -1
  ELSE FoldLeft(LAMBDA acc, b : acc * 10 + b - 48, 0, SubSeq(p, 1, n))

(* The full year for two digits, in the years around `now'. *)
TwoToFourDigitYear(year, now) ==
  LET current == now % 100
      century == now - current
  IN  IF current < 40 /\ year < current THEN century + year
      ELSE IF current < 40 /\ year > 100 - (40 - current) THEN century - 100 + year
      ELSE IF current >= 40 /\ year < current /\ year > current - 40 THEN century + year
      ELSE IF year < current THEN century + 100 + year
      ELSE century + year

RECURSIVE Pairs(_, _)
(* Pairs of digits read, as many as are there and wanted. *)
Pairs(p, n) ==
  IF n = 0 \/ Len(p) < 2 THEN <<>> ELSE <<Atoin(p, 2)>> \o Pairs(SubSeq(p, 3, Len(p)), n - 1)

InRange(f) ==
  /\ f[1] - 1900 \in 0..9999
  /\ f[2] - 1 \in 0..11
  /\ f[3] \in 1..31
  /\ f[4] \in 0..23
  /\ f[5] \in 0..59
  /\ f[6] \in 0..59

(* What follows the digits: a fraction of four, then Z or a zone.  A zone  *)
(* out of range ends the reading as if it had succeeded: the -1 returned   *)
(* is true.                                                                *)
ReadZone(t) ==
  LET p == IF Len(t) >= 5 /\ t[1] = Point THEN SubSeq(t, 6, Len(t)) ELSE t
      hours == Atoin(Tail(p), 2)
      more == Len(p) >= 5
      minutes == Atoin(SubSeq(p, 4, 5), 2)
      off == hours * 3600 + IF more THEN minutes * 60 ELSE 0
      left == SubSeq(p, IF more THEN 6 ELSE 4, Len(p))
  IN  IF p = <<>> \/ p = <<Zulu>> THEN <<0>>
      ELSE IF p[1] \notin Signs \/ Len(p) < 3 THEN <<>>
      ELSE IF hours < 0 \/ hours * 3600 > 86400 THEN <<0>>
      ELSE IF left # <<>> THEN <<>>
      ELSE IF p[1] = 45 THEN <<0 - off>> ELSE <<off>>

(* The digits are counted from the start of the text on, past its end if   *)
(* the bytes after it go on with digits.                                   *)
DigitRun(text, beyond) ==
  LET all == text \o beyond
      stop == SelectInSeq(all, LAMBDA b : b \notin Digit)
  IN  IF stop = 0 THEN Len(all) ELSE stop - 1

(* The two forms of a text: the digits of the year, and its length.        *)
UtcTime == [digits |-> 2, shortest |-> 6, limit |-> 28]
GeneralTime == [digits |-> 4, shortest |-> 8, limit |-> 30]

(* <<>>, or <<[fields, offset]>>: year, month, day, hour, minute, second.  *)
ReadTime(form, text, beyond, now) ==
  LET n == form.digits
      e == DigitRun(text, beyond)
      digits == SubSeq(text \o beyond, 1, e)
      rest == IF e < n THEN digits ELSE SubSeq(digits, n + 1, e)
      pairs == Pairs(rest, 5)
      year == IF e < n THEN 1900
              ELSE IF n = 2 THEN TwoToFourDigitYear(Atoin(digits, 2), now)
              ELSE Atoin(digits, 4)
      fields == <<year>> \o [i \in 1..5 |-> IF i <= Len(pairs) THEN pairs[i]
                                            ELSE IF i <= 2 THEN 1 ELSE 0]
      zone == ReadZone(SubSeq(text, e + 1, Len(text)))
  IN  IF Len(text) < form.shortest \/ Len(text) >= form.limit THEN <<>>
      ELSE IF ~InRange(fields) \/ 2 * Len(pairs) # Len(rest) \/ e > Len(text) THEN <<>>
      ELSE IF zone = <<>> THEN <<>>
      ELSE <<[fields |-> fields, offset |-> zone[1]]>>

-----------------------------------------------------------------------------
(***************************************************************************)
(* The tree of egg-asn1x.c: made from a table of definitions, filled in by *)
(* decoding, checked, and built into TLVs.                                 *)
(*                                                                         *)
(* A definition is a record [name, type, ref, num, flags]: the value of a  *)
(* definition is the name it refers to (ref) or a number (num), and the    *)
(* num of a size is its two bounds, where they are not names.  A table     *)
(* is a sequence of them in which "down" marks one followed by its first   *)
(* child and "right" one with a sibling after it.                          *)
(* A node is a record of its definition, the definitions of its options,   *)
(* its value and the TLV it was parsed from (<<>> or <<it>>), chosen,      *)
(* empty (bits), unsigned, and the nodes below it.                         *)
(***************************************************************************)

CONSTANT NoSize   \* larger than any size: the MAX of a definition

Def(name, type, ref, num, flags) ==
  [name |-> name, type |-> type, ref |-> ref, num |-> num, flags |-> flags]

Node(def) ==
  [def |-> def, opts |-> <<>>, value |-> <<>>, parsed |-> <<>>, chosen |-> FALSE,
   empty |-> 0, unsigned |-> FALSE, kids |-> <<>>]

Strings == {"octet string", "general string", "numeric string", "ia5 string",
            "teletex string", "printable string", "universal string", "bmp string",
            "utf8 string", "visible string"}
Times == {"time", "utc time", "generalized time"}
ListTypes == {"sequence of", "set of"}
Containers == ListTypes \cup {"sequence", "set"}
NotReal == {"constant", "identifier", "tag", "default", "size", "definitions", "imports"}
IsReal(node) == node.def.type \notin NotReal

RECURSIVE Clone(_)
(* A copy of a node and of those below it, without anything they hold. *)
Clone(node) ==
  [Node(node.def) EXCEPT !.opts = node.opts,
                         !.kids = [i \in DOMAIN node.kids |-> Clone(node.kids[i])]]

ChildWithName(node, name) ==
  SelectInSeq(node.kids, LAMBDA k : k.def.name = name)

(* The first option of a type, of a name and of a value; an option that    *)
(* has no name or value suits any.                                         *)
OptLookup(node, type) == SelectSeq(node.opts, LAMBDA o : o.type = type)[1]
OptsNamed(node, type, name) ==
  SelectSeq(node.opts, LAMBDA o : o.type = type /\ o.name \in {"", name})
OptsValued(node, type, num) ==
  SelectSeq(node.opts, LAMBDA o : o.type = type /\ o.num = num)

ClrValue(node) == [node EXCEPT !.value = <<>>, !.parsed = <<>>]
TakeValue(node, bytes) == [ClrValue(node) EXCEPT !.value = <<bytes>>]

----------------------------------------------------------------------------
(* Tags *)

AnyTag == -1
UniversalTag ==
  [t \in {"any", "choice"} |-> AnyTag] @@
  ("boolean" :> 1 @@ "integer" :> 2 @@ "bit string" :> 3 @@ "octet string" :> 4 @@
   "null" :> 5 @@ "object id" :> 6 @@ "enumerated" :> 10 @@ "utf8 string" :> 12 @@
   "sequence" :> 16 @@ "sequence of" :> 16 @@ "set" :> 17 @@ "set of" :> 17 @@
   "numeric string" :> 18 @@ "printable string" :> 19 @@ "teletex string" :> 20 @@
   "ia5 string" :> 22 @@ "utc time" :> 23 @@ "generalized time" :> 24 @@
   "visible string" :> 26 @@ "general string" :> 27 @@ "universal string" :> 28 @@
   "bmp string" :> 30)

CalcTag(node, flags) ==
  IF "tag" \in flags THEN OptLookup(node, "tag").num
  ELSE IF node.def.type = "time" THEN IF "generalized" \in flags THEN 24 ELSE 23
  ELSE UniversalTag[node.def.type]

TagClass(node) ==
  LET f == OptLookup(node, "tag").flags IN
  IF "universal" \in f THEN UNIVERSAL
  ELSE IF "application" \in f THEN 64
  ELSE IF "private" \in f THEN 192
  ELSE CONTEXT_SPECIFIC

Explicit(node, flags) ==
  "tag" \in flags /\ "implicit" \notin OptLookup(node, "tag").flags

MatchesTag(node, tlv) == CalcTag(node, node.def.flags) \in {AnyTag, tlv.tag}
MayBeAbsent(node) == {"option", "default"} \cap node.def.flags # {}

----------------------------------------------------------------------------
(* Making a tree from a table of definitions *)

FirstChild(defs, i) == IF "down" \in defs[i].flags THEN i + 1 ELSE 0

NextSibling(defs, i) ==
  LET depth(j) == 1 + Cardinality({k \in (i + 1)..j : "down" \in defs[k].flags})
                    - Cardinality({k \in (i + 1)..j : "right" \notin defs[k].flags})
  IN  IF "right" \notin defs[i].flags THEN 0
      ELSE IF "down" \notin defs[i].flags THEN i + 1
      ELSE 1 + Min({j \in (i + 1)..Len(defs) : depth(j) = 0})

RECURSIVE Siblings(_, _)
Siblings(defs, i) == IF i = 0 THEN <<>> ELSE <<i>> \o Siblings(defs, NextSibling(defs, i))
Below(defs, i) == Siblings(defs, FirstChild(defs, i))

(* The index of the first definition of the table with a name, or 0. *)
LookupDef(defs, name) ==
  LET top == SelectSeq(Below(defs, 1), LAMBDA i : defs[i].name = name) IN
  IF top = <<>> THEN 0 ELSE top[1]

RECURSIVE Finally(_, _)
(* What an identifier stands for, through other identifiers: only the last *)
(* definition on the way counts.                                           *)
Finally(defs, ref) ==
  LET i == LookupDef(defs, ref) IN
  IF defs[i].type = "identifier" THEN Finally(defs, defs[i].ref) ELSE i

(* What is no real node becomes an option, with its own; a size may name   *)
(* its limit.                                                              *)
OptionsOf(nodes) ==
  FlattenSeq([k \in DOMAIN nodes |-> IF IsReal(nodes[k]) THEN <<>> ELSE <<nodes[k].def>> \o nodes[k].opts])
LimitOf(defs, def) ==
  IF def.type = "size" /\ def.name \notin {"", "MAX"} THEN <<defs[LookupDef(defs, def.name)]>> ELSE <<>>

(* The members of a SET are put in the order of their tags, equal ones     *)
(* last first.                                                             *)
TagRank(node) ==
  LET t == CalcTag(node, node.def.flags) IN IF t = AnyTag THEN UintMod ELSE t
OrderByTag(kids) ==
  SetToSortSeq(DOMAIN kids, LAMBDA a, b :
    TagRank(kids[a]) < TagRank(kids[b]) \/ (TagRank(kids[a]) = TagRank(kids[b]) /\ a > b))
Arranged(node) ==
  IF node.def.type # "set" THEN node
  ELSE [node EXCEPT !.kids = [k \in DOMAIN @ |-> @[OrderByTag(node.kids)[k]]]]

(* A node for a definition, joined with the one it stands for. *)
Joined(defs, def, own, join) ==
  Arranged([Node([def EXCEPT !.type = join.def.type, !.flags = @ \cup join.def.flags])
              EXCEPT !.opts = LimitOf(defs, def) \o OptionsOf(own \o join.kids) \o join.opts,
                     !.kids = SelectSeq(own \o join.kids, IsReal)])

RECURSIVE CreateAt(_, _)
(* The node for one definition with those below it: an identifier is       *)
(* joined with what it stands for, any other with nothing.                 *)
CreateAt(defs, i) ==
  Joined(defs, defs[i], [k \in DOMAIN Below(defs, i) |-> CreateAt(defs, Below(defs, i)[k])],
         IF defs[i].type = "identifier" THEN CreateAt(defs, Finally(defs, defs[i].ref)) ELSE Node(defs[i]))

(* The object identifiers the table defines, from those already known:     *)
(* each is a list of numbers and names of others, which the table has.     *)
RECURSIVE KnownOids(_, _)
KnownOids(defs, names) ==
  LET ids == {i \in Range(Below(defs, 1)) : /\ defs[i].type = "object id"
                                            /\ defs[i].name \notin {""} \cup DOMAIN names}
      parts(i) == SelectSeq(Below(defs, i), LAMBDA k : defs[k].type = "constant")
      ready == {i \in ids : /\ parts(i) # <<>>
                            /\ \A k \in Range(parts(i)) :
                                 defs[k].ref = "" \/ defs[k].ref \in DOMAIN names}
      oid(i) == FlattenSeq([k \in DOMAIN parts(i) |->
                  LET d == defs[parts(i)[k]] IN
                  IF d.ref = "" THEN <<d.num>> ELSE names[d.ref]])
      more == [n \in {defs[i].name : i \in ready} |->
                 oid(CHOOSE i \in ready : defs[i].name = n)]
  IN  IF ready = {} THEN names ELSE KnownOids(defs, more @@ names)

(* The definition after the one of an object identifier is what it names. *)
MatchOid(defs, oid) ==
  LET known == KnownOids(defs, <<>>)
      match == {i \in Range(Below(defs, 1)) :
                  /\ defs[i].type = "object id"
                  /\ defs[i].name \in DOMAIN known
                  /\ known[defs[i].name] = oid}
  IN  IF match = {} THEN 0 ELSE NextSibling(defs, Min(match))

Create(defs, name) == CreateAt(defs, LookupDef(defs, name))
CreateForOid(defs, oid) ==
  LET i == MatchOid(defs, oid) IN IF i = 0 THEN <<>> ELSE <<CreateAt(defs, i)>>

RECURSIVE Clear(_)
(* What is cleared: values and TLVs, and all but the first of a list.      *)
(* Choices, empty bits and signs stay as they were.                        *)
Clear(node) ==
  LET kept == IF node.def.type \in ListTypes THEN SubSeq(node.kids, 1, 1) ELSE node.kids IN
  [ClrValue(node) EXCEPT !.kids = [i \in DOMAIN kept |-> Clear(kept[i])]]

----------------------------------------------------------------------------
(* Decoding: [ok, node], with what was filled in before a failure *)

RECURSIVE DecodeNoTag(_, _, _), DecodeAnything(_, _), DecodeItems(_, _, _, _)

Fail(node) == [ok |-> FALSE, node |-> node]
Done(node) == [ok |-> TRUE, node |-> node]

DecodeOne(node, tlv) ==
  IF MatchesTag(node, tlv) THEN DecodeNoTag(node, tlv, node.def.flags) ELSE Fail(node)

(* Every alternative is tried, and marked chosen if it decodes. *)
DecodeChoice(node, tlv) ==
  LET r == [i \in DOMAIN node.kids |-> DecodeOne(node.kids[i], tlv)] IN
  [ok |-> \E i \in DOMAIN r : r[i].ok,
   node |-> [node EXCEPT !.kids = [i \in DOMAIN r |-> [r[i].node EXCEPT !.chosen = r[i].ok]]]]

DecodeSequenceOrSet(node, tlv) ==
  LET r == DecodeAnything(node.kids, tlv.kids)
      ascending == \A i \in 1..(Len(tlv.kids) - 1) : tlv.kids[i].tag <= tlv.kids[i + 1].tag
  IN  IF node.def.type = "set" /\ ~ascending THEN Fail(node)
      ELSE [ok |-> r.ok, node |-> [node EXCEPT !.kids = r.kids]]

(* The items of a list: the first fills the template, the others copies of *)
(* it, appended; all must have the template's tag.                         *)
DecodeItems(template, tlvs, i, kids) ==
  LET r == DecodeOne(IF i = 1 THEN kids[1] ELSE Clone(template), tlvs[i])
      now == IF i = 1 THEN [kids EXCEPT ![1] = r.node] ELSE Append(kids, r.node)
      tag == CalcTag(template, template.def.flags)
  IN  IF i > Len(tlvs) THEN [ok |-> TRUE, kids |-> kids]
      ELSE IF i > 1 /\ tag \notin {AnyTag, tlvs[i].tag} THEN [ok |-> FALSE, kids |-> kids]
      ELSE IF ~r.ok THEN [ok |-> FALSE, kids |-> now]
      ELSE DecodeItems(template, tlvs, i + 1, now)

DecodeBitString(node, tlv) ==
  LET bits == DecodeBits(tlv.value[1]) IN
  IF bits = <<>> THEN Fail(node)
  ELSE Done([TakeValue(node, bits[2]) EXCEPT !.empty = bits[1]])

DecodePrimitive(node, tlv) ==
  CASE node.def.type = "bit string" -> DecodeBitString(node, tlv)
    [] node.def.type = "any" -> Done(node)
    [] node.def.type = "choice" -> DecodeChoice(node, tlv)
    [] node.def.type \in Containers -> Fail(node)
    [] OTHER -> Done(TakeValue(node, tlv.value[1]))

DecodeStructured(node, tlv) ==
  CASE node.def.type \in {"any"} \cup Strings -> Done(node)
    [] node.def.type = "choice" -> DecodeChoice(node, tlv)
    [] node.def.type \in {"sequence", "set"} -> DecodeSequenceOrSet(node, tlv)
    [] node.def.type \in ListTypes ->
         LET r == DecodeItems(node.kids[1], tlv.kids, 1, node.kids) IN
         [ok |-> r.ok, node |-> [node EXCEPT !.kids = r.kids]]
    [] OTHER -> Fail(node)

(* An explicit tag holds one TLV, whose own tag is not looked at.          *)
DecodeNoTag(node, tlv, flags) ==
  LET explicit == Explicit(node, flags)
      wrapped == IsContext(tlv.cls) /\ Len(tlv.kids) = 1
      r == IF explicit
           THEN IF wrapped THEN DecodeNoTag(node, tlv.kids[1], flags \ {"tag"}) ELSE Fail(node)
           ELSE IF IsStructured(tlv.cls) THEN DecodeStructured(node, tlv)
           ELSE DecodePrimitive(node, tlv)
  IN  IF r.ok THEN Done([r.node EXCEPT !.parsed = <<tlv>>]) ELSE r

(* Siblings take the TLVs in order; one that may be absent is skipped when *)
(* the tag is another's, but not the last one.                             *)
DecodeAnything(kids, tlvs) ==
  LET k == kids[1]
      r == DecodeNoTag(k, tlvs[1], k.def.flags)
      next(first, rest) == [ok |-> rest.ok, kids |-> <<first>> \o rest.kids]
  IN  IF kids = <<>> THEN [ok |-> tlvs = <<>>, kids |-> kids]
      ELSE IF tlvs # <<>> /\ MatchesTag(k, tlvs[1])
      THEN IF r.ok THEN next(r.node, DecodeAnything(Tail(kids), Tail(tlvs)))
           ELSE [ok |-> FALSE, kids |-> <<r.node>> \o Tail(kids)]
      ELSE IF ~MayBeAbsent(k) THEN [ok |-> FALSE, kids |-> kids]
      ELSE IF tlvs # <<>> /\ Len(kids) = 1 THEN [ok |-> FALSE, kids |-> <<ClrValue(k)>>]
      ELSE next(ClrValue(k), DecodeAnything(Tail(kids), tlvs))

----------------------------------------------------------------------------
(* Validation *)

RECURSIVE Have(_)
Have(node) == node.value # <<>> \/ node.parsed # <<>> \/ \E i \in DOMAIN node.kids : Have(node.kids[i])

Chosen(node) == SelectInSeq(node.kids, LAMBDA k : k.chosen)

(* A bound of a size is a number, MAX, or the name of one of the options.  *)
SizeLimit(node, name, number) ==
  CASE name = "MAX" -> NoSize
    [] name = "" -> number
    [] OTHER -> OptsNamed(node, "integer", name)[1].num

ValidSize(node, length) ==
  LET size == OptLookup(node, "size")
      lower == SizeLimit(node, size.ref, size.num[1])
  IN  IF "size" \notin node.def.flags THEN TRUE
      ELSE IF "min_max" \in size.flags
      THEN length >= lower /\ length < SizeLimit(node, size.name, size.num[2])
      ELSE length = lower

ValidInteger(node, p) ==
  /\ p # <<>>
  /\ "list" \in node.def.flags =>
       \E v \in ReadIntegerUlong(p) : OptsValued(node, "constant", v) # <<>>

ReadNodeTime(node, p, beyond, now) ==
  ReadTime(IF \/ node.def.type = "generalized time"
              \/ node.def.type = "time" /\ "generalized" \in node.def.flags
           THEN GeneralTime ELSE UtcTime, p, beyond, now)

ValidValue(node, p) ==
  CASE node.def.type = "integer" -> ValidInteger(node, p)
    [] node.def.type = "enumerated" -> (p # <<>> => p[1] < 128) /\ ValidInteger(node, p)
    [] node.def.type = "boolean" -> p \in {<<0>>, <<255>>}
    [] node.def.type \in {"bit string", "bmp string", "universal string"} -> TRUE
    [] node.def.type \in Strings \ {"bmp string", "universal string"} -> ValidSize(node, Len(p))
    [] node.def.type = "object id" -> ReadObjectId(p) # {}
    [] node.def.type = "null" -> p = <<>>
    [] OTHER -> ReadNodeTime(node, p, <<>>, 2000) # <<>>

RECURSIVE Validate(_)
ValidateChoice(node) ==
  /\ Chosen(node) # 0
  /\ Validate(node.kids[Chosen(node)])
  /\ \A i \in DOMAIN node.kids : node.kids[i].chosen => i = Chosen(node)

ValidateSequenceOrSet(node) ==
  \/ "option" \in node.def.flags /\ ~Have(node)
  \/ \A i \in DOMAIN node.kids : Validate(node.kids[i])

ValidateListOf(node) ==
  LET held == SelectSeq(node.kids, Have) IN
  /\ \A i \in DOMAIN held : Validate(held[i])
  /\ (held = <<>> /\ "option" \in node.def.flags) \/ ValidSize(node, Len(held))

Validate(node) ==
  CASE node.def.type = "choice" -> ValidateChoice(node)
    [] node.def.type \in {"sequence", "set"} -> ValidateSequenceOrSet(node)
    [] node.def.type \in ListTypes -> ValidateListOf(node)
    [] OTHER -> IF node.value # <<>> /\ node.def.type # "any" THEN ValidValue(node, node.value[1])
                ELSE \/ node.parsed # <<>> /\ node.def.type \in {"any"} \cup Strings
                     \/ MayBeAbsent(node)

----------------------------------------------------------------------------
(* Building TLVs: <<>>, or <<the TLV>> *)

RECURSIVE Build(_, _)

BuildClsTagLen(node, tlv, len) ==
  LET tagged == "tag" \in node.def.flags
      explicit == Explicit(node, node.def.flags)
      cls == (IF node.def.type \in Containers THEN STRUCTURED ELSE UNIVERSAL)
             + IF tagged /\ ~explicit THEN TagClass(node) ELSE 0
      tag == CalcTag(node, IF explicit THEN node.def.flags \ {"tag"} ELSE node.def.flags)
      length == len + Len(tlv.prefix)
  IN  [tlv EXCEPT !.cls = cls, !.tag = tag, !.len = length,
                  !.off = Len(UnparseClsTagLen(cls, tag, length))]

(* A value, a bit string with its count of empty bits, or an integer with  *)
(* a zero byte before it where it was set as unsigned and looks negative.  *)
BuildValue(node) ==
  LET p == node.value[1]
      isBits == node.def.type = "bit string"
      prefix == CASE isBits -> <<node.empty>>
                  [] node.def.type = "integer" /\ node.unsigned /\ p # <<>> ->
                       IF p[1] >= 128 THEN <<0>> ELSE <<>>
                  [] OTHER -> <<>>
      tlv == [Tlv(0, 0, 0, 0) EXCEPT !.prefix = prefix,
               !.value = <<IF isBits THEN ClearBits(p, node.empty) ELSE p>>]
  IN  IF node.value = <<>> THEN <<>> ELSE <<BuildClsTagLen(node, tlv, Len(p))>>

(* An empty sequence is built only where one is wanted. *)
BuildStructured(node, want) ==
  LET kidWant == want /\ node.def.type \notin ListTypes
      kids == FlattenSeq([i \in DOMAIN node.kids |-> Build(node.kids[i], kidWant)])
      len == FoldLeft(LAMBDA acc, t : acc + t.off + t.len, 0, kids)
      tlv == [Tlv(0, 0, 0, 0) EXCEPT !.kids = kids, !.sorted = node.def.type = "set of"]
  IN  IF kids = <<>> /\ (~want \/ "option" \in node.def.flags) THEN <<>>
      ELSE <<BuildClsTagLen(node, tlv, len)>>

MaybeExplicit(node, tlv) ==
  LET cls == STRUCTURED + TagClass(node)
      tag == CalcTag(node, node.def.flags)
      len == tlv.off + tlv.len
  IN  IF ~Explicit(node, node.def.flags) THEN tlv
      ELSE [Tlv(cls, tag, Len(UnparseClsTagLen(cls, tag, len)), len) EXCEPT !.kids = <<tlv>>]

Build(node, want) ==
  LET tlv == CASE node.def.type \in Containers -> BuildStructured(node, want)
               [] node.def.type = "choice" -> IF Chosen(node) = 0 THEN <<>>
                                              ELSE Build(node.kids[Chosen(node)], want)
               [] OTHER -> BuildValue(node)
  IN  IF node.def.type = "any" THEN node.parsed
      ELSE IF tlv = <<>> THEN <<>>
      ELSE <<MaybeExplicit(node, tlv[1])>>

(* Sorting and writing: ok is FALSE where an assertion fails. *)
WrittenIf(ok, u) == [ok |-> ok /\ u.ok, bytes |-> u.bytes]
WrittenSorted(s) == WrittenIf(s.ok, UnparseDer(s.tlv))
Written(tlv) == WrittenSorted(SortPerform(tlv))
=============================================================================
