------------------------------- MODULE Asn1x -------------------------------
(***************************************************************************)
(* A user of egg-asn1x.c: a tree made from a table of definitions, filled  *)
(* in by the setters or by decoding, read by the getters and encoded.      *)
(* Data that is decoded comes from an encoding with some bytes changed, or *)
(* is any short sequence of bytes.                                         *)
(***************************************************************************)
EXTENDS Asn1Nodes

CONSTANTS Table,        \* the definitions
          Documents,    \* for each type of tree, encodings that somebody else made
          AnyName,      \* the type put into an ANY
          Alphabet,     \* the bytes that raw data is made of
          Spoilers,     \* the bytes an encoding is changed with
          Numbers,      \* what integers are set to
          Blobs,        \* what strings and raw integers are set to
          TimePieces,   \* the pieces that the text of a time is made of
          ThisYear,
          Probes,       \* the numbers that setters are tried with
          MaxLen, MaxItems,
          MaxOps        \* bound: for each type, the calls that fill in a tree

VARIABLES asn,    \* the tree
          data,   \* what was encoded or received
          ops,    \* how many calls were made
          stage   \* "fill", "encoded", "changed", "decoded", "failed",
                  \* "cleared", or "raw" and "time" for bytes of any kind

vars == <<asn, data, ops, stage>>

----------------------------------------------------------------------------
(* The getters *)

(* The default is a number, or the name of one of the constants. *)
DefaultInteger(node) ==
  LET default == OptLookup(node, "default")
      named == OptsNamed(node, "constant", default.ref)
  IN  IF "default" \notin node.def.flags THEN <<>>
      ELSE <<WriteIntegerUlong((IF default.ref = "" THEN default ELSE named[1]).num)>>

DefaultBoolean(node) ==
  IF "default" \notin node.def.flags THEN <<>>
  ELSE <<WriteBoolean("true" \in OptLookup(node, "default").flags)>>

GetBoolean(node) ==
  LET p == IF node.value # <<>> THEN node.value ELSE DefaultBoolean(node) IN
  IF p = <<>> THEN <<>> ELSE <<ReadBoolean(p[1])>>

GetIntegerUlong(node) ==
  LET p == IF node.value # <<>> THEN node.value ELSE DefaultInteger(node) IN
  IF p = <<>> THEN {} ELSE ReadIntegerUlong(p[1])

GetIntegerRaw(node) == IF node.unsigned THEN <<>> ELSE node.value

GetIntegerUsg(node) ==
  IF node.value = <<>> THEN <<>>
  ELSE IF node.unsigned THEN node.value
  ELSE IF node.value[1][1] >= 128 THEN <<>>
  ELSE <<StripZeros(node.value[1])>>

(* The pieces of a string that was encoded in several, put together. *)
GetStringPieces(pieces) ==
  IF \E i \in DOMAIN pieces : IsStructured(pieces[i].cls) \/ pieces[i].value = <<>> THEN <<>>
  ELSE <<FlattenSeq([i \in DOMAIN pieces |-> pieces[i].value[1]])>>

GetStringRaw(node) ==
  IF node.value # <<>> THEN node.value
  ELSE IF node.parsed = <<>> THEN <<>>
  ELSE GetStringPieces(node.parsed[1].kids)

GetBits(node) ==
  IF node.value = <<>> THEN <<>>
  ELSE <<Len(node.value[1]) * 8 - node.empty, node.value[1]>>

GetBitsUlong(node) ==
  IF node.value = <<>> THEN {}
  ELSE IF Len(node.value[1]) * 8 - node.empty > 8 * UlongBytes THEN {}
  ELSE {BitsUlong(node.value[1], node.empty)}

GetOid(node) == IF node.value = <<>> THEN {} ELSE ReadObjectId(node.value[1])

GetEnumerated(node) ==
  IF node.value = <<>> THEN {}
  ELSE {OptsValued(node, "constant", v)[1].name :
          v \in {n \in ReadIntegerUlong(node.value[1]) : OptsValued(node, "constant", n) # <<>>}}

(* The bytes an element was decoded from, inside an explicit tag. *)
GetElementRaw(node) ==
  IF node.parsed = <<>> THEN <<>>
  ELSE IF ~Explicit(node, node.def.flags) THEN node.parsed[1].decoded
  ELSE node.parsed[1].kids[1].decoded

(* What was decoded must also be valid. *)
Checked(r) == [ok |-> r.ok /\ Validate(r.kids[1]), node |-> r.kids[1]]

(* An ANY decoded into a tree of another type. *)
GetAnyInto(node, into) ==
  IF node.parsed = <<>> THEN Fail(into)
  ELSE Checked(DecodeAnything(<<into>>, IF Explicit(node, node.def.flags) THEN node.parsed[1].kids ELSE node.parsed))

GetAnyRaw(node) ==
  LET tlv == Build(node, TRUE) IN IF tlv = <<>> THEN Fail(node) ELSE Written(tlv[1])

(* The items of a list are those that hold something. *)
Items(node) == SelectSeq(node.kids, Have)

----------------------------------------------------------------------------
(* The setters *)

(* A value equal to the default is not kept. *)
SetBoolean(node, b) ==
  IF DefaultBoolean(node) = <<WriteBoolean(b)>> THEN ClrValue(node)
  ELSE TakeValue(node, WriteBoolean(b))

SetIntegerUlong(node, n) ==
  IF DefaultInteger(node) = <<WriteIntegerUlong(n)>> THEN ClrValue(node)
  ELSE TakeValue(node, WriteIntegerUlong(n))

SetIntegerRaw(node, p) ==
  IF p[1] >= 128 THEN node ELSE [TakeValue(node, p) EXCEPT !.unsigned = FALSE]

SetIntegerUsg(node, p) == [TakeValue(node, p) EXCEPT !.unsigned = TRUE]

SetEnumerated(node, name) ==
  TakeValue(node, WriteIntegerUlong(OptsNamed(node, "constant", name)[1].num))

SetBits(node, p, n_bits) == [TakeValue(node, p) EXCEPT !.empty = Empty(n_bits)]

SetBitsUlong(node, bits, n_bits) ==
  [TakeValue(node, UlongBits(bits, n_bits)) EXCEPT !.empty = Empty(n_bits)]

SetOid(node, oid) ==
  LET p == WriteObjectId(oid) IN IF p = <<>> THEN node ELSE TakeValue(node, p[1])

SetNull(node) == TakeValue(node, <<>>)

SetChoice(node, i) ==
  [node EXCEPT !.kids = [k \in DOMAIN node.kids |-> [node.kids[k] EXCEPT !.chosen = k = i]]]

SetAnyFrom(node, from) == [node EXCEPT !.parsed = <<MaybeExplicit(node, Build(from, TRUE)[1])>>]

SetAnyRaw(node, raw) ==
  LET r == ParseDer(raw) IN
  IF r.ok THEN [node EXCEPT !.parsed = <<MaybeExplicit(node, r.tlv)>>] ELSE node

AppendItem(node) == [node EXCEPT !.kids = Append(@, ClrValue(Clone(@[1])))]

(* What a setter may make of a node. *)
Settings(node) ==
  CASE node.def.type = "boolean" -> {SetBoolean(node, b) : b \in BOOLEAN}
    [] node.def.type = "integer" -> {SetIntegerUlong(node, n) : n \in Numbers}
                                    \cup {SetIntegerRaw(node, p) : p \in Blobs}
                                    \cup {SetIntegerUsg(node, p) : p \in Blobs}
    [] node.def.type = "enumerated" ->
         {SetEnumerated(node, o.name) : o \in {x \in Range(node.opts) : x.type = "constant"}}
    [] node.def.type = "bit string" -> {SetBits(node, p, 8 * Len(p) - 3) : p \in Blobs}
                                       \cup {SetBitsUlong(node, n, 9) : n \in Numbers}
    [] node.def.type \in Strings -> {TakeValue(node, p) : p \in Blobs}
    [] node.def.type = "object id" -> {SetOid(node, <<1, 2, n>>) : n \in Numbers}
    [] node.def.type = "null" -> {SetNull(node)}
    [] node.def.type = "choice" -> {SetChoice(node, i) : i \in DOMAIN node.kids}
    [] node.def.type = "any" ->
         {SetAnyFrom(node, TakeValue(Create(Table, AnyName), p)) : p \in Blobs}
         \cup {SetAnyRaw(node, <<5, 0>>)}
    [] node.def.type \in ListTypes /\ Len(node.kids) < MaxItems -> {AppendItem(node)}
    [] OTHER -> {}

RECURSIVE Changes(_)
(* The trees one call makes of a tree. *)
Changes(node) ==
  Settings(node) \cup UNION {{[node EXCEPT !.kids[i] = k] : k \in Changes(node.kids[i])} :
                               i \in DOMAIN node.kids}

----------------------------------------------------------------------------
(* Decoding and encoding a tree *)

DecodeInto(node, p) == IF ~p.ok THEN Fail(node) ELSE Checked(DecodeAnything(<<node>>, <<p.tlv>>))
DecodeFull(node, d) == DecodeInto(Clear(node), ParseDer(d))

(* "invalid", "aborts" or "ok" with the bytes. *)
EncodedAs(w) == [status |-> IF w.ok THEN "ok" ELSE "aborts", bytes |-> w.bytes]
EncodeTree(node) ==
  IF ~Validate(node) THEN [status |-> "invalid", bytes |-> <<>>] ELSE EncodedAs(Written(Build(node, TRUE)[1]))

(* The type of a tree, and a tree of the same type that holds nothing. *)
Type(node) == node.def.name
Fresh(type) == Create(Table, type)

Init ==
  /\ asn \in {Fresh(type) : type \in DOMAIN MaxOps}
  /\ ops = 0
  /\ \/ stage \in {"fill", "raw", "time"} /\ data = <<>>
     \/ stage = "encoded" /\ data \in Documents[Type(asn)]

Set ==
  /\ stage = "fill"
  /\ ops < MaxOps[Type(asn)]
  /\ asn' \in Changes(asn)
  /\ ops' = ops + 1
  /\ UNCHANGED <<data, stage>>

(* A tree whose encoding would abort is not encoded. *)
Encode ==
  /\ stage = "fill"
  /\ \E e \in {EncodeTree(asn)} : e.status = "ok" /\ data' = e.bytes
  /\ stage' = "encoded"
  /\ UNCHANGED <<asn, ops>>

(* What is received is not what was sent. *)
Change ==
  /\ stage = "encoded"
  /\ \E i \in DOMAIN data, b \in Spoilers :
       data' \in {[data EXCEPT ![i] = b], RemoveAt(data, i), InsertAt(data, i, b)}
  /\ stage' = "changed"
  /\ UNCHANGED <<asn, ops>>

(* The same tree is cleared and filled in again. *)
Decode ==
  /\ stage \in {"encoded", "changed"}
  /\ \E r \in {DecodeFull(asn, data)} : asn' = r.node /\ stage' = IF r.ok THEN "decoded" ELSE "failed"
  /\ UNCHANGED <<data, ops>>

ClearAll ==
  /\ stage \in {"decoded", "failed"}
  /\ asn' = Clear(asn)
  /\ data' = <<>>
  /\ stage' = "cleared"
  /\ UNCHANGED ops

Receive ==
  /\ stage = "raw"
  /\ Len(data) < MaxLen
  /\ \E b \in Alphabet : data' = Append(data, b)
  /\ UNCHANGED <<asn, ops, stage>>

ReceiveTime ==
  /\ stage = "time"
  /\ ops < MaxLen
  /\ \E p \in TimePieces : data' = data \o p
  /\ ops' = ops + 1
  /\ UNCHANGED <<asn, stage>>

Next == Set \/ Encode \/ Change \/ Decode \/ ClearAll \/ Receive \/ ReceiveTime
Spec == Init /\ [][Next]_vars

----------------------------------------------------------------------------
(* Properties *)

RECURSIVE Minimal(_), Definite(_), Tiles(_), View(_), Nodes(_)

(* A TLV with the shortest header, and so are those inside it. *)
Minimal(t) ==
  /\ t.len >= 0
  /\ t.decoded # <<>> => SubSeq(t.decoded[1], 1, t.off) = UnparseClsTagLen(t.cls, t.tag, t.len)
  /\ \A i \in DOMAIN t.kids : Minimal(t.kids[i])

Definite(t) == t.len >= 0 /\ \A i \in DOMAIN t.kids : Definite(t.kids[i])

(* The TLVs inside one follow each other and fill it. *)
Tiles(t) ==
  LET inside == FlattenSeq([i \in DOMAIN t.kids |-> t.kids[i].decoded[1]])
      content == SubSeq(t.decoded[1], t.off + 1, Len(t.decoded[1]))
  IN  /\ IsStructured(t.cls) => IsPrefix(inside, content)
      /\ Definite(t) => /\ Len(content) = t.len
                        /\ IsStructured(t.cls) => inside = content
      /\ \A i \in DOMAIN t.kids : Tiles(t.kids[i])

(* Whatever bytes arrive, what atlv_parse_der makes of them accounts for   *)
(* all of them: TLVs of definite length tile the one they are in, and what *)
(* atlv_unparse_der writes for a TLV with the shortest headers is what was *)
(* read, without failing an assertion.                                     *)
TlvsTile ==
  stage \in {"raw", "encoded", "changed"} => \A r \in {ParseDer(data)} : r.ok =>
    /\ r.tlv.decoded[1] = data
    /\ Tiles(r.tlv)
    /\ Minimal(r.tlv) => UnparseDer(r.tlv) = [ok |-> TRUE, bytes |-> data]

Nodes(node) == {node} \cup UNION {Nodes(node.kids[i]) : i \in DOMAIN node.kids}

(* The number an integer stands for: its sign and its bytes. *)
Number(node) ==
  LET usg == GetIntegerUsg(node) IN
  IF node.value = <<>> THEN DefaultInteger(node)
  ELSE IF usg # <<>> THEN <<StripZeros(usg[1])>>
  ELSE <<<<-1>> \o GetIntegerRaw(node)[1]>>

(* The items of a SET OF have no order of their own. *)
AsBag(s) == [v \in Range(s) |-> Cardinality({i \in DOMAIN s : s[i] = v})]

(* What the getters tell of a tree. *)
View(node) ==
  CASE node.def.type = "boolean" -> GetBoolean(node)
    [] node.def.type = "integer" -> Number(node)
    [] node.def.type = "enumerated" -> GetEnumerated(node)
    [] node.def.type = "bit string" -> <<GetBitsUlong(node), IF node.value = <<>> THEN <<>>
                                          ELSE <<ClearBits(node.value[1], node.empty)>>>>
    [] node.def.type \in Strings -> GetStringRaw(node)
    [] node.def.type = "object id" -> GetOid(node)
    [] node.def.type = "choice" ->
         IF Chosen(node) = 0 THEN <<0>> ELSE <<Chosen(node), View(node.kids[Chosen(node)])>>
    [] node.def.type = "any" -> IF node.parsed = <<>> THEN <<>> ELSE <<GetAnyRaw(node).bytes>>
    [] node.def.type = "sequence of" -> [i \in DOMAIN Items(node) |-> View(Items(node)[i])]
    [] node.def.type = "set of" -> AsBag([i \in DOMAIN Items(node) |-> View(Items(node)[i])])
    [] node.def.type \in {"sequence", "set"} -> [i \in DOMAIN node.kids |-> View(node.kids[i])]
    [] OTHER -> node.value

InOnePiece(node) == node.def.type \in Strings /\ node.parsed # <<>> => node.value # <<>>
AnyIsDer(node) == node.def.type = "any" /\ node.parsed # <<>> => Minimal(node.parsed[1])
FewItems(node) == node.def.type = "set of" => Len(Items(node)) < 2

(* What the writer of a gulong writes whole and the reader reads: no byte  *)
(* of the number is zero, and it is an int.                                *)
Readable(n) == 0 \notin Range(Digits(n, 256)) /\ n < 128 * 256 ^ (IntBytes - 1)

(* What a setter puts into an element is what its getter returns, but for  *)
(* numbers that are not read as they were written.                         *)
SettersRead ==
  stage = "fill" => \A node \in Nodes(asn) :
    CASE node.def.type = "boolean" -> \A b \in BOOLEAN : GetBoolean(SetBoolean(node, b)) = <<b>>
      [] node.def.type = "integer" ->
           /\ \A n \in Probes : Readable(n) => GetIntegerUlong(SetIntegerUlong(node, n)) = {n}
           /\ \A p \in Blobs : GetIntegerUsg(SetIntegerUsg(node, p)) = <<p>>
           /\ \A p \in Blobs : p[1] < 128 => GetIntegerRaw(SetIntegerRaw(node, p)) = <<p>>
      [] node.def.type = "enumerated" ->
           \A o \in Range(node.opts) : GetEnumerated(SetEnumerated(node, o.name)) = {o.name}
      [] node.def.type = "bit string" ->
           /\ \A p \in Blobs : GetBits(SetBits(node, p, 8 * Len(p) - 3)) = <<8 * Len(p) - 3, p>>
           /\ \A n \in Probes : GetBitsUlong(SetBitsUlong(node, n, 9)) = {n % 512}
      [] node.def.type \in Strings -> \A p \in Blobs : GetStringRaw(TakeValue(node, p)) = <<p>>
      [] node.def.type = "object id" ->
           \A n \in Probes : n < 128 ^ 2 => GetOid(SetOid(node, <<1, 2, n>>)) = {<<1, 2, n>>}
      [] node.def.type = "choice" -> \A i \in DOMAIN node.kids : Chosen(SetChoice(node, i)) = i
      [] OTHER -> TRUE

(* A tree that egg_asn1x_validate accepts can be encoded: no assertion of  *)
(* the writer fails, but for a SET OF several and an ANY that was not DER. *)
(* What was set or decoded is what a reader of the encoding gets: the      *)
(* getters tell the same of the tree and of the tree decoded from its      *)
(* encoding, but for strings that came in pieces, which are not encoded.   *)
RoundTrip ==
  stage \in {"fill", "decoded", "cleared"} => \A e \in {EncodeTree(asn)} :
    /\ (\A n \in Nodes(asn) : AnyIsDer(n) /\ FewItems(n)) => e.status # "aborts"
    /\ stage # "cleared" /\ e.status = "ok" /\ (\A n \in Nodes(asn) : InOnePiece(n)) =>
         \A r \in {DecodeFull(Fresh(Type(asn)), e.bytes)} : r.ok /\ View(r.node) = View(asn)

(* The value read from any bytes is written back as those bytes, where the *)
(* encoding has one form and the writers have no defect.                   *)
ValuesReadBack ==
  stage = "raw" /\ data # <<>> =>
    LET oids == ReadObjectId(data)
        bits == DecodeBits(data)
        ints == ReadIntegerUlong(data)
        zeros == {i \in DOMAIN data : data[i] = 0}
    IN  /\ Last(data) < 128 /\ Len(data) > 1 /\ Len(data) <= 3 =>
             \A oid \in oids : WriteObjectId(oid) = <<data>>
        /\ bits # <<>> => <<bits[1]>> \o ClearBits(bits[2], bits[1]) = data
        /\ Len(data) <= IntBytes /\ data[1] < 128 /\ zeros = {} =>
             \A n \in ints : WriteIntegerUlong(n) = data

TwoDigits(n) == <<48 + (n \div 10), 48 + (n % 10)>>
Rendered(f) == FlattenSeq([i \in 1..6 |-> TwoDigits(f[i] % 100)])

(* A time that is accepted has the fields its digits say, a year around    *)
(* this one, and the same answer whatever bytes follow it in the data      *)
(* when its digits are followed by a zone.                                 *)
TimesRead ==
  stage = "time" => \A t \in {ReadTime(UtcTime, data, <<>>, ThisYear)} : t # <<>> =>
    /\ IsPrefix(SubSeq(data, 1, DigitRun(data, <<>>)), Rendered(t[1].fields))
    /\ DigitRun(data, <<>>) > 0 => t[1].fields[1] \in (ThisYear - 60)..(ThisYear + 99)
    /\ Last(data) \notin Digit => ReadTime(UtcTime, data, <<48>>, ThisYear) = t
=============================================================================
