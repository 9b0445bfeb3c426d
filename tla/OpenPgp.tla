------------------------------- MODULE OpenPgp -------------------------------
(***************************************************************************)
(* gcr-openpgp.c: packets, their records, and blocks of packets.  The       *)
(* framing is over bytes; what is inside a packet is a record               *)
(*   [type, from, to, ok, ...]                                              *)
(* with ok FALSE for contents that end too soon.  Times are below Word,     *)
(* for 2^32 in the code.  No key id is "none".                              *)
(***************************************************************************)
EXTENDS Integers, Sequences, SequencesExt

CONSTANTS Now,      \* time (NULL)
          Word,     \* what a guint wraps at
          Day       \* 86400

-----------------------------------------------------------------------------
(* Framing.  A reader returns <<>> or <<[at, len]>>, at the next byte to read. *)

\* A length that needs more than two of its four bytes is longer than any data.
Long == 65536
Uint(d, at, n) ==
    IF n = 4 /\ (d[at] # 0 \/ d[at + 1] # 0) THEN Long
    ELSE IF n = 1 THEN d[at] ELSE 256 * d[at + n - 2] + d[at + n - 1]

\* read_byte, read_bytes, read_uint16 and read_uint32, as a length.
ReadUint(d, at, n) == IF at + n > Len(d) + 1 THEN <<>> ELSE <<[at |-> at + n, len |-> Uint(d, at, n)]>>

\* read_new_length: partial lengths are not supported.
ReadNewLength(d, at) ==
    LET c == ReadUint(d, at, 1)
        c1 == ReadUint(d, at + 1, 1)
    IN  IF c = <<>> \/ c[1].len < 192 THEN c
        ELSE IF c[1].len <= 223
             THEN IF c1 = <<>> THEN <<>> ELSE <<[at |-> at + 2, len |-> 256 * (c[1].len - 192) + c1[1].len + 192]>>
             ELSE IF c[1].len = 255 THEN ReadUint(d, at + 1, 4) ELSE <<>>

\* read_old_length: the last kind reaches to the end of the data.
ReadOldLength(d, at, ctb) ==
    CASE ctb % 4 = 0 -> ReadUint(d, at, 1)
      [] ctb % 4 = 1 -> ReadUint(d, at, 2)
      [] ctb % 4 = 2 -> ReadUint(d, at, 4)
      [] OTHER -> <<[at |-> at, len |-> Len(d) + 1 - at]>>

\* read_openpgp_packet: <<>>, or the packet's type and extent.
ReadPacket(d, beg) ==
    LET ctb == d[beg]
        type == IF ctb >= 192 THEN ctb % 64 ELSE (ctb % 64) \div 4
        l == IF ctb >= 192 THEN ReadNewLength(d, beg + 1) ELSE ReadOldLength(d, beg + 1, ctb)
    IN  IF ctb < 128 \/ l = <<>> THEN <<>>
        ELSE IF l[1].at + l[1].len > Len(d) + 1 THEN <<>>
        ELSE <<[type |-> type, from |-> beg, body |-> l[1].at, to |-> l[1].at + l[1].len]>>

RECURSIVE ReadPackets(_, _)

\* The packets of the data in order, until one cannot be read.
ReadPackets(d, at) ==
    IF at > Len(d) THEN <<>>
    ELSE LET p == ReadPacket(d, at) IN IF p = <<>> THEN <<>> ELSE p \o ReadPackets(d, p[1].to)

\* read_mpi: the place after it, or 0.
ReadMpi(d, at) ==
    LET bits == ReadUint(d, at, 2)
        bytes == (bits[1].len + 7) \div 8
    IN  IF bits = <<>> THEN 0 ELSE IF bytes = 0 \/ at + 2 + bytes > Len(d) + 1 THEN 0 ELSE at + 2 + bytes

-----------------------------------------------------------------------------
(* Records *)

Upper(c) == CASE c = "s" -> "S" [] c = "c" -> "C" [] c = "e" -> "E" [] c = "a" -> "A" [] OTHER -> c

DefaultCaps(algo) ==
    CASE algo = "rsa" -> {"c", "s", "e"} [] algo \in {"rsa-e", "elg"} -> {"e"}
      [] algo = "rsa-s" -> {"s"} [] algo = "dsa" -> {"s", "c", "a"} [] OTHER -> {}

\* parse_public_key_or_subkey, parse_secret_key_or_subkey: version 3 keys may have
\* days; a primary key of version 4 has a fingerprint record too.
KeyRecords(schema, p) ==
    LET secret == schema \in {"sec", "ssb"}
        key == [schema |-> schema, keyid |-> p.keyid, stamp |-> p.stamp,
                expiry |-> IF p.version < 4 /\ p.days > 0 THEN p.stamp + p.days * Day ELSE 0,
                caps |-> IF secret THEN {} ELSE DefaultCaps(p.algo), trust |-> "", owner |-> ""]
    IN  IF ~p.ok \/ p.version \notin 2..4 \/ (p.version = 4 /\ DefaultCaps(p.algo) = {}) THEN <<>>
        ELSE IF p.version = 4 /\ schema \in {"pub", "sec"}
             THEN <<key, [schema |-> "fpr", keyid |-> p.keyid]>> ELSE <<key>>

\* parse_user_id.
UserId(p) == <<[schema |-> "uid", stamp |-> 0, trust |-> ""]>>

\* parse_user_attribute, parse_user_attribute_packet: a record for each part, if
\* they are asked for, even when a later one cannot be read.
UserAttribute(p, flags) ==
    (IF "attributes" \in flags THEN [i \in DOMAIN p.parts |-> [schema |-> "xa1", trust |-> ""]] ELSE <<>>)
    \o (IF p.ok THEN <<[schema |-> "uat", stamp |-> 0, trust |-> ""]>> ELSE <<>>)

\* hash_user_id_or_attribute: the assertion that there is something to hash, in an
\* empty user id, an attribute without parts, or a part without contents that is
\* asked for.
Aborts(p, flags) ==
    \/ p.type = "userid" /\ p.empty
    \/ p.type = "attribute" /\ p.ok /\ p.parts = <<>>
    \/ p.type = "attribute" /\ "attributes" \in flags /\ "empty" \in ToSet(p.parts)

\* parse_v4_signature_subpacket: what a subpacket adds to the signature, which
\* fails on one that ends too soon or is critical and not known.
Subpacket(sig, s) ==
    IF ~sig.ok \/ ~s.ok \/ (s.kind = "unknown" /\ s.critical) THEN [sig EXCEPT !.ok = FALSE]
    ELSE CASE s.kind = "creation" -> [sig EXCEPT !.stamp = s.value]
           [] s.kind = "issuer" -> [sig EXCEPT !.keyid = s.value]
           [] s.kind = "key-expiry" -> [sig EXCEPT !.keyExpiry = s.value]
           [] s.kind = "exportable" -> [sig EXCEPT !.exportable = s.value]
           [] s.kind = "key-flags" -> [sig EXCEPT !.flags = s.value]
           [] s.kind = "revocation-key" -> [sig EXCEPT !.revocation = TRUE]
           [] OTHER -> sig

\* parse_v4_signature_subpackets, over the hashed ones and then the others.
Subpackets(p) ==
    FoldLeft(Subpacket, [ok |-> p.ok, stamp |-> 0, keyid |-> "none", keyExpiry |-> 0, exportable |-> TRUE,
                         flags |-> {}, revocation |-> FALSE], p.subs)

Certification(t) == t \in {16, 17, 18, 19}
Binding(t) == t \in {24, 25}

LastOf(records, schemas) ==
    SelectLastInSeq(records, LAMBDA r : r.schema \in schemas)

\* Mutant: whoever signed.
KeyForAnyone(records, t, keyid) ==
    LET i == LastOf(records, {"pub", "sec"}) IN
    IF Certification(t) THEN i
    ELSE IF Binding(t) /\ records # <<>> /\ Last(records).schema = "sub" THEN Len(records) ELSE 0

\* key_or_sub_find_for_self_signature: the place of the record, or 0.
KeyFor(records, t, keyid) ==
    LET i == LastOf(records, {"pub", "sec"}) IN
    IF Certification(t) THEN IF i # 0 /\ records[i].keyid = keyid THEN i ELSE 0
    ELSE IF Binding(t) /\ records # <<>> /\ Last(records).schema = "sub" THEN Len(records) ELSE 0

\* uid_or_uat_find_for_self_signature.
UidFor(records, t) ==
    IF Certification(t) /\ records # <<>> /\ Last(records).schema \in {"uid", "uat"} THEN Len(records) ELSE 0

\* pub_or_sub_set_key_caps: of the flags, those that are capabilities.
KeyCaps(record, flags) ==
    IF record.schema \in {"sec", "ssb"} THEN record ELSE [record EXCEPT !.caps = flags \cap {"s", "c", "e", "a"}]

\* What a signature says of the key at k, and of the user id at u: when it expires,
\* what it is for, when it was made; one that does not say when counts as made at 0.
Aged(records, k, sig) ==
    IF k # 0 /\ sig.keyExpiry # 0 THEN [records EXCEPT ![k].expiry = records[k].stamp + sig.keyExpiry] ELSE records
Able(records, k, sig) ==
    IF k # 0 /\ sig.flags # {} THEN [records EXCEPT ![k] = KeyCaps(@, sig.flags)] ELSE records
Dated(records, u, sig) == IF u # 0 THEN [records EXCEPT ![u].stamp = sig.stamp] ELSE records

SaidOf(k, t, sig, records) ==
    Dated(Able(Aged(records, k, sig), k, sig),
          IF k # 0 /\ records[k].schema = "pub" THEN UidFor(records, t) ELSE 0, sig)
Said(t, sig, records) == SaidOf(KeyFor(records, t, sig.keyid), t, sig, records)

\* parse_v4_signature, after the subpackets: what it says of the key and of the
\* user id before it, and its own record if signatures are asked for.
SignatureWith(sig, t, flags, before) ==
    IF ~sig.ok THEN before
    ELSE Said(t, sig, IF sig.revocation THEN Append(before, [schema |-> "rvk", trust |-> ""]) ELSE before)
         \o (IF "signatures" \notin flags THEN <<>>
             ELSE <<[schema |-> "sig", keyid |-> sig.keyid, class |-> t, exportable |-> sig.exportable]>>)
Signature(p, flags, before) == SignatureWith(Subpackets(p), p.sigtype, flags, before)

\* parse_v3_signature.
SignatureV3(p, flags, before) ==
    IF p.ok /\ "signatures" \in flags
    THEN Append(before, [schema |-> "sig", keyid |-> p.keyid, class |-> p.sigtype, exportable |-> TRUE])
    ELSE before

\* parse_openpgp_packet: the records after a packet; that it failed is ignored.
PacketRecords(p, flags, records) ==
    CASE p.type = "pubkey" -> records \o KeyRecords("pub", p)
      [] p.type = "pubsub" -> records \o KeyRecords("sub", p)
      [] p.type = "seckey" -> records \o KeyRecords("sec", p)
      [] p.type = "secsub" -> records \o KeyRecords("ssb", p)
      [] p.type = "userid" -> records \o UserId(p)
      [] p.type = "attribute" -> records \o UserAttribute(p, flags)
      [] p.type = "sig" -> IF p.version = 4 THEN Signature(p, flags, records)
                           ELSE IF p.version = 3 THEN SignatureV3(p, flags, records) ELSE records
      [] OTHER -> records

-----------------------------------------------------------------------------
(* Normalizing the records of a key *)

\* normalize_capabilities: the first record's, and in upper case those of all keys.
NormalizeCaps(records) ==
    [records EXCEPT ![1].caps = @ \cup {Upper(c) : c \in
       UNION {records[i].caps : i \in {j \in DOMAIN records : records[j].schema \in {"pub", "sub"}}}}]

\* check_key_expiry: the expiry is read back as a guint.
Expired(record) == record.expiry % Word # 0 /\ Now > record.expiry % Word

\* The trust of all records but signatures and fingerprints.
Trusted(records, expired) ==
    [i \in DOMAIN records |->
       IF records[i].schema \notin {"sig", "fpr"} /\ (expired \/ records[i].trust = "")
       THEN [records[i] EXCEPT !.trust = IF expired THEN "e" ELSE "o"] ELSE records[i]]

\* normalize_key_records.
Normalize(records) ==
    IF records = <<>> \/ records[1].schema # "pub" THEN records
    ELSE Trusted([(IF Expired(records[1]) THEN records ELSE NormalizeCaps(records)) EXCEPT ![1].owner = "o"],
                 Expired(records[1]))

-----------------------------------------------------------------------------
(* _gcr_openpgp_parse: the closure is [records, block, blocks]; aborted says that the *)
(* process is gone.                                                                    *)

\* maybe_emit_openpgp_block.
Emit(c, end) ==
    IF c.block = 0 \/ c.block = end THEN c
    ELSE [c EXCEPT !.blocks = Append(@, [from |-> c.block, to |-> end, records |-> c.records]),
                   !.records = <<>>]

IsKey(p) == p.type \in {"pubkey", "seckey"}

\* A block begins: the one before it is emitted, normalized if it is a key.
Started(c, p) == [Emit(c, p.from) EXCEPT !.block = p.from]
Normalized(c) == [c EXCEPT !.records = Normalize(@)]
Begun(c, p, flags) ==
    IF "keys" \notin flags THEN Started(c, p) ELSE IF IsKey(p) THEN Started(Normalized(c), p) ELSE c

Recorded(c, p, flags) ==
    IF "no-records" \in flags THEN c
    ELSE IF Aborts(p, flags) THEN [c EXCEPT !.aborted = TRUE]
    ELSE [c EXCEPT !.records = PacketRecords(p, flags, @)]
ParseStep(c, p, flags) == IF c.aborted THEN c ELSE Recorded(Begun(c, p, flags), p, flags)

\* The loop, and its end: when a packet could not be read, what was there is
\* emitted as it is; otherwise the last key is normalized first.
Ended(c, stop, failed, flags) ==
    IF c.aborted THEN c ELSE Emit(IF ~failed /\ "keys" \in flags THEN Normalized(c) ELSE c, stop)
Parse(packets, stop, failed, flags) ==
    Ended(FoldLeft(LAMBDA c, p : ParseStep(c, p, flags),
                   [records |-> <<>>, block |-> 0, blocks |-> <<>>, aborted |-> FALSE], packets),
          stop, failed, flags)

-----------------------------------------------------------------------------
\* The packets read from any bytes follow one another from the first byte, each
\* inside the data, with its contents after its header; reading stops only where
\* no packet can be read.
PacketsTile(d) ==
    LET ps == ReadPackets(d, 1)
        stop == IF ps = <<>> THEN 1 ELSE Last(ps).to
    IN  /\ \A i \in DOMAIN ps : /\ ps[i].from = (IF i = 1 THEN 1 ELSE ps[i - 1].to)
                                /\ ps[i].from < ps[i].body /\ ps[i].body <= ps[i].to /\ ps[i].to <= Len(d) + 1
        /\ stop <= Len(d) => ReadPacket(d, stop) = <<>>
        /\ \A i \in DOMAIN d : ReadMpi(d, i) # 0 => ReadMpi(d, i) > i + 2 /\ ReadMpi(d, i) <= Len(d) + 1

PacketsOf(b, packets) == SelectSeq(packets, LAMBDA p : p.from >= b.from /\ p.from < b.to)

\* The version 4 signatures among some packets that speak of a key.
SignaturesOf(of, keyid) ==
    {g \in {Subpackets(p) : p \in {q \in ToSet(of) : q.type = "sig" /\ q.version = 4 /\ Certification(q.sigtype)}} :
       g.ok /\ g.keyid = keyid}
Bindings(of) ==
    {g \in {Subpackets(p) : p \in {q \in ToSet(of) : q.type = "sig" /\ q.version = 4 /\ Binding(q.sigtype)}} : g.ok}

Lower == {"s", "c", "e", "a"}

\* The capabilities a key has by its algorithm or by one of some signatures, in
\* lower case, and in upper case with those of the subkeys of its block.
Stated(of, type, keyid, signatures) ==
    {DefaultCaps(p.algo) : p \in {q \in ToSet(of) : q.type = type /\ q.keyid = keyid}}
    \cup {g.flags \cap Lower : g \in {h \in signatures : h.flags # {}}}

\* What the record of a key says, from the packets of its block.
KeyIsOwn(r, records, of, cut) ==
    /\ \E p \in ToSet(of) : IsKey(p) /\ p.keyid = r.keyid
    /\ \/ r.expiry = KeyRecords("pub", of[1])[1].expiry
       \/ \E g \in SignaturesOf(of, r.keyid) : r.expiry = r.stamp + g.keyExpiry
    /\ ~cut /\ r.expiry < Word => ((r.trust = "e") <=> (r.expiry > 0 /\ r.expiry < Now))
    /\ r.caps \cap Lower \in Stated(of, "pubkey", r.keyid, SignaturesOf(of, r.keyid))
    /\ r.caps \ Lower \subseteq {Upper(c) : c \in (r.caps \cap Lower)
                                   \cup UNION {b.caps : b \in {x \in ToSet(records) : x.schema = "sub"}}}
SubkeyIsOwn(r, of) == r.caps \in Stated(of, "pubsub", r.keyid, Bindings(of))

RecordsAreOwn(records, of, cut, flags) ==
    /\ \A alone \in {FoldLeft(LAMBDA r, p : PacketRecords(p, flags, r), <<>>, of)} :
         records = IF cut THEN alone ELSE Normalize(alone)
    /\ \A r \in ToSet(records) : /\ r.schema = "pub" => KeyIsOwn(r, records, of, cut)
                                 /\ r.schema = "sub" => SubkeyIsOwn(r, of)

\* Blocks are keys: each begins with a key packet, holds no other, and they cover
\* everything from the first key packet on to where reading stopped, or to the key
\* at which the process aborted.  The records of a block are those of its own
\* packets alone, but for what came before the first key, and normalized unless
\* reading stopped in it.  A key's expiry is that of its packet or of a signature by
\* itself in its own block; its capabilities are those of its algorithm or of such
\* a signature, joined by those of the subkeys of its block, and a subkey's are
\* those of its algorithm or of a binding signature in the block.
BlocksAreKeys(packets, stop, failed, flags) ==
    \A parsed \in {Parse(packets, stop, failed, flags)}, keys \in {SelectSeq(packets, IsKey)} :
        LET blocks == parsed.blocks IN
        "keys" \in flags =>
        /\ IF parsed.aborted THEN Len(blocks) <= Len(keys) ELSE Len(blocks) = Len(keys)
        /\ \A k \in DOMAIN blocks :
             /\ blocks[k].from = keys[k].from
             /\ blocks[k].to = (IF k = Len(keys) THEN stop ELSE keys[k + 1].from)
             /\ (k > 1 \/ IsKey(packets[1])) /\ "no-records" \notin flags =>
                  RecordsAreOwn(blocks[k].records, PacketsOf(blocks[k], packets), failed /\ k = Len(keys), flags)
=============================================================================
