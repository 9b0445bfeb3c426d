----------------------------- MODULE PublicKeys -----------------------------
(***************************************************************************)
(* gcr-subject-public-key.c: the public key of an object on a token, which  *)
(* may be a private key whose public part is another object, from what is   *)
(* kept with the object and what is asked of the token, while the token's   *)
(* objects are exchanged.  An attribute's value is <<key, part>>; those of  *)
(* a DSA key other than its value are one, "params".                        *)
(***************************************************************************)
EXTENDS Integers, Sequences, SequencesExt, FiniteSets

CONSTANTS
    Load,         \* calls of _gcr_subject_public_key_load and _load_async
    Kinds,        \* the objects there may be: <<class, type>>
    Keys,         \* the keys that may be in them
    MaxChanges    \* bound: times the objects are exchanged

VARIABLES
    kind,         \* <<class, type>> of the object
    hidden,       \* attributes the token does not show
    key,          \* whose attributes the object and its public key have now
    paired,       \* there is a public key with the object's id
    cached,       \* the object is a GckObjectCache
    cache,        \* what is kept with it
    load,         \* calls: [pc, builder, info]
    changes       \* counts exchanges

pvars == <<kind, hidden, key, paired, cached, cache, load, changes>>

Invalid == <<"none", "invalid">>
Basics == {"class", "type"}
Material(type) ==
    CASE type = "rsa" -> {"modulus", "exponent"} [] type = "dsa" -> {"params", "value"}
      [] type = "ec" -> {"params", "point"} [] type = "x509" -> {"value"} [] OTHER -> {}

\* What the token has for an object with class c: of a DSA key the value is the
\* secret or the public one, an EC private key has no point.
Has(c, k) ==
    LET type == kind[2]
        mine == (Basics \cup {"id", "sign"} \cup Material(type)) \ (IF c = "private" THEN {"point"} ELSE {})
    IN  [a \in mine |->
           CASE a = "class" -> <<k, c>> [] a = "type" -> <<k, type>>
             [] a = "value" -> <<k, IF c = "private" THEN "secret" ELSE IF c = "cert" THEN "cert" ELSE "public">>
             [] OTHER -> <<k, a>>]

\* gck_object_get_full: an attribute there is not, or not to see, is invalid.
Fetch(c, types) ==
    LET has == Has(c, key) IN [a \in types |-> IF a \in DOMAIN has \ hidden THEN has[a] ELSE Invalid]

\* gck_builder_set_all.
SetAll(b, attrs) == [a \in DOMAIN b \cup DOMAIN attrs |-> IF a \in DOMAIN attrs THEN attrs[a] ELSE b[a]]
Valid(b, types) == \A a \in types : a \in DOMAIN b /\ b[a] # Invalid

Class(b) == b["class"][2]
Type(b) == b["type"][2]

\* check_object_basics.
CheckBasics(b) == Valid(b, Basics) /\ Class(b) \in {"public", "private", "cert"}

\* check_attributes, check_x509_attributes, check_rsa_attributes,
\* check_dsa_attributes and check_ec_attributes.
CheckAttributes(b) == CheckBasics(b) /\ Material(Type(b)) # {} /\ Valid(b, Material(Type(b)))

Idle == [pc |-> "idle", builder |-> [a \in {} |-> Invalid], info |-> {}]
NoAttrs == [a \in {} |-> Invalid]

PInit ==
    /\ kind \in Kinds
    /\ key \in Keys
    /\ hidden \in {{}, {"value"}, {"exponent"}}
    /\ paired \in BOOLEAN /\ cached \in BOOLEAN
    /\ \E kept \in {{}, Basics, Basics \cup {"value"}, Basics \cup {"params", "value"}, {"modulus", "exponent"}} :
         cache = IF cached THEN [a \in kept \cap DOMAIN Has(kind[1], key) |-> Has(kind[1], key)[a]] ELSE NoAttrs
    /\ load = [l \in Load |-> Idle]
    /\ changes = 0

-----------------------------------------------------------------------------
\* The parts of the public key.  rsa_subject_public_key_from_attributes:
RsaFromAttributes(b) == {b["modulus"], b["exponent"]}

\* dsa_subject_public_key_from_private: the public value, computed from the
\* parameters and the secret one.
DsaFromPrivate(b) == IF b["value"][1] = b["params"][1] THEN <<b["value"][1], "public">> ELSE <<"none", "mixed">>

\* dsa_subject_public_key_from_attributes.
DsaFromAttributes(b) == {b["params"], IF Class(b) = "private" THEN DsaFromPrivate(b) ELSE b["value"]}

\* ec_subject_public_key_from_attributes.
EcFromAttributes(b) == {b["params"], b["point"]}

\* cert_subject_public_key_from_attributes: what the certificate says.
CertFromAttributes(b) == {b["value"]}

\* _gcr_subject_public_key_for_attributes.
ForAttributes(b) ==
    CASE Class(b) = "cert" -> CertFromAttributes(b)
      [] Type(b) = "rsa" -> RsaFromAttributes(b)
      [] Type(b) = "dsa" -> DsaFromAttributes(b)
      [] Type(b) = "ec" -> EcFromAttributes(b)

\* load_dsa_attributes, the end: what was read is the public key's.
DsaFromPublic(b, attrs) == [SetAll(b, attrs) EXCEPT !["class"] = <<"none", "public">>]

At(l, pc) == load[l].pc = pc
Goes(l, pc, b) == load' = [load EXCEPT ![l].pc = pc, ![l].builder = b]
Fails(l) == load' = [load EXCEPT ![l].pc = "failed"]

\* _gcr_subject_public_key_load_finish and the end of _gcr_subject_public_key_load.
Done(l, b) == load' = [load EXCEPT ![l].pc = "done", ![l].builder = b, ![l].info = ForAttributes(b)]

\* _gcr_subject_public_key_load, _load_async and lookup_attributes.
Start(l) ==
    /\ At(l, "idle")
    /\ IF CheckAttributes(cache) THEN Done(l, cache) ELSE Goes(l, "basics", cache)
    /\ UNCHANGED <<kind, hidden, key, paired, cached, cache, changes>>

\* gck_object_cache_lookup for the object itself: what is kept, all of it, after
\* the token was asked for what is missing.
Lookup(types, Then(_)) ==
    LET got == Fetch(kind[1], types) IN
    IF ~cached THEN Then(got) /\ UNCHANGED cache
    ELSE IF types \subseteq DOMAIN cache THEN Then(cache) /\ UNCHANGED cache
    ELSE cache' = SetAll(cache, got) /\ Then(SetAll(cache, got))

\* load_object_basics and load_attributes: what is to be read next.
NextStep(b) ==
    IF ~CheckBasics(b) \/ Material(Type(b)) = {} THEN "failed"
    ELSE IF Type(b) \in {"dsa", "ec"} /\ ~CheckAttributes(b) /\ Class(b) = "private" THEN "find"
    ELSE "fields"
LoadBasics(l) ==
    /\ At(l, "basics")
    /\ LET b == load[l].builder IN
       IF CheckBasics(b) THEN Goes(l, NextStep(b), b) /\ UNCHANGED cache
       ELSE Lookup(Basics, LAMBDA got : Goes(l, NextStep(SetAll(b, got)), SetAll(b, got)))
    /\ UNCHANGED <<kind, hidden, key, paired, cached, changes>>

\* load_rsa_attributes, load_x509_attributes, and load_dsa_attributes and
\* load_ec_attributes on an object that has the public key itself.
LoadFields(l) ==
    /\ At(l, "fields")
    /\ LET b == load[l].builder
           With(got) == LET n == IF Type(b) = "dsa" THEN DsaFromPublic(b, got) ELSE SetAll(b, got)
                        IN  IF CheckAttributes(n) THEN Done(l, n) ELSE Fails(l)
       IN  IF CheckAttributes(b) THEN Done(l, b) /\ UNCHANGED cache ELSE Lookup(Material(Type(b)), With)
    /\ UNCHANGED <<kind, hidden, key, paired, cached, changes>>

\* lookup_public_key: by the id, which may be kept.
FindPublic(l) ==
    /\ At(l, "find")
    /\ Lookup({"id"}, LAMBDA got :
         IF ~Valid(got, {"id"}) \/ ~paired \/ got["id"][1] # key THEN Fails(l)
         ELSE Goes(l, "public", load[l].builder))
    /\ UNCHANGED <<kind, hidden, key, paired, cached, changes>>

\* load_dsa_attributes and load_ec_attributes, from the public key.
LoadPublic(l) ==
    /\ At(l, "public")
    /\ LET b == load[l].builder
           got == Fetch("public", Material(Type(b)))
           n == IF Type(b) = "dsa" THEN DsaFromPublic(b, got) ELSE SetAll(b, got)
       IN  IF CheckAttributes(n) THEN Done(l, n) ELSE Fails(l)
    /\ UNCHANGED <<kind, hidden, key, paired, cached, cache, changes>>

\* A call to the token fails, or is cancelled.
LoadFails(l) ==
    /\ load[l].pc \in {"basics", "fields", "find", "public"}
    /\ Fails(l)
    /\ UNCHANGED <<kind, hidden, key, paired, cached, cache, changes>>

\* Another program puts another key into the objects.
Exchange(k) ==
    /\ changes < MaxChanges /\ k # key
    /\ key' = k /\ changes' = changes + 1
    /\ UNCHANGED <<kind, hidden, paired, cached, cache, load>>

PNext ==
    \/ \E l \in Load : Start(l) \/ LoadBasics(l) \/ LoadFields(l) \/ FindPublic(l) \/ LoadPublic(l) \/ LoadFails(l)
    \/ \E k \in Keys : Exchange(k)

-----------------------------------------------------------------------------
(* The size of a key in bits.  A public key is [type, bytes, high, curve]: the *)
(* length of its modulus or prime, whether its highest bit is set, its curve.  *)

\* named_curve_size, gost_curve_size; 0 for the others.
CurveSize ==
    [secp192r1 |-> 192, sect163k1 |-> 163, sect163r2 |-> 163, secp224r1 |-> 224, sect233k1 |-> 233,
     sect233r1 |-> 233, secp256r1 |-> 256, sect283k1 |-> 283, sect283r1 |-> 283, secp384r1 |-> 384,
     sect409k1 |-> 409, sect409r1 |-> 409, secp521r1 |-> 521, secp571k1 |-> 571, sect571r1 |-> 571]
GostCurveSize ==
    [c \in {"test", "cryptopro-a", "cryptopro-b", "cryptopro-c", "cryptopro-xcha", "cryptopro-xchb",
            "gc256a", "gc256b", "gc256c", "gc256d"} |-> 256]
    @@ [c \in {"512-test", "gc512a", "gc512b", "gc512c"} |-> 512]
SizeIn(sizes, curve) == IF curve \in DOMAIN sizes THEN sizes[curve] ELSE 0

\* calculate_rsa_key_size, calculate_dsa_params_size: of the integer, which has a
\* byte more when the highest bit is set, without the complement.
IntegerSize(n, high) == ((IF high THEN n + 1 ELSE n) \div 2) * 2 * 8

\* attributes_rsa_key_size, attributes_dsa_key_size: of the attribute, or else what
\* the attribute with the number of bits says.
NumberSize(n, bits) == IF n # 0 THEN (n \div 2) * 2 * 8 ELSE bits

\* _gcr_subject_public_key_calculate_size.
CalculateSize(k) ==
    CASE k.type \in {"rsa", "dsa"} -> IntegerSize(k.bytes, k.high)
      [] k.type = "ec" -> SizeIn(CurveSize, k.curve)
      [] k.type \in {"gost2001", "gost2012-256", "gost2012-512"} -> SizeIn(GostCurveSize, k.curve)
      [] OTHER -> 0

\* _gcr_subject_public_key_attributes_size, attributes_ec_params_size.
AttributesSize(k, bits) ==
    CASE k.type \in {"rsa", "dsa"} -> NumberSize(k.bytes, bits)
      [] k.type = "ec" -> SizeIn(CurveSize, k.curve)
      [] OTHER -> 0

\* Both ways to find the size of a key agree, on keys of whole words.
SizesAgree ==
    \A type \in {"rsa", "dsa", "ec", "other"}, n \in {2, 4, 8}, high \in BOOLEAN,
       curve \in DOMAIN CurveSize \cup {"unknown"} :
        LET k == [type |-> type, bytes |-> n, high |-> high, curve |-> curve]
        IN  AttributesSize(k, 0) = CalculateSize(k)

-----------------------------------------------------------------------------
\* A public key that was loaded is a public key: never the secret value of a DSA
\* key; all its parts are of one key, whatever was kept with the object and however
\* often the objects were exchanged meanwhile; and it is the object's key if they
\* were not.  Both ways to find the size of a key agree.
PublicKeyRight ==
    /\ \A l \in Load : At(l, "done") =>
         /\ \A p \in load[l].info : p[2] # "secret" /\ p # Invalid
         /\ \E k \in Keys : \A p \in load[l].info : p[1] = k
         /\ changes = 0 => load[l].info = {<<key, a>> : a \in
              CASE kind[2] = "dsa" -> {"params", "public"} [] kind[2] = "x509" -> {"cert"} [] OTHER -> Material(kind[2])}
    /\ SizesAgree
=============================================================================
