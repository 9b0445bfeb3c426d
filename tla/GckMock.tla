------------------------------- MODULE GckMock -------------------------------
(****************************************************************************)
(* The mock PKCS#11 module of src/gck/gck-mock.c.  Its global variables are *)
(* one record; a C_ function is an operator from the record and its         *)
(* arguments to what it returns: the record it leaves, the CK_RV and what   *)
(* it hands out.                                                            *)
(* PKCS#11 attributes as the rest of the code reads them: the lookup        *)
(* functions of src/gck/gck-attributes.c and the conversions and matches of *)
(* src/gck/gck-misc.c.  A value is its size in bytes and a number that says *)
(* what it is; a value of size 0 is a NULL pointer.                         *)
(****************************************************************************)
EXTENDS Integers, Sequences, FiniteSets, FiniteSetsExt, SequencesExt, Functions, TLC

BoolSize == 1      \* sizeof (CK_BBOOL)
UlongSize == 8     \* sizeof (CK_ULONG)

Value(size, is) == [size |-> size, is |-> is]
Null == Value(0, 0)

Attr(t, v) == [type |-> t, value |-> v, invalid |-> FALSE]
InvalidAttr(t) == [type |-> t, value |-> Null, invalid |-> TRUE]
Boolean(t, b) == Attr(t, Value(BoolSize, IF b THEN 1 ELSE 0))
Ulong(t, n) == Attr(t, Value(UlongSize, n))

\* find_attribute: the first of the type, as a sequence of one or none.
Find(attrs, t) ==
    LET hits == {i \in DOMAIN attrs : attrs[i].type = t}
    IN  IF hits = {} THEN <<>> ELSE <<attrs[Min(hits)]>>

Has(attrs, t) == Find(attrs, t) # <<>>

\* What a lookup of a type finds that can be converted from a value of that size.
Convertible(attrs, t, size) ==
    LET a == Find(attrs, t)
    IN  a # <<>> /\ ~a[1].invalid /\ a[1].value.size = size

\* gck_attributes_find_boolean with gck_value_to_boolean, and the test that
\* callers make with it.
IsTrue(attrs, t) == Convertible(attrs, t, BoolSize) /\ Find(attrs, t)[1].value.is # 0

\* gck_attributes_find_ulong with gck_value_to_ulong.
IsUlong(attrs, t, n) == Convertible(attrs, t, UlongSize) /\ Find(attrs, t)[1].value.is = n

\* gck_attributes_find_string and gck_attribute_get_string: the bytes, if there are
\* any, as a sequence of one or none.
GetString(attrs, t) ==
    LET a == Find(attrs, t)
    IN  IF a = <<>> THEN <<>> ELSE IF a[1].invalid \/ a[1].value = Null THEN <<>> ELSE <<a[1].value>>

\* convert_gdate_to_ckdate: the first eight digits of the year, the month and the
\* day, and what is left of the day when the year has more than four.
DateSize == 8      \* sizeof (CK_DATE)
DateAttr(t, year, month, day) ==
    Attr(t, Value(DateSize, (year * 10000 + month * 100 + day) \div (IF year > 9999 THEN 10 ELSE 1)))

\* gck_attributes_find_date and gck_attribute_get_date.
GetDate(attrs, t) ==
    IF ~Convertible(attrs, t, DateSize) THEN <<>>
    ELSE LET n == Find(attrs, t)[1].value.is IN <<n \div 10000, (n \div 100) % 100, n % 100>>

\* gck_attribute_equal.
Equal(a, b) ==
    /\ a.type = b.type /\ a.invalid = b.invalid /\ a.value.size = b.value.size
    /\ a.value = Null \/ a.value = b.value

\* gck_attribute_hash: of the type and the bytes.
Hash(a) == <<a.type, a.value>>

\* gck_attributes_contains.
HasEqual(attrs, a) == \E i \in DOMAIN attrs : Equal(attrs[i], a)

\* The types whose values are printed (_gck_attribute_is_sensitive), and those that
\* have a name in the output besides (_gck_format_attribute_type).
Printed ==
    {"class", "token", "private", "label", "application", "object id", "certificate type", "issuer",
     "serial number", "ac issuer", "owner", "attr types", "trusted", "certificate category",
     "java midp security domain", "url", "hash of subject public key", "hash of issuer public key",
     "check value", "key type", "subject", "id", "sensitive", "encrypt", "decrypt", "wrap", "unwrap",
     "sign", "sign recover", "verify", "verify recover", "derive", "start date", "end date",
     "modulus bits", "prime bits", "value bits", "value len", "extractable", "local",
     "never extractable", "always sensitive", "key gen mechanism", "modifiable", "secondary auth",
     "auth pin flags", "always authenticate", "wrap with trusted", "wrap template", "unwrap template",
     "hw feature type", "reset on init", "has reset", "pixel x", "pixel y", "resolution", "char rows",
     "char columns", "color", "bits per pixel", "char sets", "encoding methods", "mime types",
     "mechanism type", "required cms attributes", "default cms attributes", "supported cms attributes",
     "allowed mechanisms", "x assertion type", "x certificate value", "x purpose", "x peer"}
NamedType ==
    Printed \cup {"value", "modulus", "public exponent", "private exponent", "prime 1", "prime 2", "exponent 1",
                 "exponent 2", "coefficient", "prime", "subprime", "base", "ecdsa params", "ec point"}

\* _gck_attribute_is_sensitive.
IsSensitive(a) == a.type \notin Printed

\* _gck_attribute_is_ulong_of_type, of the types whose values are constants with
\* names (_gck_format_class, _gck_format_assertion_type, _gck_format_key_type,
\* _gck_format_certificate_type).
NamesConstant(a) ==
    a.type \in {"class", "x assertion type", "certificate type", "key type"} /\ a.value.size = UlongSize

\* _gck_format_some_bytes: the first 128.
SomeBytes(v) == IF v.size > 128 THEN Value(128, v.is) ELSE v

\* _gck_format_attributes, gck_attributes_to_string: what is said of each attribute.
Describe(a) ==
    LET named == a.type \in NamedType
        Said(how, size, v) == [type |-> a.type, named |-> named, how |-> how, size |-> size, value |-> v]
    IN  IF a.invalid THEN Said("invalid", -1, Null)
        ELSE IF NamesConstant(a) THEN Said("constant", UlongSize, a.value)
        ELSE IF IsSensitive(a) THEN Said("not printed", a.value.size, Null)
        ELSE Said("bytes", a.value.size, SomeBytes(a.value))
ToText(attrs) == [i \in DOMAIN attrs |-> Describe(attrs[i])]

\* gck_builder_add_exceptv and gck_builder_add_onlyv, from an empty builder.
Except(attrs, types) == SelectSeq(attrs, LAMBDA a : a.type \notin types)
Only(attrs, types) == SelectSeq(attrs, LAMBDA a : a.type \in types)
Types(attrs) == {attrs[i].type : i \in DOMAIN attrs}

\* gck_builder_set_all: each attribute takes the place of the first of its type.
Set(attrs, a) ==
    LET hits == {i \in DOMAIN attrs : attrs[i].type = a.type}
    IN  IF hits = {} THEN Append(attrs, a) ELSE [attrs EXCEPT ![Min(hits)] = a]
SetAll(attrs, more) == FoldLeft(Set, attrs, more)

\* A template as PKCS#11 modules match it: every attribute is there and is equal.
Matches(attrs, template) ==
    \A i \in DOMAIN template :
        LET a == Find(attrs, template[i].type)
        IN  a # <<>> /\ a[1].value = template[i].value

----------------------------------------------------------------------------
(* The module. *)

Ret(t, rv, out) == [t |-> t, rv |-> rv, out |-> out]

\* struct Session.
NewSession(rw) ==
    [rw |-> rw, objects |-> <<>>, op |-> "none", matches |-> <<>>, key |-> 0,
     method |-> "none", wantlogin |-> FALSE]

\* gck_mock_C_Initialize; objs are the objects that it puts on the token.
C_Initialize(objs, pin) ==
    [initialized |-> TRUE, sessions |-> <<>>, objects |-> objs,
     list |-> SetToSortSeq({[handle |-> o, template |-> objs[o]] : o \in DOMAIN objs},
                           LAMBDA a, b : a.handle < b.handle),
     pin |-> pin, logged |-> FALSE, uid |-> 100]

-----------------------------------------------------------------------------
(* The object tables.                                                      *)

SessionAt(t, h) == t.sessions[h]
SetSession(t, h, s) == [t EXCEPT !.sessions = [@ EXCEPT ![h] = s]]

\* lookup_object: token objects before those of the session.
Exists(t, h, o) == o \in DOMAIN t.objects \cup DOMAIN SessionAt(t, h).objects
LookupObject(t, h, o) ==
    IF o \in DOMAIN t.objects THEN t.objects[o] ELSE SessionAt(t, h).objects[o]

\* insert_template: in the table and at the end of the list.
InsertTemplate(t, o, attrs) ==
    [t EXCEPT !.objects = (o :> attrs) @@ @,
              !.list = Append(@, [handle |-> o, template |-> attrs])]

\* g_hash_table_insert in the table of the session.
InsertSession(t, h, o, attrs) ==
    SetSession(t, h, [SessionAt(t, h) EXCEPT !.objects = (o :> attrs) @@ @])

\* gck_mock_module_add_object: CKA_TOKEN is added when it is missing.
AddObject(t, attrs) ==
    LET o == t.uid + 1
        whole == IF Has(attrs, "token") THEN attrs
                 ELSE Append(Except(attrs, {"token"}), Boolean("token", TRUE))
    IN  Ret(InsertTemplate([t EXCEPT !.uid = o], o, whole), "ok", o)

\* gck_mock_module_enumerate_objects: the list, then the table of the session.
Enumerate(t, h) ==
    t.list \o SetToSeq({[handle |-> o, template |-> SessionAt(t, h).objects[o]] :
                           o \in DOMAIN SessionAt(t, h).objects})

\* replace_attributes: the new ones, and those of the old that are not set.
Replace(old, attrs) == attrs \o Except(old, Types(attrs))

\* gck_mock_module_set_object: the list keeps the template that it had.
SetObject(t, o, attrs) ==
    IF attrs = <<>> THEN t ELSE [t EXCEPT !.objects[o] = Replace(@, attrs)]

-----------------------------------------------------------------------------
(* Sessions and PINs.                                                      *)

C_OpenSession(t, rw) ==
    LET h == t.uid + 1
    IN  Ret([t EXCEPT !.uid = h, !.sessions = (h :> NewSession(rw)) @@ @], "ok", h)

\* C_GetSessionInfo: the state of the session.
C_GetSessionInfo(t, h) ==
    IF h \notin DOMAIN t.sessions THEN Ret(t, "badsession", "none")
    ELSE Ret(t, "ok", IF t.logged THEN IF SessionAt(t, h).rw THEN "rwuser" ELSE "rouser"
                      ELSE IF SessionAt(t, h).rw THEN "rwpublic" ELSE "ropublic")

C_InitPIN(t, h, pin) == Ret([t EXCEPT !.pin = pin], "ok", 0)

C_SetPIN(t, h, old, new) ==
    IF old # t.pin THEN Ret(t, "pinincorrect", 0) ELSE Ret([t EXCEPT !.pin = new], "ok", 0)

C_Login(t, h, user, pin) ==
    IF t.logged THEN Ret(t, "alreadyloggedin", 0)
    ELSE IF pin # t.pin THEN Ret(t, "pinincorrect", 0)
    ELSE IF user # "context" THEN Ret([t EXCEPT !.logged = TRUE], "ok", 0)
    ELSE IF ~SessionAt(t, h).wantlogin THEN Ret(t, "notinitialized", 0)
    ELSE Ret(SetSession(t, h, [SessionAt(t, h) EXCEPT !.wantlogin = FALSE]), "ok", 0)

\* It asserts that the user is logged in.
C_Logout(t, h) == Ret([t EXCEPT !.logged = FALSE], "ok", 0)

-----------------------------------------------------------------------------
(* Objects.                                                                *)

Credential == 1    \* CKO_G_CREDENTIAL

C_CreateObject(t, h, attrs) ==
    LET o == t.uid + 1
        next == [t EXCEPT !.uid = o]
        pin == Find(attrs, "value")
    IN
    IF IsTrue(attrs, "private") /\ ~t.logged THEN Ret(t, "notloggedin", 0)
    ELSE IF /\ IsUlong(attrs, "class", Credential) /\ Convertible(attrs, "object", UlongSize)
            /\ (pin = <<>> \/ pin[1].value.is # t.pin)
    THEN Ret(t, "pinincorrect", 0)
    ELSE Ret(IF IsTrue(attrs, "token") THEN InsertTemplate(next, o, attrs)
             ELSE InsertSession(next, h, o, attrs), "ok", o)

C_DestroyObject(t, h, o) ==
    IF ~Exists(t, h, o) THEN Ret(t, "badobject", 0)
    ELSE IF IsTrue(LookupObject(t, h, o), "private") /\ ~t.logged THEN Ret(t, "notloggedin", 0)
    ELSE LET s == SessionAt(t, h)
         IN  Ret(SetSession([t EXCEPT !.objects = Restrict(@, DOMAIN @ \ {o}),
                                      !.list = SelectSeq(@, LAMBDA d : d.handle # o)], h,
                            [s EXCEPT !.objects = Restrict(@, DOMAIN @ \ {o})]), "ok", 0)

\* C_GetAttributeValue.  A request is a type and the room there is for the
\* value, -1 for a NULL pointer.  An answer is the length that is left in the
\* request, which is not changed when the value fits, and what was written.
Answer(attrs, req) ==
    LET a == Find(attrs, req.type) IN
    IF a = <<>> THEN [type |-> req.type, len |-> -1, wrote |-> Null, rv |-> "typeinvalid"]
    ELSE IF req.room = -1
    THEN [type |-> req.type, len |-> a[1].value.size, wrote |-> Null, rv |-> "ok"]
    ELSE IF req.room >= a[1].value.size
    THEN [type |-> req.type, len |-> req.room, wrote |-> a[1].value, rv |-> "ok"]
    ELSE [type |-> req.type, len |-> -1, wrote |-> Null, rv |-> "toosmall"]

\* The CK_RV is that of the last attribute that had a problem.
C_GetAttributeValue(t, h, o, reqs) ==
    IF h \notin DOMAIN t.sessions THEN Ret(t, "badsession", <<>>)
    ELSE IF ~Exists(t, h, o) THEN Ret(t, "badobject", <<>>)
    ELSE LET out == [i \in DOMAIN reqs |-> Answer(LookupObject(t, h, o), reqs[i])]
             bad == {i \in DOMAIN out : out[i].rv # "ok"}
         IN  Ret(t, IF bad = {} THEN "ok" ELSE out[Max(bad)].rv, out)

C_SetAttributeValue(t, h, o, attrs) ==
    IF ~Exists(t, h, o) THEN Ret(t, "badobject", 0)
    ELSE IF o \in DOMAIN t.objects THEN Ret([t EXCEPT !.objects[o] = Replace(@, attrs)], "ok", 0)
    ELSE Ret(SetSession(t, h, [SessionAt(t, h) EXCEPT !.objects[o] = Replace(@, attrs)]), "ok", 0)

-----------------------------------------------------------------------------
(* Searches and cryptography: starting one cancels the other.              *)

\* C_FindObjectsInit: the matches are put before those that are left.
C_FindObjectsInit(t, h, template) ==
    LET s == SessionAt(t, h)
        hits == SelectSeq(Enumerate(t, h), LAMBDA d : Matches(d.template, template))
    IN  Ret(SetSession(t, h, [s EXCEPT !.op = "find",
               !.matches = Reverse([i \in DOMAIN hits |-> hits[i].handle]) \o @]), "ok", 0)

C_FindObjects(t, h, max) ==
    LET s == SessionAt(t, h)
        n == Min({max, Len(s.matches)})
    IN  Ret(SetSession(t, h, [s EXCEPT !.matches = SubSeq(@, n + 1, Len(@))]), "ok",
            SubSeq(s.matches, 1, n))

C_FindObjectsFinal(t, h) ==
    Ret(SetSession(t, h, [SessionAt(t, h) EXCEPT !.op = "none", !.matches = <<>>]), "ok", 0)

\* Starting an operation cancels any previous one.
Starts(t, h, method, key) ==
    SetSession(t, h, [SessionAt(t, h) EXCEPT !.op = "crypto", !.method = method, !.key = key])
Ends(t, h) == SetSession(t, h, [SessionAt(t, h) EXCEPT !.op = "none", !.method = "none", !.key = 0])

C_EncryptInit(t, h, key) == Ret(Starts(t, h, "encrypt", key), "ok", 0)
C_DecryptInit(t, h, key) == Ret(Starts(t, h, "decrypt", key), "ok", 0)
C_VerifyInit(t, h, key) == Ret(Starts(t, h, "verify", key), "ok", 0)

\* C_SignInit: the key has CKA_ALWAYS_AUTHENTICATE.
C_SignInit(t, h, key) ==
    LET next == Starts(t, h, "sign", key)
    IN  Ret(SetSession(next, h, [SessionAt(next, h) EXCEPT !.wantlogin = TRUE]), "ok", 0)

\* What the functions that transform data have in common: the length, for which
\* the room is -1, then the result, which ends the operation.
Transform(t, h, method, room, length) ==
    LET s == SessionAt(t, h) IN
    IF s.op # "crypto" \/ s.method # method THEN Ret(t, "notinitialized", 0)
    ELSE IF room = -1 THEN Ret(t, "ok", 0)
    ELSE IF room < length THEN Ret(t, "toosmall", 0)
    ELSE Ret(Ends(t, h), "ok", s.key)

C_Encrypt(t, h, room, length) == Transform(t, h, "encrypt", room, length)
C_Decrypt(t, h, room, length) == Transform(t, h, "decrypt", room, length)
C_Sign(t, h, room, length) ==
    IF SessionAt(t, h).op = "crypto" /\ SessionAt(t, h).method = "sign" /\ SessionAt(t, h).wantlogin
    THEN Ret(t, "notloggedin", 0)
    ELSE Transform(t, h, "sign", room, length)

\* The functions that crypt_sync and crypt_async are given.
C_CryptInit(t, h, method, key) ==
    CASE method = "encrypt" -> C_EncryptInit(t, h, key) [] method = "decrypt" -> C_DecryptInit(t, h, key)
      [] method = "sign" -> C_SignInit(t, h, key)
C_Crypt(t, h, method, room) ==
    CASE method = "encrypt" -> C_Encrypt(t, h, room, 1) [] method = "decrypt" -> C_Decrypt(t, h, room, 1)
      [] method = "sign" -> C_Sign(t, h, room, 1)

\* C_Verify does not end the operation.
C_Verify(t, h, good) ==
    IF SessionAt(t, h).op # "crypto" \/ SessionAt(t, h).method # "verify" THEN Ret(t, "notinitialized", 0)
    ELSE Ret(t, IF good THEN "ok" ELSE "signatureinvalid", 0)

-----------------------------------------------------------------------------
(* Keys.  An object that is made here with CKA_TOKEN is put in the table of *)
(* the token but not in its list.                                          *)

Generated == Value(3, 7)    \* "generated"
Derived == Value(3, 8)      \* "derived"

InsertKey(t, h, attrs) ==
    LET o == t.uid + 1
        next == [t EXCEPT !.uid = o]
    IN  IF IsTrue(attrs, "token") THEN [next EXCEPT !.objects = (o :> attrs) @@ @]
        ELSE InsertSession(next, h, o, attrs)

C_GenerateKeyPair(t, h, public, private) ==
    LET one == InsertKey(t, h, <<Attr("value", Generated)>> \o public)
        two == InsertKey(one, h, <<Attr("value", Generated)>> \o private)
    IN  Ret(two, "ok", <<one.uid, two.uid>>)

\* C_WrapKey: the value of the key is what it is wrapped to.
C_WrapKey(t, h, wrapper, o, room) ==
    IF ~Exists(t, h, wrapper) \/ ~Exists(t, h, o) THEN Ret(t, "badobject", Null)
    ELSE LET a == Find(LookupObject(t, h, o), "value") IN
         IF a = <<>> THEN Ret(t, "wrappedkeyinvalid", Null)
         ELSE IF room = -1 THEN Ret(t, "ok", Value(a[1].value.size, 0))
         ELSE IF room < a[1].value.size THEN Ret(t, "toosmall", Null)
         ELSE Ret(t, "ok", a[1].value)

C_UnwrapKey(t, h, unwrapper, input, template) ==
    IF ~Exists(t, h, unwrapper) THEN Ret(t, "badobject", 0)
    ELSE LET next == InsertKey(t, h, <<Attr("value", input)>> \o template)
         IN  Ret(next, "ok", next.uid)

C_DeriveKey(t, h, base, template) ==
    IF ~Exists(t, h, base) THEN Ret(t, "badobject", 0)
    ELSE LET next == InsertKey(t, h, <<Attr("value", Derived)>> \o template
                                     \o LookupObject(t, h, base))
         IN  Ret(next, "ok", next.uid)

-----------------------------------------------------------------------------
(* What readers of any attributes can rely on.                             *)

\* The readers of attributes agree: attributes are contained as often as they are
\* equal to one, and equal ones have one hash; what is not a string is no number; and
\* what is printed of attributes (gck_attributes_to_string) does not depend on the
\* values of a type that is not listed for it, whatever else is in the array.
ReadersAgree(attrs) ==
    /\ \A i \in DOMAIN attrs :
         LET a == attrs[i] IN
         /\ HasEqual(attrs, a)
         /\ \A j \in DOMAIN attrs : Equal(a, attrs[j]) => Equal(attrs[j], a) /\ Hash(a) = Hash(attrs[j])
         /\ IsTrue(attrs, a.type) => GetString(attrs, a.type) # <<>> /\ GetDate(attrs, a.type) = <<>>
         /\ a.type \notin Printed /\ a.value # Null =>
              \A n \in {0, 1} : ToText([attrs EXCEPT ![i].value.is = n]) = ToText(attrs)
    /\ \A year \in {1, 1999, 9999}, month \in {1, 12}, day \in {1, 31} :
         GetDate(<<DateAttr("start date", year, month, day)>>, "start date") = <<year, month, day>>
=============================================================================
