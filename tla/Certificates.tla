---------------------------- MODULE Certificates ----------------------------
(***************************************************************************)
(* gcr-certificate.c, the extensions of a certificate (gcr-certificate-     *)
(* extension*.c, gcr-certificate-extensions-common.c) and its names         *)
(* (egg-dn.c, egg-oid.c): what is read out of a certificate that was        *)
(* decoded, and what is shown of it.  A name is a sequence of sequences of  *)
(* attributes [oid, is, text]; an extension is [oid, critical, value] with  *)
(* value [ok |-> FALSE] when its contents do not decode.                    *)
(***************************************************************************)
EXTENDS Integers, Sequences, SequencesExt

Null == <<>>

\* find_oid_info, egg_oid_get_name and egg_oid_get_flags: of an object identifier
\* that is not in the table the name is the identifier itself.
OidName(oid) == CASE oid = "2.5.4.3" -> "cn" [] oid = "2.5.4.11" -> "ou" [] oid = "2.5.4.10" -> "o" [] OTHER -> oid
Printable(oid) == oid \in {"2.5.4.3", "2.5.4.11", "2.5.4.10"}

\* dn_print_oid_value, dn_print_oid_value_parsed and dn_print_hex_value: text as it
\* is, in hex what is no UTF-8, and in hex the whole element of what is not known
\* or does not decode.
PrintValue(a) ==
    IF ~Printable(a.oid) \/ a.is = "broken" THEN <<"#element", a.text>>
    ELSE IF a.is = "binary" THEN <<"#", a.text>> ELSE <<"", a.text>>

\* The attributes that are seen: an empty RDN ends the name.
Seen(dn) ==
    LET empty == SelectInSeq(dn, LAMBDA rdn : rdn = <<>>) IN
    IF empty = 0 THEN dn ELSE SubSeq(dn, 1, empty - 1)

\* egg_dn_read, dn_parse_rdn: each with what is before it.
DnRead(dn) ==
    FlattenSeq([i \in DOMAIN Seen(dn) |-> [j \in DOMAIN dn[i] |->
        [before |-> IF j > 1 THEN "+" ELSE IF i > 1 THEN ", " ELSE "",
         name |-> IF Printable(dn[i][j].oid) THEN OidName(dn[i][j].oid) ELSE dn[i][j].oid,
         value |-> PrintValue(dn[i][j])]]])

\* egg_dn_parse: what the callback is given.
DnParse(dn) ==
    FlattenSeq([i \in DOMAIN Seen(dn) |-> [j \in DOMAIN dn[i] |-> <<i, dn[i][j].oid, PrintValue(dn[i][j])>>]])

\* Mutant: only the first attribute of each RDN is looked at.
DnReadPartFirst(dn, match) ==
    LET firsts == [i \in DOMAIN Seen(dn) |-> dn[i][1]]
        k == SelectInSeq(firsts, LAMBDA a : a.oid = match \/ OidName(a.oid) = match)
    IN  IF k = 0 THEN Null ELSE PrintValue(firsts[k])

\* egg_dn_read_part: the first attribute with this identifier or name.
DnReadPart(dn, match) ==
    LET all == FlattenSeq(Seen(dn))
        k == SelectInSeq(all, LAMBDA a : a.oid = match \/ OidName(a.oid) = match)
    IN  IF k = 0 THEN Null ELSE PrintValue(all[k])

\* is_printable_string, is_ascii_string, egg_dn_add_string_part: the kind of string
\* a text is stored as, at the end of the name.
StringKind(text) ==
    IF text \in {"printable"} THEN "printableString" ELSE IF text \in {"ascii"} THEN "ia5String" ELSE "utf8String"
AddStringPart(dn, oid, text) == Append(dn, <<[oid |-> oid, is |-> StringKind(text), text |-> text]>>)

\* gcr_certificate_get_subject_name, gcr_certificate_get_issuer_name.
FirstNotNull(values) ==
    LET k == SelectInSeq(values, LAMBDA v : v # Null) IN IF k = 0 THEN Null ELSE values[k]
ShownName(dn) == FirstNotNull(<<DnReadPart(dn, "cn"), DnReadPart(dn, "ou"), DnReadPart(dn, "o")>>)

-----------------------------------------------------------------------------
\* general_name_parse_*: names of which something is shown, and those of which
\* only the raw value is; a directory name is given the type of a DNS name.
NameTypes == {"otherName", "rfc822Name", "dNSName", "x400Address", "directoryName", "ediPartyName",
              "uniformResourceIdentifier", "iPAddress", "registeredID"}
Shown(n) ==
    CASE n.type = "otherName" -> n.known
      [] n.type \in {"x400Address", "ediPartyName"} -> FALSE
      [] OTHER -> n.text

\* _gcr_general_name_parse and _gcr_general_names_parse: every choice of the ASN.1
\* definition has its function, and a value where one is asked for.
GeneralName(n) == [type |-> IF n.type = "directoryName" THEN "dNSName" ELSE n.type, display |-> Shown(n), raw |-> n]
GeneralNames(names) == [i \in DOMAIN names |-> GeneralName(names[i])]

\* egg_asn1x_get_bits_as_ulong, the first bit highest, and _gcr_reverse_bits.
BitsValue(bits) == FoldLeft(LAMBDA acc, b : 2 * acc + b, 0, bits)
ReverseBits(num, n) ==
    FoldLeft(LAMBDA acc, i : acc + ((num \div 2 ^ (i - 1)) % 2) * 2 ^ (n - i), 0, [i \in 1..n |-> i])

\* A number stored in an int, with widths of a byte for an int and two for an
\* unsigned long.
ULong == 65536
AsInt(n) == ((n + 128) % 256) - 128

\* _gcr_certificate_extension_basic_constraints_parse: -1 is no limit.
BasicConstraints(v) ==
    IF v.length # Null /\ v.length[1] >= ULong THEN Null
    ELSE <<[ca |-> v.ca = "true", length |-> IF v.length = Null THEN -1 ELSE AsInt(v.length[1])]>>

\* _gcr_certificate_extension_key_usage_parse: the usages as flags, the first bit
\* of the string the lowest.
KeyUsage(v) == IF Len(v.bits) > 64 THEN Null ELSE <<ReverseBits(BitsValue(v.bits), Len(v.bits))>>

\* _gcr_certificate_extension_authority_key_identifier_parse: both or none.  The
\* pointer to the names is not set before a value that cannot be decoded is given
\* up, and is cleared all the same, which is harmless only if the stack holds zero.
Crashes(e, stack) == e.oid = "authorityKeyIdentifier" /\ ~e.value.ok /\ stack # "zero"
AuthorityKeyIdentifier(v) ==
    IF (v.issuer = <<>>) # (v.serial = Null) THEN Null
    ELSE <<[keyid |-> v.keyid, issuer |-> GeneralNames(v.issuer), serial |-> v.serial]>>

\* _gcr_certificate_extension_authority_info_access_parse.
AuthorityInfoAccess(v) ==
    <<[i \in DOMAIN v.list |-> [method |-> v.list[i].method, location |-> GeneralName(v.list[i].name)]]>>

\* _gcr_distribution_point_parse: of a relative name nothing is found, as
\* egg_dn_parse wants one level more.
PointNames(point) == IF point.is = "full" THEN GeneralNames(point.names) ELSE <<>>

\* _gcr_certificate_extension_crl_distribution_points_parse: a point without a name
\* makes all fail.
CrlDistributionPoints(v) ==
    IF \E i \in DOMAIN v.list : v.list[i].is = "absent" THEN Null
    ELSE <<[i \in DOMAIN v.list |-> PointNames(v.list[i])]>>

\* _gcr_certificate_extension_extended_key_usage_parse.
ExtendedKeyUsage(v) == <<v.purposes>>

\* _gcr_certificate_extension_subject_key_identifier_parse.
SubjectKeyIdentifier(v) == <<v.keyid>>

\* _gcr_certificate_extension_certificate_policies_parse: policies with their
\* qualifiers; a policy without a usable identifier makes all fail.
CertificatePolicies(v) ==
    IF \E i \in DOMAIN v.list : v.list[i].oid = Null THEN Null
    ELSE <<[i \in DOMAIN v.list |-> [oid |-> v.list[i].oid, qualifiers |-> v.list[i].qualifiers]]>>

\* _gcr_certificate_extension_subject_alt_name_parse.
SubjectAltName(v) == <<GeneralNames(v.names)>>

\* _gcr_certificate_extension_parse: the class that knows the extension, or the
\* general one, with what it reads of the value; <<>> if it fails.
KnownExtensions == {"basicConstraints", "keyUsage", "extendedKeyUsage", "subjectKeyIdentifier",
    "authorityKeyIdentifier", "subjectAltName", "certificatePolicies", "authorityInfoAccess", "crlDistributionPoints"}
ReadValue(oid, v) ==
    CASE oid = "basicConstraints" -> BasicConstraints(v)
      [] oid = "keyUsage" -> KeyUsage(v)
      [] oid = "authorityKeyIdentifier" -> AuthorityKeyIdentifier(v)
      [] oid = "extendedKeyUsage" -> ExtendedKeyUsage(v)
      [] oid = "subjectKeyIdentifier" -> SubjectKeyIdentifier(v)
      [] oid = "certificatePolicies" -> CertificatePolicies(v)
      [] oid = "subjectAltName" -> SubjectAltName(v)
      [] oid = "authorityInfoAccess" -> AuthorityInfoAccess(v)
      [] oid = "crlDistributionPoints" -> CrlDistributionPoints(v)
ExtensionParse(e) ==
    IF e.oid \notin KnownExtensions THEN <<[oid |-> e.oid, critical |-> e.critical, read |-> e.value]>>
    ELSE IF ~e.value.ok \/ ReadValue(e.oid, e.value) = Null THEN Null
    ELSE <<[oid |-> e.oid, critical |-> e.critical, read |-> ReadValue(e.oid, e.value)[1]]>>

\* _gcr_certificate_extension_list_new_for_asn1: those that fail are left out.
ExtensionList(extensions) == FlattenSeq([i \in DOMAIN extensions |-> ExtensionParse(extensions[i])])

\* gcr_certificate_extension_list_find_by_oid.
FindByOid(list, oid) ==
    LET k == SelectInSeq(list, LAMBDA e : e.oid = oid) IN IF k = 0 THEN Null ELSE <<list[k]>>

\* _gcr_certificate_find_extension: the first with this identifier, read or not.
FindExtension(extensions, oid) ==
    LET k == SelectInSeq(extensions, LAMBDA e : e.oid = oid) IN
    IF k = 0 THEN Null ELSE ExtensionParse(extensions[k])

\* gcr_certificate_get_basic_constraints.
GetBasicConstraints(cert) ==
    LET e == FindExtension(cert.extensions, "basicConstraints") IN IF e = Null THEN Null ELSE <<e[1].read>>

\* The append_extension_* functions: the fields of a section, each a label with a
\* value; a general name shows its text or else its bytes in an alternative name,
\* and nothing but text elsewhere.  The length of a key identifier that is not there
\* is not set: it is shown empty or not at all, by what the stack holds.
NameField(label, n) == [label |-> label, value |-> IF n.display THEN <<n.raw>> ELSE Null]
ExtensionFields(e, stack) ==
    LET each(list, F(_)) == [i \in DOMAIN list |-> F(list[i])]
        one(label, value) == <<[label |-> label, value |-> <<value>>]>>
    IN  CASE e.oid = "basicConstraints" -> one("ca", e.read.ca) \o one("length", e.read.length)
          [] e.oid = "keyUsage" -> one("usages", e.read)
          [] e.oid = "extendedKeyUsage" -> one("purposes", e.read)
          [] e.oid = "subjectKeyIdentifier" -> one("keyid", e.read)
          [] e.oid = "authorityKeyIdentifier" ->
               <<[label |-> "keyid", value |-> IF e.read.keyid = Null /\ stack = "zero" THEN <<"">> ELSE e.read.keyid]>>
          [] e.oid = "subjectAltName" -> each(e.read, LAMBDA n : [label |-> n.type, value |-> <<n.raw>>])
          [] e.oid = "certificatePolicies" -> each(e.read, LAMBDA p : [label |-> "policy", value |-> <<p.oid>>])
          [] e.oid = "authorityInfoAccess" ->
               FlattenSeq(each(e.read, LAMBDA d : <<NameField("location", d.location)>> \o one("method", d.method)))
          [] e.oid = "crlDistributionPoints" ->
               FlattenSeq(each(e.read, LAMBDA names : each(names, LAMBDA n : NameField("point", n))))
          [] OTHER -> one("identifier", e.oid) \o one("value", e.read)

\* append_extension: its own section, or a raw one, and the criticality last.
ExtensionSection(e, stack) ==
    [title |-> IF e.oid \in KnownExtensions THEN e.oid ELSE "Extension",
     fields |-> ExtensionFields(e, stack)
        \o IF e.critical THEN <<[label |-> "critical", value |-> <<TRUE>>]>> ELSE <<>>]

\* gcr_certificate_get_interface_elements, the sections in order; the fields of the
\* names are their attributes (on_parsed_dn_part).  There are none if it crashes.
Plain(title) == [title |-> title, fields |-> <<>>]
InterfaceElements(cert, stack) ==
    LET list == ExtensionList(cert.extensions) IN
    IF \E e \in ToSet(cert.extensions) : Crashes(e, stack) THEN <<>>
    ELSE
    <<Plain("Certificate"), Plain("Subject Name"), Plain("Issuer Name"), Plain("Issued Certificate"),
      Plain("Certificate Fingerprints"), Plain("Public Key Info")>>
    \o [i \in DOMAIN list |-> ExtensionSection(list[i], stack)] \o <<Plain("Signature")>>

-----------------------------------------------------------------------------
\* A name is shown whole and in order: up to an RDN that is empty every attribute
\* is one part, with the separator of its place; a part found by name or identifier
\* is the first such one, whatever RDN it is in; what is shown for a name is its
\* common name whenever it has one; and a text that is added as any part is read
\* back as that text.
NamesShown(dn) ==
    LET read == DnRead(dn)
        all == FlattenSeq(Seen(dn))
    IN  /\ Len(read) = Len(all) /\ Len(DnParse(dn)) = Len(all)
        /\ \A k \in DOMAIN all :
             /\ read[k].value = PrintValue(all[k])
             /\ read[k].before = "" <=> k = 1
             /\ read[k].before = "+" <=> k > 1 /\ DnParse(dn)[k][1] = DnParse(dn)[k - 1][1]
        /\ \A oid \in {"2.5.4.3", "2.5.4.11", "2.5.4.10", "1.2.3"} :
             LET got == DnReadPart(dn, oid)
                 of == {k \in DOMAIN all : all[k].oid = oid}
             IN  /\ got = DnReadPart(dn, OidName(oid))
                 /\ IF of = {} THEN got = Null
                    ELSE got = read[CHOOSE k \in of : \A l \in of : k <= l].value
        /\ \A text \in {"printable", "ascii", "utf8"} : Len(Seen(dn)) = Len(dn) =>
             LET more == AddStringPart(dn, "2.5.4.3", text) IN
             /\ Last(DnRead(more)).value = <<"", text>>
             /\ DnReadPart(dn, "cn") = Null => ShownName(more) = <<"", text>>
        /\ (\E k \in DOMAIN all : all[k].oid = "2.5.4.3") => ShownName(dn) = DnReadPart(dn, "2.5.4.3")

\* Everything of a certificate is shown once and in its order: each extension that
\* can be read has one section, with its criticality, between the public key and the
\* signature; those read are the same whether looked up alone or in the list, except
\* that a first one that fails hides the next of its kind from a lookup alone; a
\* usage is set exactly if its bit in the string is; an authority's name and serial
\* number come together, and its key identifier is shown if there is one; alternative
\* names and policies are all there in order; and a path length that fits in an int
\* is the limit.  Nothing is said of a certificate whose authority key identifier
\* crashes the reader.
ExtensionsShown(cert, stack) ==
    LET list == ExtensionList(cert.extensions)
        sections == InterfaceElements(cert, stack)
        shown == SubSeq(sections, 7, Len(sections) - 1)
        good == SelectSeq(cert.extensions, LAMBDA e : ExtensionParse(e) # Null)
    IN  (\A e \in ToSet(cert.extensions) : ~Crashes(e, stack)) =>
        /\ Len(shown) = Len(good) /\ Last(sections).title = "Signature"
        /\ \A i \in DOMAIN good :
             /\ good[i].critical <=> \E f \in DOMAIN shown[i].fields : shown[i].fields[f].label = "critical"
             /\ shown[i].title = IF good[i].oid \in KnownExtensions THEN good[i].oid ELSE "Extension"
        /\ \A oid \in {e.oid : e \in ToSet(cert.extensions)} :
             LET alone == FindExtension(cert.extensions, oid) IN
             alone # Null => alone = FindByOid(list, oid)
        /\ \A i \in DOMAIN list :
             LET e == list[i] IN
             /\ e.oid = "keyUsage" =>
                  LET bits == good[i].value.bits IN
                  \A b \in 1..9 : (e.read \div 2 ^ (b - 1)) % 2 = IF b <= Len(bits) THEN bits[b] ELSE 0
             /\ e.oid = "authorityKeyIdentifier" =>
                  /\ (e.read.issuer = <<>>) = (e.read.serial = Null)
                  /\ good[i].value.keyid # Null => shown[i].fields[1].value = good[i].value.keyid
             /\ e.oid = "subjectAltName" =>
                  \A n \in DOMAIN good[i].value.names : shown[i].fields[n].value = <<good[i].value.names[n]>>
             /\ e.oid = "certificatePolicies" =>
                  \A n \in DOMAIN good[i].value.list : shown[i].fields[n].value = <<good[i].value.list[n].oid>>
             /\ e.oid = "basicConstraints" =>
                  LET n == good[i].value.length IN
                  (n = Null => e.read.length = -1) /\ (n # Null /\ n[1] < 128 => e.read.length = n[1])
        /\ LET bc == GetBasicConstraints(cert) IN
           bc # Null => \E e \in ToSet(good) : e.oid = "basicConstraints" /\ bc[1].ca = (e.value.ca = "true")
=============================================================================
