---------------------------- MODULE MCEncodings ----------------------------
(***************************************************************************)
(* Secure memory, with pages of a few words and metadata items by number,   *)
(* and what is encoded and read: ASN.1, buffers, and the codecs and readers *)
(* that are pure functions, over all short inputs.  One part at a time; the *)
(* inputs of the pure ones are built up in "input", an element at a time.   *)
(***************************************************************************)
EXTENDS SecureMemory, Sequences, TLC

CONSTANTS ca, cb, cc, zeroWord, libc, nullPtr, ItemCount, BlockIds

VARIABLES part,
    asn, data, ops, stage,
    buffer, added, torn,
    input

MCItem == 1..ItemCount
MCBlockId == 101..(100 + BlockIds)

-----------------------------------------------------------------------------
(* ASN.1: two types that have, together, each kind of element. *)

N == INSTANCE Asn1Nodes WITH UintMod <- 65536, UlongBytes <- 3, IntBytes <- 2, NoSize <- 1000

D == "down"
R == "right"
Sample == <<
  N!Def("Sample", "definitions", "", 0, {D}),
  N!Def("Sample", "sequence", "", 0, {D, R}),
    N!Def("version", "identifier", "Version", 0, {D, R, "tag", "default"}),
      N!Def("", "tag", "", 0, {R}),
      N!Def("", "default", "v1", 0, {}),
    N!Def("critical", "boolean", "", 0, {D, R, "default"}),
      N!Def("", "default", "", 0, {"false"}),
    N!Def("id", "choice", "", 0, {D, R}),
      N!Def("key", "octet string", "", 0, {D, R, "tag", "size"}),
        N!Def("", "tag", "", 7, {"implicit", R}),
        N!Def("MAX", "size", "", <<1, 0>>, {"min_max"}),
      N!Def("usage", "bit string", "", 0, {}),
    N!Def("items", "sequence of", "", 0, {D, R, "option"}),
      N!Def("", "object id", "", 0, {}),
    N!Def("params", "any", "", 0, {"option"}),
  N!Def("Version", "integer", "", 0, {D, R}),
    N!Def("v1", "constant", "", 0, {}),
  N!Def("Blob", "octet string", "", 0, {R}),
  N!Def("Person", "sequence", "", 0, {D, R}),
    N!Def("names", "set", "", 0, {D, R}),
      N!Def("given", "printable string", "", 0, {D, R, "tag", "size", "option"}),
        N!Def("", "tag", "", 2, {"implicit", R}),
        N!Def("longest", "size", "", <<1, 0>>, {"min_max"}),
      N!Def("sealed", "null", "", 0, {R}),
      N!Def("alive", "boolean", "", 0, {}),
    N!Def("marks", "set of", "", 0, {D, R, "size", "option"}),
      N!Def("", "size", "", <<0, 4>>, {"min_max", R}),
      N!Def("", "integer", "", 0, {}),
    N!Def("reason", "enumerated", "", 0, {D, R, "list"}),
      N!Def("lost", "constant", "", 1, {R}),
      N!Def("stolen", "constant", "", 200, {}),
    N!Def("since", "time", "", 0, {R, "option", "generalized"}),
    N!Def("until", "utc time", "", 0, {"option"}),
  N!Def("longest", "integer", "", 3, {}) >>

Midnight(year) == year \o <<48, 49, 48, 50, 48, 48, 48, 48, 48, 48, 90>>   \* 2 January
Names(set) == <<49, Len(set)>> \o set
PersonOf(content) == <<48, Len(content)>> \o content
People ==
    {PersonOf(Names(<<1, 1, 255, 130, 1, 97, 5, 0>>) \o <<49, 6, 2, 1, 5, 2, 1, 3, 10, 1, 1>>
              \o <<24, 15>> \o Midnight(<<50, 48, 50, 52>>) \o <<23, 13>> \o Midnight(<<50, 52>>)),
     PersonOf(Names(<<1, 1, 0, 162, 6, 19, 1, 97, 19, 1, 98, 5, 0>>) \o <<10, 2, 0, 200>>),
     PersonOf(Names(<<1, 1, 0, 5, 0>>) \o <<49, 9, 2, 1, 3, 2, 1, 1, 2, 1, 5, 10, 1, 1>>),
     PersonOf(Names(<<5, 0, 1, 1, 255>>) \o <<10, 1, 1>>)}

X == INSTANCE Asn1x WITH
    UintMod <- 65536, UlongBytes <- 3, IntBytes <- 2, NoSize <- 1000,
    Table <- Sample, AnyName <- "Blob", Documents <- [Sample |-> {}, Person |-> People],
    Alphabet <- {48, 128, 2, 0, 1, 130}, Spoilers <- {0, 3, 36, 129},
    Numbers <- {1, 200}, Blobs <- {<<1>>, <<200, 3>>},
    Probes <- {0, 1, 127, 128, 200, 255, 256, 257, 513, 8888, 32767},
    TimePieces <- {<<48, 48>>, <<49, 50>>, <<50, 57>>, <<54, 48>>, <<48>>, <<90>>, <<43, 48, 49>>},
    ThisYear <- 2024, MaxLen <- 6, MaxOps <- [Sample |-> 4, Person |-> 5], MaxItems <- 3

-----------------------------------------------------------------------------
Co == INSTANCE Codecs WITH
    items <- added, Arrays <- {<<>>, <<<<>>>>, <<<<7>>>>, <<<<0, 255, 255, 255, 255>>>>},
    Number32 <- {0, 261}, Reserve <- 8, MaxAdds <- 3, MaxFailed <- 2
Pg == INSTANCE OpenPgp WITH Now <- 20, Word <- 64, Day <- 10
Ls == INSTANCE KeyLists WITH MaxColumns <- 3, Uint <- 64, Ulong <- 1024
Ce == INSTANCE Certificates

-----------------------------------------------------------------------------
(* The elements of the inputs. *)

CodecChars == {0, 1, 2, 5, 9, 10, 110, 16, -1, -2}

ArmorLines ==
    {Co!Line("begin", "A"), Co!Line("end", "A"), Co!Line("begin", "B"), Co!Line("end", "B"),
     Co!Line("broken", ""), Co!Line("blank", ""), Co!Line("header", <<"n", "1">>),
     Co!Line("header", <<"n", "2">>), Co!Line("data", <<"d1">>), Co!Line("data", <<"d2">>),
     Co!Line("sum", ""), Co!Line("noise", "")}

KeyPacket(type, version, keyid, stamp, days, algo) ==
    [type |-> type, ok |-> TRUE, version |-> version, keyid |-> keyid, stamp |-> stamp, days |-> days, algo |-> algo]
Sub(of, value) == [kind |-> of, value |-> value, ok |-> TRUE, critical |-> FALSE]
SignaturePacket(class, subs) == [type |-> "sig", version |-> 4, ok |-> TRUE, sigtype |-> class, subs |-> subs]
Packets ==
    {KeyPacket("pubkey", 4, "A", 5, 0, "rsa"), KeyPacket("pubkey", 3, "B", 5, 1, "dsa"),
     KeyPacket("seckey", 4, "C", 5, 0, "dsa"), KeyPacket("pubsub", 4, "S", 6, 0, "elg"),
     [type |-> "userid", ok |-> TRUE, empty |-> FALSE], [type |-> "userid", ok |-> TRUE, empty |-> TRUE],
     [type |-> "attribute", ok |-> FALSE, parts |-> <<"full">>], [type |-> "attribute", ok |-> TRUE, parts |-> <<"empty">>],
     SignaturePacket(16, <<Sub("issuer", "A"), Sub("key-expiry", 3), Sub("key-flags", {"s"})>>),
     SignaturePacket(19, <<Sub("issuer", "B"), Sub("creation", 9), Sub("key-flags", {"a", "split"})>>),
     SignaturePacket(24, <<Sub("issuer", "A"), Sub("key-expiry", 70), Sub("key-flags", {"c"})>>),
     SignaturePacket(31, <<Sub("revocation-key", 0)>>),
     [type |-> "sig", version |-> 3, ok |-> TRUE, sigtype |-> 16, keyid |-> "A"],
     [type |-> "trust", ok |-> TRUE]}

Attribute(oid, is, text) == [oid |-> oid, is |-> is, text |-> text]
Attributes ==
    {Attribute("2.5.4.3", "text", "a"), Attribute("2.5.4.3", "binary", "b"), Attribute("2.5.4.11", "text", "c"),
     Attribute("2.5.4.10", "broken", "d"), Attribute("1.2.3", "text", "e")}
Rdns == {<<>>} \cup {<<a>> : a \in Attributes} \cup {<<a, b>> : a \in Attributes, b \in Attributes}

Name(type) == [type |-> type, known |-> TRUE, text |-> TRUE]
Extension(oid, critical, value) == [oid |-> oid, critical |-> critical, value |-> value]
Constraints(authority, length) == [ok |-> TRUE, ca |-> authority, length |-> length]
Authority(keyid, issuer, serial) == [ok |-> TRUE, keyid |-> keyid, issuer |-> issuer, serial |-> serial]
Policy(oid) == [oid |-> oid, qualifiers |-> <<2>>]
Listed(list) == [ok |-> TRUE, list |-> list]
Extensions ==
    {Extension("1.2.3", TRUE, [ok |-> TRUE]),
     Extension("keyUsage", FALSE, [ok |-> TRUE, bits |-> <<1, 0, 1>>]),
     Extension("keyUsage", TRUE, [ok |-> TRUE, bits |-> <<0, 0, 0, 0, 0, 1, 1, 0, 1>>]),
     Extension("keyUsage", TRUE, [ok |-> FALSE]),
     Extension("basicConstraints", TRUE, Constraints("true", <<>>)),
     Extension("basicConstraints", FALSE, Constraints("absent", <<127>>)),
     Extension("basicConstraints", FALSE, Constraints("true", <<65536>>)),
     Extension("subjectAltName", FALSE, [ok |-> TRUE, names |-> <<Name("dNSName"), Name("directoryName")>>]),
     Extension("extendedKeyUsage", FALSE, [ok |-> TRUE, purposes |-> <<"p">>]),
     Extension("subjectKeyIdentifier", FALSE, [ok |-> TRUE, keyid |-> "k"]),
     Extension("certificatePolicies", TRUE, Listed(<<Policy(<<1>>), Policy(<<3>>)>>)),
     Extension("certificatePolicies", FALSE, Listed(<<Policy(<<>>)>>)),
     Extension("authorityKeyIdentifier", FALSE, Authority(<<1>>, <<Name("otherName")>>, <<5>>)),
     Extension("authorityKeyIdentifier", FALSE, Authority(<<1>>, <<>>, <<5>>)),
     Extension("authorityKeyIdentifier", FALSE, Authority(<<>>, <<>>, <<>>)),
     Extension("authorityKeyIdentifier", FALSE, [ok |-> FALSE]),
     Extension("authorityInfoAccess", FALSE, Listed(<<[method |-> "ocsp", name |-> Name("x400Address")]>>)),
     Extension("crlDistributionPoints", FALSE,
               Listed(<<[is |-> "full", names |-> <<Name("iPAddress")>>], [is |-> "relative"]>>)),
     Extension("crlDistributionPoints", TRUE, Listed(<<[is |-> "absent"]>>))}

\* Bound: the elements and the length of the input of each part.
Alphabet(of) ==
    CASE of = "codecs" -> CodecChars
      [] of = "armor" -> ArmorLines
      [] of = "passwords" -> {1, 17, 255}
      [] of = "packets" -> {0, 1, 5, 128, 131, 153, 192, 198, 224, 255}
      [] of = "keyring" -> Packets
      [] of = "columns" -> {"a", "iso", ":", "tab", "newline", "\\", "bell", " ", "n", "1"}
      [] of = "userid" -> {"a", " ", "<", ">", "(", ")"}
      [] of = "openssh" -> {"rsa", "ecdsa", "K-rsa", "K-dss", "K-short", "K-curve", "K-ecdsa", " ", "quote",
                            "#", "0", "7", "w"}
      [] of = "name" -> Rdns
      [] of = "certificate" -> Extensions
Longest(of) ==
    CASE of \in {"codecs", "armor", "packets", "keyring", "columns"} -> 4
      [] of = "passwords" -> 2
      [] of = "userid" -> 6
      [] of \in {"openssh", "certificate"} -> 3
      [] of = "name" -> 2

Pure == {"codecs", "armor", "passwords", "packets", "keyring", "columns", "userid", "openssh", "name", "certificate"}

Longer ==
    /\ part \in Pure /\ Len(input) < Longest(part)
    /\ \E e \in Alphabet(part) : input' = Append(input, e)

mvars == vars
xvars == <<asn, data, ops, stage>>
bvars == <<buffer, added, torn>>

EncodingsInit ==
    /\ part \in {"memory", "asn1", "buffer"} \cup Pure
    /\ Init /\ X!Init /\ Co!BInit /\ input = <<>>
    /\ X!Type(asn) = "Sample" \/ (part = "asn1" /\ stage \in {"fill", "encoded"})
    /\ part = "asn1" \/ stage = "fill"

EncodingsNext ==
    \/ part = "memory" /\ Next /\ UNCHANGED <<part, xvars, bvars, input>>
    \/ part = "asn1" /\ X!Next /\ UNCHANGED <<part, mvars, bvars, input>>
    \/ part = "buffer" /\ Co!BNext /\ UNCHANGED <<part, mvars, xvars, input>>
    \/ Longer /\ UNCHANGED <<part, mvars, xvars, bvars>>

EncodingsSpec == EncodingsInit /\ [][EncodingsNext]_<<part, mvars, xvars, bvars, input>>

\* Which metadata item a cell has, and where a word in the middle of a cell still
\* points, makes no difference to what follows.
View == <<part, {heap.cells[i] : i \in DOMAIN heap.cells}, heap.blocks,
          [b \in DOMAIN heap.memory |-> [w \in DOMAIN heap.memory[b] |->
              IF heap.memory[b][w] \in Item THEN nullPtr ELSE heap.memory[b][w]]], client,
          xvars, bvars, input>>
Symmetry == Permutations(Client \ Insured)

-----------------------------------------------------------------------------

\* A buffer holds what was added to it, whatever allocations failed, and hex,
\* paddings and armor are undone by their inverses (src/egg/egg-buffer.c,
\* src/egg/egg-hex.c, src/egg/egg-padding.c, src/egg/egg-armor.c).
CodecsInvert ==
    /\ part = "buffer" => Co!BufferKeeps
    /\ part = "codecs" =>
         Co!CodecsInvert(input, {<<>>, <<-1>>, <<-1, -2>>}, {1, 2}, {2, 3, 5, 8},
                         <<[i \in 1..9 |-> (i + 1) % 2], [i \in 1..9 |-> i % 3], [i \in 1..9 |-> i]>>)
    /\ part = "armor" =>
         /\ Co!ArmorReads(input)
         /\ Co!ArmorWrites([i \in DOMAIN input |-> i],
                IF Len(input) % 2 = 0 THEN [n \in {} |-> ""] ELSE [n \in {"x", "y"} |-> "v"], <<7, Len(input)>>)
    /\ part = "passwords" =>
         \A salt \in {<<3>>, <<5, 15>>, <<1, 2, 3>>}, iterations \in 1..3 :
             Co!KeysAsSpecified(input, salt, iterations, input)

\* Key rings, records of gpg and lines of OpenSSH are read into what they say
\* (src/gcr/gcr-openpgp.c, src/gcr/gcr-record.c, src/gcr/gcr-gnupg-records.c,
\* src/gcr/gcr-openssh.c).
KeysRead ==
    /\ part = "packets" => Pg!PacketsTile(input)
    /\ part = "keyring" =>
         LET packets == [i \in DOMAIN input |-> input[i] @@ [from |-> 2 * i, to |-> 2 * i + 2]] IN
         \A flags \in {{"keys"}, {"keys", "signatures", "attributes"}, {"keys", "no-records"}, {}} :
             \A failed \in BOOLEAN : Pg!BlocksAreKeys(packets, 2 * Len(input) + 2, failed, flags)
    /\ part = "columns" =>
         /\ Ls!ColumnsInOrder(input) /\ Ls!NumbersRead(input, {0, 9, 63, 64, 511, 512, 1023})
         /\ \A before \in {<<>>, <<<<"b">>>>} : Ls!ColumnsRoundTrip(input, before)
    /\ part = "userid" => Ls!UserIdParts(input, <<"a">>, <<"b", "b">>, <<"c">>)
    /\ part = "openssh" =>
         \A before \in {<<>>, <<"7", " ", "7", " ">>, <<"quote", "w", " ">>, <<"w", " ", "rsa", " ">>} :
             Ls!LinesHoldKeys(before \o input, <<<<"rsa", " ", "K-rsa">>, <<"#">>>>)

\* Names and extensions of a certificate are shown whole and in order
\* (src/egg/egg-dn.c, src/gcr/gcr-certificate.c, src/gcr/gcr-certificate-extension.c).
CertificatesShown ==
    /\ part = "name" => Ce!NamesShown(input)
    /\ part = "certificate" => \A stack \in {"zero", "garbage"} : Ce!ExtensionsShown([extensions |-> input], stack)
=============================================================================
