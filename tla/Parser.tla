------------------------------- MODULE Parser -------------------------------
(***************************************************************************)
(* What GcrParser does with a piece of data: the stack of what is being    *)
(* parsed, the passwords it tries and asks for, and the function of every  *)
(* format.  Data is abstract: a document has a type t (what it decodes     *)
(* as), the check that fails on it (bad, "" when none does), a name, the   *)
(* password that opens it (key) and the documents inside it (parts).       *)
(*                                                                         *)
(* A parsing context s holds the parser's passwords, the answers the       *)
(* application will give to "authenticate", the stack of frames (first is  *)
(* the innermost), what was fired, and what was asked.                     *)
(***************************************************************************)
EXTENDS Integers, Sequences, SequencesExt, FiniteSets

SUCCESS == 0
FAILURE == -1
UNRECOGNIZED == 1
CANCELLED == 2
LOCKED == 3

Doc(t, bad, name, key, parts) ==
  [t |-> t, bad |-> bad, name |-> name, key |-> key, parts |-> parts]

\* What a wrong password makes of encrypted data.
Junk == Doc("junk", "", "", "", <<>>)

Result(s, ret) == [s |-> s, ret |-> ret]

----------------------------------------------------------------------------
(* The stack of frames. *)

PushParsed(s, sensitive) ==
  [s EXCEPT !.stack = <<[format |-> "", data |-> <<>>, label |-> "", description |-> "",
                         builder |-> <<>>, attrs |-> <<>>, sensitive |-> sensitive]>> \o @]

PopParsed(s) == [s EXCEPT !.stack = Tail(@)]
Popped(read) == Result(PopParsed(read.s), read.ret)

ParsingBlock(s, format, d) ==
  [s EXCEPT !.stack[1].format = format, !.stack[1].data = <<d>>]

\* A new object starts: its class and type are the first attributes.
ParsingObject(s, class, type) ==
  [s EXCEPT !.stack[1].builder = <<class, type>>, !.stack[1].description = class]

SetAttributes(s, attrs) ==
  [s EXCEPT !.stack[1].builder = @ \o attrs, !.stack[1].description = attrs[1]]

SetLabel(s, label) == [s EXCEPT !.stack[1].label = label]

FirstSet(values, none) ==
  LET set == SelectSeq(values, LAMBDA v : v # none)
  IN  IF set = <<>> THEN none ELSE set[1]

GetDescription(stack) == FirstSet([i \in DOMAIN stack |-> stack[i].description], "")
GetAttributes(stack) == FirstSet([i \in DOMAIN stack |-> stack[i].attrs], <<>>)
GetLabel(stack) == FirstSet([i \in DOMAIN stack |-> stack[i].label], "")
GetBytes(stack) == FirstSet([i \in DOMAIN stack |-> stack[i].data], <<>>)

\* The format and sensitivity of the frame whose data GetBytes returns.
DataFrame(stack) ==
  LET withData == SelectSeq(stack, LAMBDA f : f.data # <<>>)
  IN  IF withData = <<>> THEN [format |-> "", sensitive |-> FALSE]
      ELSE [format |-> withData[1].format, sensitive |-> withData[1].sensitive]

\* The copy the first reference to a frame makes: the stack flattened.
ParsedRef(stack) ==
  [label |-> GetLabel(stack), attrs |-> GetAttributes(stack),
   description |-> GetDescription(stack), data |-> GetBytes(stack),
   format |-> DataFrame(stack).format, sensitive |-> DataFrame(stack).sensitive]

FireParsed(s) ==
  LET ended == [s EXCEPT !.stack[1].attrs = s.stack[1].builder, !.stack[1].builder = <<>>]
  IN  [ended EXCEPT !.fired = Append(@, ParsedRef(ended.stack))]

----------------------------------------------------------------------------
(* Passwords. *)

\* The application is asked for the ask-th time: it answers "authenticate" by
\* declining ("cancel"), by adding nothing ("none") or by adding a password.  An
\* application out of answers declines.
AskPassword(s, ask, block) ==
  LET answer == IF s.answers = <<>> THEN "cancel" ELSE s.answers[1]
      asked == [s EXCEPT !.answers = IF @ = <<>> THEN @ ELSE Tail(@),
                         !.asks = Append(@, [block |-> block, known |-> s.passwords,
                                             count |-> ask, answer |-> answer]),
                         !.passwords = IF answer \in {"cancel", "none"} THEN @
                                       ELSE Append(@, answer)]
  IN  [s |-> asked, ask |-> ask + 1, password |-> IF answer \in {"cancel", "none"} THEN "" ELSE answer,
       ret |-> CASE answer = "cancel" -> CANCELLED [] answer = "none" -> LOCKED [] OTHER -> SUCCESS]

\* The next password to try, by one loop that has tried `seen' so far and asked
\* `ask' times: from the list, else from the application.
EnumNextPassword(s, seen, ask, block) ==
  IF seen < Len(s.passwords)
  THEN [s |-> s, ret |-> SUCCESS, password |-> s.passwords[seen + 1], ask |-> ask]
  ELSE AskPassword(s, ask, block)

----------------------------------------------------------------------------
(* Keys, certificates and requests. *)

\* A private key in DER: unrecognized when it does not decode as this type (or
\* is of a version that is not supported), failed when a number is missing.
PrivateKeyDer(s, type, format, d) ==
  LET pushed == PushParsed(s, TRUE)
      begun == ParsingObject(ParsingBlock(pushed, format, d), "private", type)
  IN  IF d.t # type \/ d.bad = "version" THEN Result(PopParsed(pushed), UNRECOGNIZED)
      ELSE IF d.bad # "" THEN Result(PopParsed(begun), FAILURE)
      ELSE Result(PopParsed(FireParsed(begun)), SUCCESS)

PrivateKeyRsa(s, d) == PrivateKeyDer(s, "rsa", "DER_PRIVATE_KEY_RSA", d)
PrivateKeyDsa(s, d) == PrivateKeyDer(s, "dsa", "DER_PRIVATE_KEY_DSA", d)
PrivateKeyEc(s, d) == PrivateKeyDer(s, "ec", "DER_PRIVATE_KEY_EC", d)

\* The private number alone, with the parameters of the PKCS#8 structure around
\* it (params names their type): no block of its own.
PrivateKeyDsaParts(s, d, params) ==
  LET pushed == PushParsed(s, TRUE)
      begun == ParsingObject(pushed, "private", "dsa")
  IN  IF d.t # "dsapart" \/ params # "dsaparams" THEN Result(PopParsed(pushed), UNRECOGNIZED)
      ELSE IF d.bad # "" THEN Result(PopParsed(begun), FAILURE)
      ELSE Result(PopParsed(FireParsed(begun)), SUCCESS)

\* Each parser in turn while the data is not recognized.
PrivateKey(s, d) ==
  LET ec(dsa) == IF dsa.ret # UNRECOGNIZED THEN dsa ELSE PrivateKeyEc(dsa.s, d)
      dsa(rsa) == IF rsa.ret # UNRECOGNIZED THEN rsa ELSE PrivateKeyDsa(rsa.s, d)
  IN  ec(dsa(PrivateKeyRsa(s, d)))

\* The algorithm's own reader: RSA and DSA decode the key and need their
\* numbers, EC takes the bits as they are.
SubjectPublicKeyRsa(s, d) ==
  IF d.bad # "" THEN Result(s, FAILURE) ELSE Result(ParsingObject(s, "public", "rsa"), SUCCESS)
SubjectPublicKeyDsa(s, d) ==
  IF d.bad # "" THEN Result(s, FAILURE) ELSE Result(ParsingObject(s, "public", "dsa"), SUCCESS)
SubjectPublicKeyEc(s, d) == Result(ParsingObject(s, "public", "ec"), SUCCESS)

SubjectPublicKey(s, d) ==
  LET fired(read) == IF read.ret = SUCCESS THEN Result(FireParsed(read.s), SUCCESS) ELSE read
      begun == ParsingBlock(PushParsed(s, TRUE), "DER_SUBJECT_PUBLIC_KEY", d)
      read == CASE d.name = "rsa" -> SubjectPublicKeyRsa(begun, d)
                [] d.name = "dsa" -> SubjectPublicKeyDsa(begun, d)
                [] d.name = "ec" -> SubjectPublicKeyEc(begun, d)
                [] OTHER -> Result(begun, UNRECOGNIZED)
  IN  IF d.t # "spki" THEN Result(s, UNRECOGNIZED)
      ELSE Popped(fired(read))

\* d.name is the algorithm, d.key the type of its parameters.
Pkcs8Plain(s, d) ==
  LET pushed == PushParsed(s, TRUE)
      begun == ParsingBlock(pushed, "DER_PKCS8_PLAIN", d)
      inner == d.parts[1]
      parts(sane) == IF sane.ret = UNRECOGNIZED /\ d.key # ""
                     THEN PrivateKeyDsaParts(sane.s, inner, d.key) ELSE sane
  IN  IF d.t # "pkcs8" THEN Result(PopParsed(pushed), UNRECOGNIZED)
      ELSE IF d.bad # "" THEN Result(PopParsed(begun), FAILURE)
      ELSE Popped(CASE d.name = "rsa" -> PrivateKeyRsa(begun, inner)
                    [] d.name = "dsa" -> parts(PrivateKeyDsa(begun, inner))
                    [] d.name = "ec" -> PrivateKeyEc(begun, inner)
                    [] OTHER -> Result(begun, UNRECOGNIZED))

\* The subject's common name is the label, unless what contains it has one.
Named(s, d) == IF GetLabel(s.stack) = "" THEN SetLabel(s, d.name) ELSE s

Certificate(s, d) ==
  LET begun == ParsingObject(ParsingBlock(PushParsed(s, FALSE), "DER_CERTIFICATE_X509", d),
                             "certificate", "x509")
  IN  IF d.t # "cert" THEN Result(s, UNRECOGNIZED)
      ELSE Result(PopParsed(FireParsed(Named(begun, d))), SUCCESS)

Pkcs10(s, d) ==
  LET begun == ParsingObject(ParsingBlock(PushParsed(s, FALSE), "DER_PKCS10", d),
                             "request", "pkcs10")
  IN  IF d.t # "pkcs10" THEN Result(s, UNRECOGNIZED)
      ELSE Result(PopParsed(FireParsed(Named(begun, d))), SUCCESS)

Spkac(s, d) ==
  LET begun == ParsingObject(ParsingBlock(PushParsed(s, FALSE), "DER_SPKAC", d),
                             "request", "spkac")
  IN  IF d.t # "spkac" THEN Result(s, UNRECOGNIZED)
      ELSE Result(PopParsed(FireParsed(begun)), SUCCESS)

\* Mutant: the frame is left on the stack.
Base64SpkacUnpopped(s, d) ==
  IF d.t # "b64spkac" THEN Result(s, UNRECOGNIZED)
  ELSE Spkac(ParsingBlock(PushParsed(s, FALSE), "DER_SPKAC", d), d.parts[1])

\* The document after "SPKAC=" is d.parts[1].  Data of no more than six bytes is
\* not looked at and taken as well: there is no document in it.
Base64Spkac(s, d) ==
  LET begun == ParsingBlock(PushParsed(s, FALSE), "DER_SPKAC", d)
      inside == IF d.t = "b64spkac" THEN d.parts[1] ELSE d
  IN  IF d.t # "b64spkac" /\ d.bad # "short" THEN Result(s, UNRECOGNIZED)
      ELSE Popped(Spkac(begun, inside))

\* The certificates in turn, up to the first that is none.
Pkcs7Certificate(acc, certificate) ==
  IF acc.ret # SUCCESS THEN acc ELSE Certificate(acc.s, certificate)

Pkcs7SignedData(s, d) ==
  IF d.bad = "signed" THEN Result(s, UNRECOGNIZED)
  ELSE FoldLeft(Pkcs7Certificate, Result(s, SUCCESS), d.parts)

Pkcs7(s, d) ==
  LET pushed == PushParsed(s, FALSE)
      begun == ParsingBlock(pushed, "DER_PKCS7", d)
  IN  IF d.t # "pkcs7" THEN Result(PopParsed(pushed), UNRECOGNIZED)
      ELSE IF d.bad = "type" THEN Result(PopParsed(begun), FAILURE)
      ELSE Popped(Pkcs7SignedData(begun, d))

Pkcs12CertBag(s, d) ==
  IF d.t # "certbag" THEN Result(s, UNRECOGNIZED)
  ELSE IF d.bad # "" THEN Result(s, FAILURE)
  ELSE Certificate(s, d.parts[1])

----------------------------------------------------------------------------
(* Packets and lines, which other readers find: one frame for each. *)

OnOpenpgpPacket(s, records) ==
  IF records.bad = "empty" THEN s
  ELSE PopParsed(FireParsed(ParsingObject(
         ParsingBlock(PushParsed(s, FALSE), "OPENPGP_PACKET", records), "records", "")))

OpenpgpPackets(s, d) ==
  IF d.t # "openpgp" \/ d.parts = <<>> THEN Result(s, UNRECOGNIZED)
  ELSE Result(FoldLeft(OnOpenpgpPacket, s, d.parts), SUCCESS)

OnOpensshKey(s, key) ==
  PopParsed(FireParsed(SetLabel(SetAttributes(
    ParsingBlock(PushParsed(s, FALSE), "OPENSSH_PUBLIC", key), <<"public", key.t>>), key.name)))

OpensshPublic(s, d) ==
  IF d.t # "openssh" \/ d.parts = <<>> THEN Result(s, UNRECOGNIZED)
  ELSE Result(FoldLeft(OnOpensshKey, s, d.parts), SUCCESS)

----------------------------------------------------------------------------
(* Encrypted containers, in the library's default back end.  A wrong       *)
(* password makes junk of the data, which is then not recognized.          *)

Decrypted(d, password) == IF password = d.key THEN d.parts[1] ELSE Junk

\* Password after password, while what it makes of the data is not recognized.
RECURSIVE DecryptPkcs8(_, _, _, _)
NextPkcs8(read, d, seen, ask) ==
  IF read.ret # UNRECOGNIZED THEN read ELSE DecryptPkcs8(read.s, d, seen, ask)
TryPkcs8(next, d, seen) ==
  IF next.ret # SUCCESS THEN Result(next.s, next.ret)
  ELSE IF d.bad = "cipher" THEN Result(next.s, FAILURE)
  ELSE NextPkcs8(Pkcs8Plain(next.s, Decrypted(d, next.password)), d, seen + 1, next.ask)
DecryptPkcs8(s, d, seen, ask) == TryPkcs8(EnumNextPassword(s, seen, ask, d), d, seen)

Pkcs8Encrypted(s, d) ==
  LET pushed == PushParsed(s, FALSE)
      begun == ParsingBlock(pushed, "DER_PKCS8_ENCRYPTED", d)
  IN  IF d.t # "pkcs8enc" THEN Result(PopParsed(pushed), UNRECOGNIZED)
      ELSE IF d.bad = "scheme" THEN Result(PopParsed(begun), FAILURE)
      ELSE Popped(DecryptPkcs8(begun, d, 0, 0))

\* Plain, and if it is not recognized encrypted.
IfEncrypted(plain, d) ==
  IF plain.ret = UNRECOGNIZED THEN Pkcs8Encrypted(plain.s, d) ELSE plain

Pkcs8(s, d) == IfEncrypted(Pkcs8Plain(s, d), d)

\* What is not recognized inside a container is skipped.
Skipped(read) == IF read.ret = UNRECOGNIZED THEN Result(read.s, SUCCESS) ELSE read

\* One bag: its friendly name is the label of what it holds.
Pkcs12BagItem(acc, bag) ==
  LET named == SetLabel(PushParsed(acc.s, FALSE), bag.name)
      inner == bag.parts[1]
  IN  IF acc.ret # SUCCESS THEN acc
      ELSE Skipped(Popped(CASE bag.t = "keybag" -> Pkcs8Plain(named, inner)
                            [] bag.t = "shroudedbag" -> Pkcs8Encrypted(named, inner)
                            [] bag.t = "certbags" -> Pkcs12CertBag(named, inner)
                            [] OTHER -> Result(named, UNRECOGNIZED)))

Pkcs12Bag(s, d) ==
  IF d.t # "bags" THEN Result(s, UNRECOGNIZED)
  ELSE FoldLeft(Pkcs12BagItem, Result(s, SUCCESS), d.parts)

RECURSIVE DecryptBag(_, _, _, _)
NextBag(read, d, seen, ask) ==
  IF read.ret # UNRECOGNIZED THEN read ELSE DecryptBag(read.s, d, seen, ask)
TryBag(next, d, seen) ==
  IF next.ret # SUCCESS THEN Result(next.s, next.ret)
  ELSE IF d.bad = "cipher" THEN Result(next.s, FAILURE)
  ELSE NextBag(Pkcs12Bag(next.s, Decrypted(d, next.password)), d, seen + 1, next.ask)
DecryptBag(s, d, seen, ask) == TryBag(EnumNextPassword(s, seen, ask, d), d, seen)

Pkcs12EncryptedBag(s, d) ==
  IF d.bad = "any" THEN Result(s, UNRECOGNIZED)
  ELSE IF d.bad = "scheme" THEN Result(s, FAILURE)
  ELSE DecryptBag(s, d, 0, 0)

\* What is not recognized is skipped; anything worse ends the safe.
Pkcs12SafeItem(acc, content) ==
  IF acc.ret # SUCCESS THEN acc
  ELSE Skipped(CASE content.t = "data" ->
                      IF content.bad # "" THEN Result(acc.s, FAILURE)
                      ELSE Pkcs12Bag(acc.s, content.parts[1])
                 [] content.t = "encdata" -> Pkcs12EncryptedBag(acc.s, content)
                 [] OTHER -> Result(acc.s, UNRECOGNIZED))

Pkcs12Safe(s, d) == FoldLeft(Pkcs12SafeItem, Result(s, SUCCESS), d.parts)

\* The password whose MAC is the one in the file; d.key is "nomac" without one.
RECURSIVE VerifyMac(_, _, _, _)
TryMac(next, d, seen) ==
  IF next.ret # SUCCESS THEN Result(next.s, next.ret)
  ELSE IF d.bad = "mac" THEN Result(next.s, FAILURE)
  ELSE IF next.password = d.key THEN Result(next.s, SUCCESS)
  ELSE VerifyMac(next.s, d, seen + 1, next.ask)
VerifyMac(s, d, seen, ask) == TryMac(EnumNextPassword(s, seen, ask, d), d, seen)

VerifyPkcs12Safe(s, d) == IF d.key = "nomac" THEN Result(s, SUCCESS) ELSE VerifyMac(s, d, 0, 0)

\* The contents, once the password is verified.
OpenedSafe(verified, d) ==
  IF verified.ret # SUCCESS THEN verified ELSE Pkcs12Safe(verified.s, d)

Pkcs12(s, d) ==
  LET pushed == PushParsed(s, FALSE)
      begun == ParsingBlock(pushed, "DER_PKCS12", d)
  IN  IF d.t # "pkcs12" THEN Result(PopParsed(pushed), UNRECOGNIZED)
      ELSE IF d.bad = "type" THEN Result(PopParsed(begun), UNRECOGNIZED)
      ELSE Popped(OpenedSafe(VerifyPkcs12Safe(begun, d), d))

----------------------------------------------------------------------------
(* Armor. *)

\* The DER format inside a PEM block and the format of the block.
ArmorFormats ==
  [rsa |-> <<"DER_PRIVATE_KEY_RSA", "PEM_PRIVATE_KEY_RSA">>,
   dsa |-> <<"DER_PRIVATE_KEY_DSA", "PEM_PRIVATE_KEY_DSA">>,
   ec |-> <<"DER_PRIVATE_KEY_EC", "PEM_PRIVATE_KEY_EC">>,
   any |-> <<"DER_PRIVATE_KEY", "PEM_PRIVATE_KEY">>,
   pkcs8 |-> <<"DER_PKCS8_PLAIN", "PEM_PKCS8_PLAIN">>,
   pkcs8enc |-> <<"DER_PKCS8_ENCRYPTED", "PEM_PKCS8_ENCRYPTED">>,
   cert |-> <<"DER_CERTIFICATE_X509", "PEM_CERTIFICATE_X509">>,
   pkcs7 |-> <<"DER_PKCS7", "PEM_PKCS7">>,
   pkcs10 |-> <<"DER_PKCS10", "PEM_PKCS10">>,
   pkcs12 |-> <<"DER_PKCS12", "PEM_PKCS12">>,
   spki |-> <<"DER_SUBJECT_PUBLIC_KEY", "PEM_PUBLIC_KEY">>,
   pgp |-> <<"OPENPGP_PACKET", "OPENPGP_ARMOR">>]

\* The parsers of the formats that a block may hold.
DerFunction(s, format, d) ==
  CASE format = "DER_PRIVATE_KEY" -> PrivateKey(s, d)
    [] format = "DER_PRIVATE_KEY_RSA" -> PrivateKeyRsa(s, d)
    [] format = "DER_PRIVATE_KEY_DSA" -> PrivateKeyDsa(s, d)
    [] format = "DER_PRIVATE_KEY_EC" -> PrivateKeyEc(s, d)
    [] format = "DER_SUBJECT_PUBLIC_KEY" -> SubjectPublicKey(s, d)
    [] format = "DER_CERTIFICATE_X509" -> Certificate(s, d)
    [] format = "DER_PKCS7" -> Pkcs7(s, d)
    [] format = "DER_PKCS8" -> Pkcs8(s, d)
    [] format = "DER_PKCS8_PLAIN" -> Pkcs8Plain(s, d)
    [] format = "DER_PKCS8_ENCRYPTED" -> Pkcs8Encrypted(s, d)
    [] format = "DER_PKCS10" -> Pkcs10(s, d)
    [] format = "DER_SPKAC" -> Spkac(s, d)
    [] format = "BASE64_SPKAC" -> Base64Spkac(s, d)
    [] format = "DER_PKCS12" -> Pkcs12(s, d)
    [] format = "OPENSSH_PUBLIC" -> OpensshPublic(s, d)
    [] format = "OPENPGP_PACKET" -> OpenpgpPackets(s, d)

\* want is "" when any format will do.
PlainPem(s, format, want, d) ==
  IF want \notin {"", format} THEN Result(s, UNRECOGNIZED) ELSE DerFunction(s, format, d)

RECURSIVE DecryptPem(_, _, _, _, _, _)
NextPem(read, format, want, d, seen, ask) ==
  IF read.ret # UNRECOGNIZED THEN read ELSE DecryptPem(read.s, format, want, d, seen, ask)
TryPem(next, format, want, d, seen) ==
  IF next.ret # SUCCESS THEN Result(next.s, next.ret)
  ELSE IF d.bad = "cipher" THEN Result(next.s, FAILURE)
  ELSE NextPem(PlainPem(next.s, format, want, Decrypted(d, next.password)), format, want, d, seen + 1, next.ask)
DecryptPem(s, format, want, d, seen, ask) == TryPem(EnumNextPassword(s, seen, ask, d), format, want, d, seen)

\* A block with Proc-Type 4,ENCRYPTED (d.key is its password) and DEK-Info.
EncryptedPem(s, format, want, d) ==
  IF d.bad = "nodek" THEN Result(s, FAILURE) ELSE DecryptPem(s, format, want, d, 0, 0)

\* A later result replaces an earlier one only when its code is greater.
MergedBlock(acc, read) ==
  Result(PopParsed(read.s),
         IF read.ret = UNRECOGNIZED THEN acc.ret
         ELSE IF acc.ret = UNRECOGNIZED \/ read.ret > acc.ret THEN read.ret
         ELSE acc.ret)

\* One block.  After a failure nothing more is parsed.
PemData(acc, want, d) ==
  LET inner == ArmorFormats[d.name][1]
      begun == ParsingBlock(PushParsed(acc.s, FALSE), ArmorFormats[d.name][2], d)
  IN  IF acc.ret = FAILURE \/ d.name \notin DOMAIN ArmorFormats THEN acc
      ELSE MergedBlock(acc, IF d.key # "plain" THEN EncryptedPem(begun, inner, want, d)
                            ELSE PlainPem(begun, inner, want, d.parts[1]))

PemFormat(s, want, d) ==
  IF d.t # "pem" \/ d.parts = <<>> THEN Result(s, UNRECOGNIZED)
  ELSE FoldLeft(LAMBDA acc, block : PemData(acc, want, block), Result(s, UNRECOGNIZED), d.parts)

\* The formats whose parser reads armor, with the format they want inside it.
PemWants ==
  [PEM |-> "", OPENPGP_ARMOR |-> "OPENPGP_PACKET",
   PEM_PRIVATE_KEY_RSA |-> "DER_PRIVATE_KEY_RSA", PEM_PRIVATE_KEY_DSA |-> "DER_PRIVATE_KEY_DSA",
   PEM_CERTIFICATE_X509 |-> "DER_CERTIFICATE_X509", PEM_PKCS7 |-> "DER_PKCS7",
   PEM_PKCS8_PLAIN |-> "DER_PKCS8_PLAIN", PEM_PKCS8_ENCRYPTED |-> "DER_PKCS8_ENCRYPTED",
   PEM_PKCS12 |-> "DER_PKCS12", PEM_PKCS10 |-> "DER_PKCS10",
   PEM_PRIVATE_KEY_EC |-> "DER_PRIVATE_KEY_EC", PEM_PUBLIC_KEY |-> "DER_SUBJECT_PUBLIC_KEY"]

FormatFunction(s, format, d) ==
  IF format \in DOMAIN PemWants THEN PemFormat(s, PemWants[format], d)
  ELSE DerFunction(s, format, d)

----------------------------------------------------------------------------
(* The tables of formats. *)

ParserNormal ==
  <<"PEM", "BASE64_SPKAC", "DER_PRIVATE_KEY_RSA", "DER_PRIVATE_KEY_DSA", "DER_PRIVATE_KEY_EC",
    "DER_SUBJECT_PUBLIC_KEY", "DER_CERTIFICATE_X509", "DER_PKCS7", "DER_PKCS8_PLAIN",
    "DER_PKCS8_ENCRYPTED", "DER_PKCS12", "OPENSSH_PUBLIC", "OPENPGP_PACKET", "OPENPGP_ARMOR",
    "DER_PKCS10", "DER_SPKAC">>

\* In the order of the identifiers; PEM_PRIVATE_KEY, an outer format, has no parser.
ParserFormats ==
  <<"DER_PRIVATE_KEY", "DER_PRIVATE_KEY_RSA", "DER_PRIVATE_KEY_DSA", "DER_PRIVATE_KEY_EC",
    "DER_SUBJECT_PUBLIC_KEY", "DER_CERTIFICATE_X509", "DER_PKCS7", "DER_PKCS8",
    "DER_PKCS8_PLAIN", "DER_PKCS8_ENCRYPTED", "DER_PKCS10", "DER_SPKAC", "BASE64_SPKAC",
    "DER_PKCS12", "OPENSSH_PUBLIC", "OPENPGP_PACKET", "OPENPGP_ARMOR", "PEM",
    "PEM_PRIVATE_KEY_RSA", "PEM_PRIVATE_KEY_DSA", "PEM_CERTIFICATE_X509", "PEM_PKCS7",
    "PEM_PKCS8_PLAIN", "PEM_PKCS8_ENCRYPTED", "PEM_PKCS12", "PEM_PKCS10",
    "PEM_PRIVATE_KEY_EC", "PEM_PUBLIC_KEY">>

\* Format after format, up to the first that recognizes the data.
ForeachFormat(s, formats, d) ==
  FoldLeft(LAMBDA acc, format : IF acc.ret # UNRECOGNIZED THEN acc ELSE FormatFunction(acc.s, format, d),
           Result(s, UNRECOGNIZED), formats)

----------------------------------------------------------------------------
(* GcrParser as its users see it: the formats that are enabled, the        *)
(* passwords, and parsing.  The application is part of the model: it       *)
(* answers "authenticate" as it likes.                                     *)

CONSTANTS
  Docs,          \* the documents that may be parsed, sequences of parts included
  Keys,          \* the passwords the application may know
  Requested,     \* the formats an application enables or disables one by one
  MaxPasswords,  \* bound: passwords in the parser's list
  MaxAnswers     \* bound: answers to "authenticate" during one parse

VARIABLES
  passwords,     \* the parser's list; "null" is the NULL password
  specific,      \* <<>>: no specific formats; <<S>>: the set enabled
  normal,        \* whether the normal formats are tried when none is specific
  last           \* the last parse: [doc, before, ret, fired, asks, stack], or <<>>

vars == <<passwords, specific, normal, last>>

Init ==
  /\ passwords = <<"null", "">>
  /\ specific = <<>>
  /\ normal = TRUE
  /\ last = <<>>

----------------------------------------------------------------------------
\* gcr_parser_add_password.
AddPassword(p) ==
  /\ Len(passwords) < MaxPasswords
  /\ p \notin ToSet(passwords)
  /\ last = <<>>
  /\ passwords' = Append(passwords, p)
  /\ UNCHANGED <<specific, normal, last>>

\* gcr_parser_format_enable, of one format or ("ALL") of every one.
FormatEnable(f) ==
  /\ last = <<>>
  /\ specific' = LET known == IF specific = <<>> THEN {} ELSE specific[1]
                 IN  <<known \cup (IF f = "ALL" THEN ToSet(ParserFormats) ELSE {f})>>
  /\ UNCHANGED <<passwords, normal, last>>

\* gcr_parser_format_disable: of one format it needs specific formats; of all
\* ("ALL") it forgets them and the normal ones.
FormatDisable(f) ==
  /\ last = <<>>
  /\ specific' = IF f = "ALL" \/ specific = <<>> THEN <<>> ELSE <<specific[1] \ {f}>>
  /\ normal' = (normal /\ f # "ALL")
  /\ UNCHANGED <<passwords, last>>

\* The formats that are tried, in their order.
FormatsTried ==
  IF specific # <<>> THEN SelectSeq(ParserFormats, LAMBDA f : f \in specific[1])
  ELSE IF normal THEN ParserNormal ELSE <<>>

RECURSIVE KeysOf(_)
\* The passwords of the encrypted parts of a document.
KeysOf(d) ==
  (IF d.t \in {"pkcs8enc", "encdata"} \/ (d.t = "block" /\ d.key # "plain")
      \/ (d.t = "pkcs12" /\ d.key # "nomac") THEN {d.key} ELSE {})
  \cup UNION {KeysOf(d.parts[i]) : i \in DOMAIN d.parts}

\* What the application may answer while doc is parsed: a document without
\* passwords asks for none.
Answers(doc) ==
  IF KeysOf(doc) = {} THEN {<<>>}
  ELSE UNION {[1..n -> Keys \cup {"cancel", "none"}] : n \in 0..MaxAnswers}

\* What is kept of a parse.
ParseResult(doc, read) ==
  [doc |-> doc, before |-> passwords, tried |-> FormatsTried, ret |-> read.ret,
   passwords |-> read.s.passwords, fired |-> read.s.fired, asks |-> read.s.asks,
   stack |-> read.s.stack, unused |-> read.s.answers]

\* gcr_parser_parse_bytes of doc, while the application answers with answers.
Parsed(doc, answers) ==
  LET s0 == [passwords |-> passwords, answers |-> answers, stack |-> <<>>,
             fired |-> <<>>, asks |-> <<>>]
  IN  ParseResult(doc, IF doc.t = "empty" THEN Result(s0, UNRECOGNIZED)
                       ELSE ForeachFormat(s0, FormatsTried, doc))

Parse(doc, answers) ==
  /\ last = <<>>
  /\ \E p \in {Parsed(doc, answers)} :
       /\ p.unused = <<>>
       /\ Len(p.passwords) =< MaxPasswords
       /\ passwords' = p.passwords
       /\ last' = p
  /\ UNCHANGED <<specific, normal>>

\* The application has looked at the result: last is history, forgotten before
\* the next call.
Forget ==
  /\ last # <<>>
  /\ last' = <<>>
  /\ UNCHANGED <<passwords, specific, normal>>

Next ==
  \/ \E p \in Keys : AddPassword(p)
  \/ \E f \in Requested \cup {"ALL"} : FormatEnable(f) \/ FormatDisable(f)
  \/ \E doc \in Docs : \E answers \in Answers(doc) : Parse(doc, answers)
  \/ Forget

Spec == Init /\ [][Next]_vars

----------------------------------------------------------------------------
(* Reference: what a document holds, from outside in. *)

RECURSIVE Sound(_)
\* No check fails on the document or on anything inside it.
Sound(d) == d.bad = "" /\ \A i \in DOMAIN d.parts : Sound(d.parts[i])

RECURSIVE Items(_, _)
\* The objects in a document in order, as <<class, label>>; label is what a
\* container has named them.
Items(d, label) ==
  LET Inside(l) == FlattenSeq([i \in DOMAIN d.parts |-> Items(d.parts[i], l)])
      own == IF label # "" THEN label ELSE d.name
  IN  CASE d.t \in {"rsa", "dsa", "ec", "dsapart"} -> <<<<"private", label>>>>
        [] d.t = "spki" -> <<<<"public", label>>>>
        [] d.t = "cert" -> <<<<"certificate", own>>>>
        [] d.t = "pkcs10" -> <<<<"request", own>>>>
        [] d.t = "spkac" -> <<<<"request", label>>>>
        [] d.t = "packet" -> <<<<"records", label>>>>
        [] d.t = "sshkey" -> <<<<"public", d.name>>>>
        [] d.t \in {"keybag", "shroudedbag", "certbags"} -> Inside(d.name)
        [] d.t \in {"junk", "crlbag"} -> <<>>
        [] OTHER -> Inside(label)

FiredItems == [i \in DOMAIN last.fired |-> <<last.fired[i].description, last.fired[i].label>>]

RECURSIVE SubSeqOf(_, _)
SubSeqOf(a, b) ==
  \/ a = <<>>
  \/ /\ b # <<>>
     /\ IF a[1] = b[1] THEN SubSeqOf(Tail(a), Tail(b)) ELSE SubSeqOf(a, Tail(b))

----------------------------------------------------------------------------
\* Every frame pushed while parsing is popped, on every path out of every
\* parser (gcr_parser_dispose asserts it, _gcr_parser_pop_parsed asserts the
\* order), and no object is announced more than once, out of order, or under
\* the label of another bag.
FramesBalanced ==
  last # <<>> => last.stack = <<>> /\ SubSeqOf(FiredItems, Items(last.doc, ""))

\* A sound document is parsed completely when its passwords are known or come
\* from the application: success means that every object in it was announced.
SuccessMeansAll ==
  (last # <<>> /\ Sound(last.doc) /\ last.tried = ParserNormal) =>
     LET refused == \E i \in DOMAIN last.asks : last.asks[i].answer \in {"cancel", "none"}
         opened == KeysOf(last.doc) \subseteq ToSet(last.passwords)
     IN  /\ last.ret = SUCCESS => FiredItems = Items(last.doc, "")
         /\ (opened /\ ~refused) => last.ret = SUCCESS

\* The application is asked for the password of a block only when none that is
\* known opens it, never again for a password it has given; the parse is locked
\* or cancelled only by its answer.  (When only other formats are wanted a block
\* is never recognized and its password is asked for all the same.)
AskedOnlyWhenNeeded ==
  last # <<>> =>
     /\ \A i \in DOMAIN last.asks :
          LET ask == last.asks[i]
          IN  Sound(ask.block) /\ last.tried = ParserNormal => ask.block.key \notin ToSet(ask.known)
     /\ last.ret = LOCKED => \E i \in DOMAIN last.asks : last.asks[i].answer = "none"
     /\ last.ret = CANCELLED => \E i \in DOMAIN last.asks : last.asks[i].answer = "cancel"

----------------------------------------------------------------------------
(* GcrParsing: a stream is read block by block into a buffer and parsed at *)
(* its end; what parsing the bytes answers is the Parser module's subject  *)
(* and any code here.  Several streams may be read with one parser.        *)

CONSTANTS
  Streams,       \* the streams being parsed
  MaxBlocks      \* bound: blocks in a stream

VARIABLE
  parsing        \* stream -> [state, left, buffer, cancel, error, parsed, told]

Codes == {0, -1, 1, 3}

PInit == parsing = [i \in Streams |-> [state |-> "none", left |-> 0, buffer |-> <<>>, cancel |-> FALSE,
                                       error |-> 0, parsed |-> <<>>, told |-> <<>>]]

Set(i, p) == parsing' = [parsing EXCEPT ![i] = p]

\* next_state: every state but the cancelled one is entered through a look at
\* the cancellable.
NextState(p, state) == [p EXCEPT !.state = IF p.cancel THEN "cancelled" ELSE state]

\* gcr_parser_parse_stream (_async) of a stream of n blocks.
ParseStream(i, n, cancelled) ==
  /\ parsing[i].state = "none" /\ parsing[i].told = <<>>
  /\ Set(i, NextState([parsing[i] EXCEPT !.left = n, !.cancel = cancelled], "read"))

\* state_read_buffer and complete_read_buffer: the buffer grows by a block, or
\* stays as it was at the end of the stream, or reading fails.
ReadBuffer(i) ==
  LET p == parsing[i]
      buffer == IF p.buffer = <<>> THEN <<0>> ELSE p.buffer
  IN  /\ p.state = "read"
      /\ \/ /\ p.left > 0
            /\ Set(i, NextState([p EXCEPT !.left = @ - 1, !.buffer = <<buffer[1] + 1>>], "read"))
         \/ /\ p.left = 0
            /\ Set(i, NextState([p EXCEPT !.buffer = buffer], "parse"))
         \/ Set(i, NextState([p EXCEPT !.buffer = buffer, !.error = -1], "failure"))

\* state_parse_buffer: the buffer becomes the bytes and is gone.
ParseBuffer(i) ==
  LET p == [parsing[i] EXCEPT !.parsed = parsing[i].buffer, !.buffer = <<>>]
  IN  /\ parsing[i].state = "parse"
      /\ \E code \in Codes :
           /\ (p.parsed = <<0>> => code = 1)
           /\ Set(i, IF code = 0 THEN NextState(p, "complete")
                     ELSE NextState([p EXCEPT !.error = code], "failure"))

StateFailure(i) ==
  /\ parsing[i].state = "failure"
  /\ Set(i, NextState(parsing[i], "complete"))

\* state_cancelled goes on to state_failure through next_state, which finds the
\* cancellable still cancelled: it does not get past this state.
StateCancelled(i) ==
  /\ parsing[i].state = "cancelled"
  /\ Set(i, NextState([parsing[i] EXCEPT !.error = 2], "failure"))

\* state_complete calls back and gcr_parser_parse_stream_finish tells the error.
Finish(i) ==
  /\ parsing[i].state = "complete"
  /\ Set(i, [parsing[i] EXCEPT !.state = "none", !.told = <<parsing[i].error>>])

\* The application cancels, from any thread.
CancelStream(i) ==
  /\ parsing[i].state # "none" /\ ~parsing[i].cancel
  /\ Set(i, [parsing[i] EXCEPT !.cancel = TRUE])

Step(i) == ReadBuffer(i) \/ ParseBuffer(i) \/ StateFailure(i) \/ StateCancelled(i) \/ Finish(i)

PNext ==
  \E i \in Streams :
    \/ \E n \in 0..MaxBlocks, cancelled \in BOOLEAN : ParseStream(i, n, cancelled)
    \/ Step(i)
    \/ CancelStream(i)

\* Reading goes on in the caller's thread or in the main loop.
PFairness == \A i \in Streams : WF_parsing(Step(i))

PSpec == PInit /\ [][PNext]_parsing /\ PFairness

\* A stream that was begun and is not cancelled; and one that was read to its end
\* and answered.
Pending(i) == (parsing[i].state # "none" \/ parsing[i].told # <<>>) /\ ~parsing[i].cancel
Answered(i) ==
  /\ parsing[i].told # <<>>
  /\ parsing[i].told[1] = 0 => (parsing[i].parsed # <<>> /\ parsing[i].left = 0)

\* Streams that are never cancelled are read to their end, parsed once with all of
\* their blocks, and answered, however reading or parsing fails.
StreamsComplete ==
  (\E i \in Streams : Pending(i)) ~> (\A i \in Streams : Pending(i) => Answered(i))
=============================================================================
