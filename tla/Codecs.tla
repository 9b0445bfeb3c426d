------------------------------- MODULE Codecs --------------------------------
(****************************************************************************)
(* Hexadecimal and decimal numbers, and padding: egg-hex.c, egg-decimal.c   *)
(* and egg-padding.c.  A character is a number: 0 to 15 a digit, the upper  *)
(* case ones included, 10 to 15 plus 100 a lower case digit, NUL the        *)
(* terminator, and anything below 0 no digit at all.  A failure is <<>>, a  *)
(* result <<bytes>>.                                                        *)
(*                                                                          *)
(* At the end the growing buffer of egg-buffer.c, the one part with state.  *)
(****************************************************************************)
EXTENDS Integers, Sequences, SequencesExt, Bitwise

CONSTANTS
    Arrays,       \* what is added: byte arrays
    Number32,     \* and numbers
    Reserve,      \* what egg_buffer_init_full is asked to reserve
    MaxAdds,      \* bound: values added
    MaxFailed     \* bound: failures

VARIABLES
    buffer,       \* [bytes, allocated, allocator, failures]
    items,        \* what was added, whole (history)
    torn          \* a part of a value was added (history)

bvars == <<buffer, items, torn>>

NUL == 16

Small(a, b) == IF a < b THEN a ELSE b

-----------------------------------------------------------------------------
(* egg-hex.c *)

\* The place in HEXC_UPPER: strchr finds the terminator too, which counts as 0.
IsDigit(c) == c \in 0..15 \/ c \in 110..115 \/ c = NUL
DigitOf(c) == (IF c >= 100 THEN c - 100 ELSE c) % 16

RECURSIVE HexDecodeFrom(_, _, _, _, _)

\* egg_hex_decode_full from place i on: a delimiter before every group but the
\* first, and a last group that may be short, or missing after its delimiter.
HexDecodeFrom(s, i, delim, group, out) ==
    IF i > Len(s) THEN <<out>>
    ELSE LET first == out = <<>>
             j == IF first THEN i ELSE i + Len(delim)
             chunk == SubSeq(s, j, Small(Len(s), j + 2 * group - 1))
         IN  IF ~first /\ (j > Len(s) + 1 \/ SubSeq(s, i, j - 1) # delim) THEN <<>>
             ELSE IF Len(chunk) % 2 = 1 \/ \E c \in ToSet(chunk) : ~IsDigit(c) THEN <<>>
             ELSE HexDecodeFrom(s, j + Len(chunk), delim, group,
                    out \o [k \in 1..Len(chunk) \div 2 |->
                              16 * DigitOf(chunk[2 * k - 1]) + DigitOf(chunk[2 * k])])

HexDecode(s, delim, group) == HexDecodeFrom(s, 1, delim, group, <<>>)

\* egg_hex_encode_full.
HexEncode(d, upper, delim, group) ==
    LET Hexc(n) == IF upper \/ n < 10 THEN n ELSE n + 100
        Before(k) == IF group > 0 /\ k > 1 /\ (k - 1) % group = 0 THEN delim ELSE <<>>
    IN  FlattenSeq([k \in DOMAIN d |-> Before(k) \o <<Hexc(d[k] \div 16), Hexc(d[k] % 16)>>])

-----------------------------------------------------------------------------
(* egg-decimal.c *)

\* One division of the digits by two, from the first that is not cleared on:
\* [digits, carry, cleared].
DivideStep(st, i) ==
    LET d == st.digits[i] \div 2 + st.carry IN
    [digits |-> [st.digits EXCEPT ![i] = d],
     carry |-> IF st.digits[i] % 2 = 1 THEN 5 ELSE 0,
     cleared |-> IF i = st.cleared + 1 /\ d = 0 THEN i ELSE st.cleared]

Divide(digits, cleared) ==
    FoldLeft(DivideStep, [digits |-> digits, carry |-> 0, cleared |-> cleared],
             [k \in 1..Len(digits) - cleared |-> cleared + k])

RECURSIVE Bits(_, _)

\* The bits, the lowest first, until all digits are cleared.
Bits(digits, cleared) ==
    IF cleared = Len(digits) THEN <<>>
    ELSE LET st == Divide(digits, cleared)
         IN  <<Last(digits) % 2>> \o Bits(st.digits, st.cleared)

\* The bytes the bits fill, from the end of the memory.
BytesOf(bits) ==
    LET n == (Len(bits) + 7) \div 8
        Bit(k) == IF k =< Len(bits) THEN bits[k] ELSE 0
    IN  [i \in 1..n |-> FoldLeft(LAMBDA acc, j : 2 * acc + Bit(8 * (n - i) + 9 - j), 0, [j \in 1..8 |-> j])]

\* Leading zeros are left out.
Significant(s) ==
    LET first == SelectInSeq(s, LAMBDA c : c # 0) IN IF first = 0 THEN <<>> ELSE SubSeq(s, first, Len(s))

\* egg_decimal_decode.
DecimalDecode(s) ==
    IF \E c \in ToSet(s) : c \notin 0..9 THEN <<>> ELSE <<BytesOf(Bits(Significant(s), 0))>>

-----------------------------------------------------------------------------
(* egg-padding.c *)

Filled(n, b) == [i \in 1..n |-> b]

\* egg_padding_zero_pad: in front.
ZeroPad(block, raw) == Filled(((Len(raw) + block - 1) \div block) * block - Len(raw), 0) \o raw

\* egg_padding_pkcs1_pad_01 and egg_padding_pkcs1_pad_02, with what is filled in:
\* 0xff, or random bytes.  Blocks of at most three bytes are refused, and the
\* assertion that the padding fits a block fails for data whose last block has no
\* room for the three bytes it needs.
Pkcs1Fill(block, raw) == ((Len(raw) + 3 + block - 1) \div block) * block - Len(raw) - 3
Pkcs1Pad(bt, block, fill, raw) ==
    IF block <= 3 \/ Len(fill) + 3 > block THEN <<>> ELSE <<<<0, bt>> \o fill \o <<0>> \o raw>>

RECURSIVE FillRandomNonzero(_, _)

\* fill_random_nonzero: the zeros are drawn again, until there are none; draws is
\* what the generator gives.
FillRandomNonzero(data, draws) ==
    LET zeros == {i \in DOMAIN data : data[i] = 0}
        Nth(i) == Len(SelectSeq([k \in 1..i |-> data[k]], LAMBDA b : b = 0))
    IN  IF zeros = {} THEN data
        ELSE FillRandomNonzero([i \in DOMAIN data |-> IF i \in zeros THEN Head(draws)[Nth(i)] ELSE data[i]], Tail(draws))

\* unpad_pkcs1: after the first zero behind the header.
Pkcs1Unpad(bt, block, padded) ==
    LET at == SelectInSubSeq(padded, 3, Len(padded), LAMBDA b : b = 0) IN
    IF block > 0 /\ Len(padded) % block # 0 THEN <<>>
    ELSE IF padded[1] # 0 \/ padded[2] # bt \/ at = 0 THEN <<>>
    ELSE <<SubSeq(padded, at + 1, Len(padded))>>

\* egg_padding_pkcs7_pad.
Pkcs7Pad(block, raw) ==
    LET n == ((Len(raw) + block) \div block) * block - Len(raw) IN raw \o Filled(n, n)

\* Mutant: only the last byte is looked at.
Pkcs7UnpadTrusting(block, padded) ==
    IF padded = <<>> THEN <<>>
    ELSE LET n == Last(padded) IN
         IF n = 0 \/ n > Len(padded) \/ (block > 0 /\ n > block) THEN <<>>
         ELSE <<SubSeq(padded, 1, Len(padded) - n)>>

\* egg_padding_pkcs7_unpad.
Pkcs7Unpad(block, padded) ==
    IF padded = <<>> THEN <<>>
    ELSE LET n == Last(padded) IN
         IF n = 0 \/ n > Len(padded) \/ (block > 0 /\ n > block) THEN <<>>
         ELSE IF \E i \in Len(padded) - n + 1..Len(padded) : padded[i] # n THEN <<>>
         ELSE <<SubSeq(padded, 1, Len(padded) - n)>>

-----------------------------------------------------------------------------
\* The number that digits, or bytes, stand for.
Number(base, s) == FoldLeft(LAMBDA acc, d : base * acc + d, 0, s)

\* The text, as bytes or as characters, through every codec: what is encoded
\* decodes to itself for every delimiter, grouping and case, and what decodes
\* is, but for a delimiter at its end, what encodes to the same text; a decimal
\* number keeps its value and has no leading zero byte; what is padded has whole
\* blocks and is found again, whatever random bytes were drawn, where PKCS#1 pads
\* at all; and PKCS#7 padding that is accepted is the padding that would be written.
CodecsInvert(text, delims, groups, blocks, draws) ==
    LET bytes == [i \in DOMAIN text |-> IF text[i] < 0 THEN 255 ELSE text[i]]
        upper == \A i \in DOMAIN text : text[i] < NUL
    IN  /\ \A delim \in delims, group \in groups, u \in BOOLEAN :
             HexDecode(HexEncode(bytes, u, delim, group), delim, group) = <<bytes>>
        /\ \A delim \in delims, group \in groups :
             LET out == HexDecode(text, delim, group)
                 back == HexEncode(out[1], TRUE, delim, group)
             IN  out # <<>> /\ upper => text = back \/ text = back \o delim
        /\ LET out == DecimalDecode(text)
           IN  out # <<>> => /\ Number(256, out[1]) = Number(10, text)
                             /\ out[1] = <<>> \/ out[1][1] # 0
        /\ \A block \in blocks :
             LET fill == Pkcs1Fill(block, bytes) IN
             /\ Len(ZeroPad(block, bytes)) % block = 0 /\ fill >= 0
             /\ \A first \in {Filled(fill, 0), [i \in 1..fill |-> i % 2]}, bt \in {1, 2} :
                  LET padded == Pkcs1Pad(bt, block, IF bt = 1 THEN Filled(fill, 255)
                                                    ELSE FillRandomNonzero(first, draws), bytes) IN
                  IF block > 3 /\ Len(bytes) % block <= block - 3
                  THEN Len(padded[1]) % block = 0 /\ Pkcs1Unpad(bt, block, padded[1]) = <<bytes>>
                  ELSE padded = <<>>
             /\ Pkcs7Unpad(block, Pkcs7Pad(block, bytes)) = <<bytes>>
             /\ Len(bytes) % block = 0 /\ Pkcs7Unpad(block, bytes) # <<>> =>
                  bytes = Pkcs7Pad(block, Pkcs7Unpad(block, bytes)[1])

----------------------------------------------------------------------------
(* egg-armor.c and egg-openssl.c: armored blocks and their encryption.  A   *)
(* document is a sequence of lines [is, what]:                              *)
(*   begin, end  -----BEGIN what-----, -----END what-----,                  *)
(*   broken      a BEGIN without its dashes at the end,                     *)
(*   blank       nothing, or white space only,                              *)
(*   header      what is <<name, value>>,                                   *)
(*   data        base64 characters for the bytes what,                      *)
(*   sum         a checksum, after an equals sign,                          *)
(*   noise       characters that are none of base64's.                      *)

Line(is, what) == [is |-> is, what |-> what]
Find(doc, from, kinds) == SelectInSubSeq(doc, from, Len(doc), LAMBDA l : l.is \in kinds)

\* What lines decode as that are not base64 from the first on: something.
Garbled == <<"?">>

\* g_base64_decode_step, over lines.
Decoded(lines) ==
    IF \A i \in DOMAIN lines : lines[i].is \in {"data", "blank", "noise"}
    THEN FlattenSeq([i \in DOMAIN lines |-> IF lines[i].is = "data" THEN lines[i].what ELSE <<>>])
    ELSE Garbled

\* parse_header_lines: the last of a name counts, and lines without a colon none.
HeaderLines(lines) ==
    LET hs == SelectSeq(lines, LAMBDA l : l.is = "header") IN
    FoldLeft(LAMBDA t, l : [n \in DOMAIN t \cup {l.what[1]} |-> IF n = l.what[1] THEN l.what[2] ELSE t[n]],
             [n \in {} |-> ""], hs)

\* armor_parse_block: everything up to the first blank line is headers.
SplitAt(lines, blank) ==
    [headers |-> HeaderLines(SubSeq(lines, 1, blank)), data |-> Decoded(SubSeq(lines, blank + 1, Len(lines)))]
ParseBlock(lines) == SplitAt(lines, SelectInSeq(lines, LAMBDA l : l.is = "blank"))

\* armor_find_begin: the place of the first BEGIN, or 0; one that is broken hides
\* all that follow.
UnlessBroken(doc, i) == IF i # 0 /\ doc[i].is = "broken" THEN 0 ELSE i
FindBegin(doc, from) == UnlessBroken(doc, Find(doc, from, {"begin", "broken"}))

\* armor_find_end: the next END must be of the same type.
IfOfType(doc, j, type) == IF j # 0 /\ doc[j].what # type THEN 0 ELSE j
FindEnd(doc, from, type) == IfOfType(doc, Find(doc, from, {"end"}), type)

\* The checksum, when it is the last line, is left out.
BlockLines(doc, i, j) ==
    SubSeq(doc, i + 1, IF j - 1 > i /\ doc[j - 1].is = "sum" THEN j - 2 ELSE j - 1)

\* What the callback is given of a block between i and j: nothing without data.
Reported(doc, i, j, b) ==
    IF b.data = <<>> THEN <<>>
    ELSE <<[type |-> doc[i].what, data |-> b.data, headers |-> b.headers, from |-> i, to |-> j]>>

RECURSIVE ParseFrom(_, _), ParseTo(_, _, _)

\* egg_armor_parse: the blocks that have data, until there is no BEGIN, or no END
\* that fits.
ParseBegun(doc, i) == IF i = 0 THEN <<>> ELSE ParseTo(doc, i, FindEnd(doc, i + 1, doc[i].what))
ParseTo(doc, i, j) ==
    IF j = 0 THEN <<>>
    ELSE Reported(doc, i, j, ParseBlock(BlockLines(doc, i, j))) \o ParseFrom(doc, j + 1)
ParseFrom(doc, at) == ParseBegun(doc, FindBegin(doc, at))

ArmorParse(doc) == ParseFrom(doc, 1)

\* egg_armor_write: two headers come first, and a blank line only after headers.
OrderedHeaders == <<"Proc-Type", "DEK-Info">>
WriteHeaders(headers, names) ==
    [i \in DOMAIN names |-> Line("header", <<names[i], headers[names[i]]>>)]
    \o (IF names = <<>> THEN <<>> ELSE <<Line("blank", "")>>)
ArmorWrite(type, data, headers) ==
        <<Line("begin", type)>>
        \o WriteHeaders(headers, SelectSeq(OrderedHeaders, LAMBDA n : n \in DOMAIN headers)
                                   \o SetToSeq(DOMAIN headers \ ToSet(OrderedHeaders)))
        \o [i \in DOMAIN data |-> Line("data", <<data[i]>>)]
        \o <<Line("end", type)>>

-----------------------------------------------------------------------------
(* egg-openssl.c.  A DEK-Info value is <<algorithm, iv>>; what is encrypted is *)
(* <<"cipher", key, iv, plain>> for each block, and decrypts to itself with the *)
(* same key and to noise with another.                                         *)

\* egg_openssl_parse_algo and gcry_cipher_get_algo_blklen: the block length, 0
\* for an algorithm that is not known.
BlockLen(algo) == CASE algo = "DES-EDE3-CBC" -> 2 [] algo = "AES-128-CBC" -> 4 [] OTHER -> 0

\* egg_openssl_get_dekinfo.
GetDekinfo(headers) ==
    IF "Proc-Type" \notin DOMAIN headers \/ headers["Proc-Type"] # "4,ENCRYPTED" THEN <<>>
    ELSE IF "DEK-Info" \notin DOMAIN headers THEN <<>> ELSE <<headers["DEK-Info"]>>

\* egg_openssl_prep_dekinfo, with the nonce that was drawn.
PrepDekinfo(headers, iv) ==
    [n \in DOMAIN headers \cup {"Proc-Type", "DEK-Info"} |->
       CASE n = "Proc-Type" -> "4,ENCRYPTED"
         [] n = "DEK-Info" -> <<"DES-EDE3-CBC", iv>>
         [] OTHER -> headers[n]]

\* parse_dekinfo: the IV has exactly one block.
DekinfoOk(dek) == BlockLen(dek[1]) > 0 /\ Len(dek[2]) = BlockLen(dek[1])

\* egg_symkey_generate_simple, with the start of the IV as salt.
KeyFor(password, dek) == <<password, dek[1], dek[2]>>

\* egg_openssl_encrypt_block: whole blocks at once, and the rest filled with zeros.
Enciphered(key, data) == [i \in DOMAIN data |-> <<key, data[i]>>]
LastBlock(n, rest) == IF rest = <<>> THEN <<>> ELSE rest \o [i \in 1..n - Len(rest) |-> 0]
InBlocks(n, over, data) ==
    SubSeq(data, 1, Len(data) - over) \o LastBlock(n, SubSeq(data, Len(data) - over + 1, Len(data)))
EncryptBlock(dek, password, data) ==
    Enciphered(KeyFor(password, dek), InBlocks(BlockLen(dek[1]), Len(data) % BlockLen(dek[1]), data))

\* egg_openssl_decrypt_block.
DecryptBlock(dek, password, data) ==
    IF ~DekinfoOk(dek) THEN <<>>
    ELSE <<[i \in DOMAIN data |-> IF data[i][1] = KeyFor(password, dek) THEN data[i][2] ELSE "noise"]>>

-----------------------------------------------------------------------------
\* Reading a document: every block that is reported lies between a BEGIN and the
\* next END, of its own type, after the one before; its data are those of its own
\* lines behind the headers, its headers those before the first blank line of the
\* same block; and until the first BEGIN that is broken or is not closed by its
\* own END no block with data is left out.
ArmorReads(doc) == \A blocks \in {ArmorParse(doc)} :
    LET Closes(i, j) == /\ doc[i].is = "begin" /\ doc[j].is = "end" /\ doc[i].what = doc[j].what
                        /\ \A k \in i + 1..j - 1 : doc[k].is # "end"
        Bad(i) == \/ doc[i].is = "broken"
                  \/ doc[i].is = "begin" /\ (\A j \in i + 1..Len(doc) : ~Closes(i, j))
        Inside(i, s) == \E b \in ToSet(s) : b.from < i /\ i < b.to
        firstBad == SelectInSeq([i \in DOMAIN doc |-> i], Bad)
    IN  /\ \A k \in DOMAIN blocks :
             LET b == blocks[k]
                 lines == SubSeq(doc, b.from + 1, b.to - 1)
             IN  /\ Closes(b.from, b.to) /\ doc[b.from].what = b.type
                 /\ k > 1 => blocks[k - 1].to < b.from
                 /\ \A n \in DOMAIN b.headers :
                      \E h \in DOMAIN lines, e \in DOMAIN lines :
                         /\ lines[h] = Line("header", <<n, b.headers[n]>>) /\ lines[e].is = "blank" /\ h < e
                         /\ \A x \in 1..e - 1 : lines[x].is # "blank"
                 /\ b.data # Garbled =>
                      \A x \in ToSet(b.data) : \E l \in ToSet(lines) : l.is = "data" /\ x \in ToSet(l.what)
        /\ \A i, j \in DOMAIN doc :
             /\ i < j /\ Closes(i, j) /\ (firstBad = 0 \/ j < firstBad)
             /\ \A h \in 1..i - 1 : doc[h].is = "begin" => \E m \in h + 1..i - 1 : Closes(h, m)
             /\ \A x \in i + 1..j - 1 : doc[x].is = "data"
             /\ j > i + 1
             => \E b \in ToSet(blocks) : b.from = i /\ b.to = j /\ b.data = Decoded(SubSeq(doc, i + 1, j - 1))

\* What is written is read again, headers included, and what was encrypted with a
\* password decrypts with it, to the data and less than a block of zeros, and
\* with no other password, through the headers that were written.
ArmorWrites(data, headers, iv) ==
    data # <<>> =>
    /\ \A h \in {PrepDekinfo(headers, iv)} :
       \A back \in {ArmorParse(ArmorWrite("KEY", EncryptBlock(h["DEK-Info"], "right", data), h))} :
         /\ Len(back) = 1 /\ back[1].headers = h /\ GetDekinfo(back[1].headers) = <<h["DEK-Info"]>>
         /\ \A plain \in {DecryptBlock(h["DEK-Info"], "right", back[1].data)[1]} :
              /\ SubSeq(plain, 1, Len(data)) = data
              /\ Len(plain) - Len(data) < BlockLen(h["DEK-Info"][1])
              /\ \A i \in Len(data) + 1..Len(plain) : plain[i] = 0
              /\ \A i \in DOMAIN plain : DecryptBlock(h["DEK-Info"], "wrong", back[1].data)[1][i] = "noise"
    /\ ArmorParse(ArmorWrite("KEY", data, headers))[1].headers = headers

----------------------------------------------------------------------------
(* egg-symkey.c: keys and initialization vectors from passwords.  Lengths   *)
(* are a quarter of the code's: a block of PKCS#12 has 16 bytes for 64, a   *)
(* SHA-1 digest 5 for 20.  A byte is below Base, a character below Base^2.  *)
(* An absent password or salt is None, a failure <<>>.                      *)

Base == 16
V == 16
PbeLen == 4
None == <<-1>>

Least(a, b) == IF a < b THEN a ELSE b
Given(x) == IF x = None THEN <<>> ELSE x

-----------------------------------------------------------------------------
(* libgcrypt *)

\* gcry_md_get_algo_dlen, gcry_md_test_algo.
HashLen(hash) == CASE hash = "md5" -> 4 [] hash = "sha1" -> 5 [] OTHER -> 0

\* A digest, of which only that it is a function of the bytes is used.
Spread(n, h) == [i \in 1..n |-> ((h * (i + 3)) \div 7 + h \div (i * i)) % Base]
Md(hash, x) == Spread(HashLen(hash), FoldLeft(LAMBDA a, b : (a * 37 + b * b + 11) % 30011, 5, x))

Hmac(hash, key, x) == Md(hash, <<1>> \o key \o Md(hash, <<2>> \o key \o x))

\* gcry_cipher_get_algo_keylen, _blklen, and whether the cipher is implemented.
KeyLen(cipher) == CASE cipher = "des" -> 2 [] cipher = "3des" -> 6 [] cipher = "arcfour" -> 4 [] OTHER -> 1
BlkLen(cipher) == IF cipher = "arcfour" THEN 1 ELSE 2
Implemented(cipher) == cipher \in {"des", "3des", "arcfour", "rfc2268_40"}

-----------------------------------------------------------------------------
\* The digest, hashed again until it was hashed so many times.
Iterated(hash, digest, iterations) ==
    FoldLeft(LAMBDA d, i : Md(hash, d), digest, [i \in 1..iterations - 1 |-> i])

\* The first bytes of a digest go to the key, the next ones to the vector.
SimpleTaken(st, d, k, v) ==
    [key |-> st.key \o SubSeq(d, 1, k), iv |-> st.iv \o SubSeq(d, k + 1, k + v),
     needKey |-> st.needKey - k, needIv |-> st.needIv - v]

RECURSIVE SimplePasses(_, _, _, _, _), SimplePassed(_, _, _, _, _)

\* egg_symkey_generate_simple: one pass of the loop and those that follow.
SimplePassed(hash, seed, iterations, st, digest) ==
    IF st.needKey = 0 /\ st.needIv = 0 THEN [key |-> st.key, iv |-> st.iv]
    ELSE SimplePasses(hash, seed, iterations, st, Iterated(hash, Md(hash, digest \o seed), iterations))
SimplePasses(hash, seed, iterations, st, d) ==
    SimplePassed(hash, seed, iterations,
                 SimpleTaken(st, d, Least(st.needKey, Len(d)), Least(st.needIv, Len(d) - Least(st.needKey, Len(d)))), d)

GenerateSimple(cipher, hash, password, salt, iterations) ==
    <<SimplePassed(hash, Given(password) \o Given(salt), iterations,
        [key |-> <<>>, iv |-> <<>>, needKey |-> KeyLen(cipher), needIv |-> BlkLen(cipher)], <<>>)>>

\* egg_symkey_generate_pbe: both out of one digest.
PbeSplit(d, key, iv) ==
    IF key + iv > PbeLen \/ key + iv > Len(d) THEN <<>>
    ELSE <<[key |-> SubSeq(d, 1, key), iv |-> SubSeq(d, PbeLen - iv + 1, PbeLen)]>>
GeneratePbe(cipher, hash, password, salt, iterations) ==
    PbeSplit(Iterated(hash, Md(hash, Given(password) \o Given(salt)), iterations), KeyLen(cipher), BlkLen(cipher))

\* A number of V bytes, most significant first: a + b + 1 without the carry.
AddOne(a, b) ==
    LET Full(k) == a[k] + b[k] = Base - 1
        Carry(i) == \/ \A k \in i + 1..V : Full(k)
                    \/ \E j \in i + 1..V : a[j] + b[j] >= Base /\ \A k \in i + 1..j - 1 : Full(k)
    IN  [i \in 1..V |-> (a[i] + b[i] + (IF Carry(i) THEN 1 ELSE 0)) % Base]

Cycle(s, n) == [i \in 1..n |-> s[((i - 1) % Len(s)) + 1]]

RECURSIVE Pkcs12Rounds(_, _, _, _, _, _), Pkcs12Round(_, _, _, _, _, _, _)

\* generate_pkcs12, hash and bash: i is the salt's and the password's block.
Pkcs12Rounds(hash, type, i, halves, iterations, n) ==
    Pkcs12Round(hash, type, i, halves, iterations, n,
        Iterated(hash, Md(hash, [k \in 1..V |-> type] \o (IF halves = 2 THEN i[1] \o i[2] ELSE i[1])), iterations))
Pkcs12Round(hash, type, i, halves, iterations, n, h) ==
    IF n <= Len(h) THEN SubSeq(h, 1, n)
    ELSE h \o Pkcs12Rounds(hash, type, <<AddOne(i[1], Cycle(h, V)), AddOne(i[2], Cycle(h, V))>>, halves, iterations,
                           n - Len(h))

Zeros == [k \in 1..V |-> 0]
Bmp(chars) ==
    [k \in 1..V |-> IF k % 2 = 1 THEN (chars[(k + 1) \div 2] \div Base) % Base ELSE chars[k \div 2] % Base]

\* generate_pkcs12: the salt repeated, the password's characters and a zero repeated.
Pkcs12(hash, type, password, salt, iterations, n) ==
    Pkcs12Rounds(hash, type,
                 <<IF salt = None THEN Zeros ELSE Cycle(salt, V),
                   IF password = None THEN Zeros ELSE Bmp(Cycle(password \o <<0>>, V \div 2))>>,
                 IF password = None THEN 1 ELSE 2, iterations, n)

\* egg_symkey_generate_pkcs12: no vector for a stream cipher.
GeneratePkcs12(cipher, hash, password, salt, iterations) ==
    <<[key |-> Pkcs12(hash, 1, password, salt, iterations, KeyLen(cipher)),
       iv |-> IF BlkLen(cipher) > 1 THEN Pkcs12(hash, 2, password, salt, iterations, BlkLen(cipher)) ELSE <<>>]>>

\* egg_symkey_generate_pkcs12_mac.
GeneratePkcs12Mac(hash, password, salt, iterations) ==
    Pkcs12(hash, 3, password, salt, iterations, HashLen(hash))

XorBytes(s, t) == [k \in DOMAIN s |-> s[k] ^^ t[k]]

\* generate_pbkdf2: T of block i, with U the last digest.
Pbkdf2Next(st, next) == [u |-> next, t |-> XorBytes(st.t, next)]
Pbkdf2Sum(hash, password, iterations, u1) ==
    FoldLeft(LAMBDA st, u : Pbkdf2Next(st, Hmac(hash, password, st.u)), [u |-> u1, t |-> u1],
             [u \in 1..iterations - 1 |-> u]).t
Pbkdf2Block(hash, password, salt, iterations, i) ==
    Pbkdf2Sum(hash, password, iterations, Hmac(hash, password, salt \o <<0, 0, 0, i>>))

\* generate_pbkdf2 and egg_symkey_generate_pbkdf2, for the key.
GeneratePbkdf2(cipher, hash, password, salt, iterations) ==
    LET n == KeyLen(cipher)
        l == ((n - 1) \div HashLen(hash)) + 1
        r == n - (l - 1) * HashLen(hash)
    IN  FlattenSeq([i \in 1..l |-> SubSeq(Pbkdf2Block(hash, Given(password), salt, iterations, i), 1,
                                          IF i = l THEN r ELSE HashLen(hash))])

-----------------------------------------------------------------------------
(* Opening ciphers.  Parameters are [valid, salt, iterations]; those of PBES2 *)
(* [valid, enc, iv, kdf, params], with an iv of <<>> for one that is missing  *)
(* or has the wrong type.  An open cipher is <<[cipher, key, iv]>>.           *)

\* read_cipher_pkcs5_pbe.
OpenPbe(cipher, g) ==
    IF g = <<>> THEN <<>>
    ELSE <<[cipher |-> cipher, key |-> g[1].key, iv |-> IF BlkLen(cipher) > 1 THEN g[1].iv ELSE <<>>]>>
ReadPkcs5Pbe(cipher, hash, password, p) ==
    IF ~Implemented(cipher) \/ HashLen(hash) = 0 \/ ~p.valid THEN <<>>
    ELSE OpenPbe(cipher, GeneratePbe(cipher, hash, password, p.salt, p.iterations))

\* setup_pkcs5_pbkdf2_params.
SetupPbkdf2(cipher, password, p) ==
    IF ~p.valid \/ p.salt = None THEN <<>>
    ELSE <<GeneratePbkdf2(cipher, "sha1", password, p.salt, p.iterations)>>

\* read_cipher_pkcs5_pbes2, setup_pkcs5_des_params: the vector has one block.
OpenPbes2(algo, p, key) == IF key = <<>> THEN <<>> ELSE <<[cipher |-> algo, key |-> key[1], iv |-> p.iv]>>
Pbes2With(algo, password, p) ==
    IF ~p.valid \/ ~Implemented(algo) \/ Len(p.iv) # BlkLen(algo) \/ p.kdf # "pbkdf2" THEN <<>>
    ELSE OpenPbes2(algo, p, SetupPbkdf2(algo, password, p.params))
ReadPbes2(password, p) ==
    Pbes2With(CASE p.enc = "des-ede3-cbc" -> "3des" [] p.enc = "des-cbc" -> "des" [] OTHER -> "none", password, p)

\* read_cipher_pkcs12_pbe.
ReadPkcs12Pbe(cipher, password, p) ==
    IF ~Implemented(cipher) \/ ~p.valid THEN <<>>
    ELSE OpenPbe(cipher, GeneratePkcs12(cipher, "sha1", password, p.salt, p.iterations))

\* egg_symkey_read_cipher; the schemes of init_quarks that have no cipher fail.
ReadCipher(scheme, password, p) ==
    CASE scheme = "pbe-md2-des" -> ReadPkcs5Pbe("des", "md2", password, p)
      [] scheme = "pbe-md5-des" -> ReadPkcs5Pbe("des", "md5", password, p)
      [] scheme = "pbe-sha1-des" -> ReadPkcs5Pbe("des", "sha1", password, p)
      [] scheme = "pbes2" -> ReadPbes2(password, p)
      [] scheme = "pkcs12-arcfour" -> ReadPkcs12Pbe("arcfour", password, p)
      [] scheme = "pkcs12-3des" -> ReadPkcs12Pbe("3des", password, p)
      [] scheme = "pkcs12-rc2-128" -> ReadPkcs12Pbe("rfc2268_128", password, p)
      [] scheme = "pkcs12-rc2-40" -> ReadPkcs12Pbe("rfc2268_40", password, p)
      [] OTHER -> <<>>

Schemes == {"pbe-md2-des", "pbe-md5-des", "pbe-sha1-des", "pbe-md5-rc2", "pbes2", "pkcs12-arcfour",
            "pkcs12-rc4-40", "pkcs12-3des", "pkcs12-rc2-128", "pkcs12-rc2-40"}

\* egg_symkey_read_mac, read_mac_pkcs12_pbe.
ReadMac(scheme, password, p) ==
    IF scheme # "sha1" \/ ~p.valid THEN <<>>
    ELSE <<GeneratePkcs12Mac("sha1", password, p.salt, p.iterations)>>

-----------------------------------------------------------------------------
\* The keys are those of the standards.  EVP_BytesToKey: key and vector are one
\* run of bytes out of the chained digests.  PKCS#12: block after block of digests
\* whose input was raised by each digest before.  PBKDF2: whole blocks, each the
\* sum of its own chain, cut at the end.
Reference(password, salt, iterations) ==
    LET D[n \in 0..2] == IF n = 0 THEN <<>> ELSE Iterated("md5", Md("md5", D[n - 1] \o password \o salt), iterations)
        run == FlattenSeq([n \in 1..2 |-> D[n]])
        Raised[n \in 1..3] ==
          IF n = 1 THEN <<Cycle(salt, V), Cycle(FlattenSeq([k \in 1..Len(password) + 1 |->
                             LET c == IF k > Len(password) THEN 0 ELSE password[k] IN <<c \div Base, c % Base>>]), V)>>
          ELSE LET a == Iterated("sha1", Md("sha1", [k \in 1..V |-> 1] \o Raised[n - 1][1] \o Raised[n - 1][2]), iterations)
               IN  [j \in {1, 2} |-> AddOne(Raised[n - 1][j], Cycle(a, V))]
        material == FlattenSeq([n \in 1..2 |->
                      Iterated("sha1", Md("sha1", [k \in 1..V |-> 1] \o Raised[n][1] \o Raised[n][2]), iterations)])
        U[i \in 1..2, n \in 1..3] == Hmac("sha1", password, IF n = 1 THEN salt \o <<0, 0, 0, i>> ELSE U[i, n - 1])
        blocks == FlattenSeq([i \in 1..2 |-> [k \in 1..HashLen("sha1") |->
                    FoldLeft(LAMBDA x, n : x ^^ U[i, n][k], 0, [n \in 1..iterations |-> n])]])
    IN  [cipher \in {"des", "3des", "arcfour"} |->
          [simple |-> SubSeq(run, 1, KeyLen(cipher) + BlkLen(cipher)),
           pkcs12 |-> SubSeq(material, 1, KeyLen(cipher)),
           pbkdf2 |-> SubSeq(blocks, 1, KeyLen(cipher))]]

\* For every cipher, password that fits in its block, salt and count: the keys are
\* the reference's; a cipher that opens has a whole key and a whole vector, or none for a stream, and
\* none opens with broken parameters or for a scheme that is not implemented.
KeysAsSpecified(password, salt, iterations, other) ==
    LET ref == Reference(password, salt, iterations)
        good == [valid |-> TRUE, salt |-> salt, iterations |-> iterations]
        P(scheme, ok) == IF scheme # "pbes2" THEN [good EXCEPT !.valid = ok]
                         ELSE [valid |-> TRUE, enc |-> "des-ede3-cbc", iv |-> <<1, 2>>, kdf |-> "pbkdf2",
                               params |-> [good EXCEPT !.valid = ok]]
    IN  /\ \A c \in DOMAIN ref :
             LET s == GenerateSimple(c, "md5", password, salt, iterations)[1] IN
             /\ s.key \o s.iv = ref[c].simple /\ Len(s.key) = KeyLen(c)
             /\ GeneratePkcs12(c, "sha1", password, salt, iterations)[1].key = ref[c].pkcs12
             /\ GeneratePbkdf2(c, "sha1", password, salt, iterations) = ref[c].pbkdf2
        /\ \A s \in Schemes :
             LET open == ReadCipher(s, password, P(s, TRUE)) IN
             /\ ReadCipher(s, password, P(s, FALSE)) = <<>>
             /\ open # <<>> =>
                  /\ Implemented(open[1].cipher) /\ Len(open[1].key) = KeyLen(open[1].cipher)
                  /\ Len(open[1].iv) = IF BlkLen(open[1].cipher) > 1 THEN BlkLen(open[1].cipher) ELSE 0
             /\ (open = <<>>) = (s \in {"pbe-md2-des", "pbe-md5-rc2", "pkcs12-rc4-40", "pkcs12-rc2-128"})
        /\ ReadMac("sha1", password, good) # <<>> /\ Len(ReadMac("sha1", password, good)[1]) = HashLen("sha1")
        /\ ReadPbes2(password, [P("pbes2", TRUE) EXCEPT !.iv = other]) # <<>> => Len(other) = BlkLen("3des")

-----------------------------------------------------------------------------
(* egg-buffer.c: a growing buffer with an allocator that may fail, and the  *)
(* numbers, byte arrays and strings that are added to it and read from it.  *)
(* The ssh agent's messages are made and read with it.  A byte array is     *)
(* <<>> for NULL or <<bytes>>.                                              *)

Word(n) == <<(n \div 256 ^ 3) % 256, (n \div 256 ^ 2) % 256, (n \div 256) % 256, n % 256>>
ValueAt(bytes, at) == FoldLeft(LAMBDA acc, b : 256 * acc + b, 0, SubSeq(bytes, at + 1, at + 4))
Absent == <<255, 255, 255, 255>>

BInit ==
    /\ buffer = [bytes |-> <<>>, allocated |-> Reserve, allocator |-> "default", failures |-> 0]
    /\ items = <<>> /\ torn = FALSE

\* egg_buffer_reserve: <<whether it could, the buffer>>.
ReserveFor(b, len, grows) ==
    LET double == 2 * b.allocated IN
    IF len < b.allocated THEN <<TRUE, b>>
    ELSE IF b.allocator = "none" \/ ~grows THEN <<FALSE, [b EXCEPT !.failures = @ + 1]>>
    ELSE <<TRUE, [b EXCEPT !.allocated = IF len > double THEN double + len ELSE double]>>

\* egg_buffer_append, egg_buffer_add_byte, egg_buffer_add_uint16 and _uint32.
AppendTo(b, bytes, grows) ==
    LET r == ReserveFor(b, Len(b.bytes) + Len(bytes), grows)
    IN  IF r[1] THEN <<TRUE, [r[2] EXCEPT !.bytes = @ \o bytes]>> ELSE r

\* egg_buffer_add_byte_array, egg_buffer_add_string and egg_buffer_add_uint64: a
\* first word, and then the rest, for which there may be no room.
AddTwo(b, first, rest, grows1, grows2) ==
    LET r == AppendTo(b, first, grows1)
    IN  IF r[1] THEN AppendTo(r[2], rest, grows2) ELSE r

Wants(ok) == ok \/ buffer.failures < MaxFailed

Adds(r, item) ==
    /\ Wants(r[1])
    /\ buffer' = r[2]
    /\ items' = IF r[1] THEN Append(items, item) ELSE items
    /\ torn' = (torn \/ (~r[1] /\ r[2].bytes # buffer.bytes))

AddUint32(n, grows) ==
    /\ Len(items) < MaxAdds
    /\ Adds(AppendTo(buffer, Word(n), grows), [kind |-> "number", value |-> n])

AddByteArray(v, grows1, grows2) ==
    /\ Len(items) < MaxAdds
    /\ Adds(IF v = <<>> THEN AppendTo(buffer, Absent, grows1)
            ELSE AddTwo(buffer, Word(Len(v[1])), v[1], grows1, grows2),
            [kind |-> "array", value |-> v])

\* egg_buffer_set_uint32, of a number that was added last.
SetUint32(n) ==
    /\ items # <<>> /\ Last(items).kind = "number" /\ ~torn
    /\ buffer' = [buffer EXCEPT !.bytes = SubSeq(@, 1, Len(@) - 4) \o Word(n)]
    /\ items' = [items EXCEPT ![Len(items)].value = n]
    /\ UNCHANGED torn

\* egg_buffer_set_allocator: the same bytes elsewhere, or nothing changes.
SetAllocator(a, grows) ==
    /\ buffer' = IF grows THEN [buffer EXCEPT !.allocator = a] ELSE buffer
    /\ UNCHANGED <<items, torn>>

\* egg_buffer_reset: also the failures.
ResetBuffer ==
    /\ buffer' = [buffer EXCEPT !.bytes = <<>>, !.failures = 0]
    /\ items' = <<>> /\ torn' = FALSE

\* egg_buffer_init_static of the same bytes: a message as it came.
InitStatic ==
    /\ buffer.allocator # "none"
    /\ buffer' = [buffer EXCEPT !.allocated = Len(buffer.bytes), !.allocator = "none"]
    /\ UNCHANGED <<items, torn>>

BNext ==
    \/ \E n \in Number32, g \in BOOLEAN : AddUint32(n, g)
    \/ \E v \in Arrays, g1, g2 \in BOOLEAN : AddByteArray(v, g1, g2)
    \/ \E n \in Number32 : SetUint32(n)
    \/ \E g \in BOOLEAN : SetAllocator("secure", g)
    \/ ResetBuffer \/ InitStatic

-----------------------------------------------------------------------------
(* Reading: [ok, value, next]. *)

Fails == [ok |-> FALSE]

\* egg_buffer_get_uint32.
GetUint32(bytes, at) ==
    IF Len(bytes) < 4 \/ at > Len(bytes) - 4 THEN Fails
    ELSE [ok |-> TRUE, value |-> ValueAt(bytes, at), next |-> at + 4]

\* egg_buffer_get_byte_array.
GetByteArray(bytes, at) ==
    IF Len(bytes) < 4 \/ at > Len(bytes) - 4 THEN Fails
    ELSE IF SubSeq(bytes, at + 1, at + 4) = Absent THEN [ok |-> TRUE, value |-> <<>>, next |-> at + 4]
    ELSE IF bytes[at + 1] >= 128 THEN Fails
    ELSE LET n == ValueAt(bytes, at) IN
         IF Len(bytes) < n \/ at + 4 > Len(bytes) - n THEN Fails
         ELSE [ok |-> TRUE, value |-> <<SubSeq(bytes, at + 5, at + 4 + n)>>, next |-> at + 4 + n]

\* egg_buffer_get_string: an array without zeros.
GetString(bytes, at) ==
    LET r == GetByteArray(bytes, at) IN
    IF ~r.ok THEN Fails
    ELSE IF r.value # <<>> /\ 0 \in ToSet(r.value[1]) THEN Fails
    ELSE r

GetItem(bytes, at, item) == IF item.kind = "number" THEN GetUint32(bytes, at) ELSE GetByteArray(bytes, at)

\* Reads the values that are due, one after the other.
ReadStep(bytes, st, item) ==
    IF ~st.ok THEN st
    ELSE LET r == GetItem(bytes, st.at, item) IN
         IF r.ok THEN [ok |-> TRUE, at |-> r.next, values |-> Append(st.values, r.value)]
         ELSE [st EXCEPT !.ok = FALSE]

ReadItems(bytes) ==
    FoldLeft(LAMBDA st, item : ReadStep(bytes, st, item), [ok |-> TRUE, at |-> 0, values |-> <<>>], items)

-----------------------------------------------------------------------------
\* What was added is read back, whatever failed before and between: a value that
\* could not be added whole is missing or, when its length could be added, is
\* told by the failures; of a message that was cut short the values that are
\* whole are read and the next is refused; what is in the buffer always fits into
\* what was allocated; and a string with a zero in it is refused.
BufferKeeps ==
    LET read == ReadItems(buffer.bytes)
        Values(n) == [i \in 1..n |-> items[i].value]
    IN  /\ Len(buffer.bytes) =< buffer.allocated
        /\ torn => buffer.failures > 0
        /\ ~torn => /\ read.ok /\ read.values = Values(Len(items)) /\ read.at = Len(buffer.bytes)
                    /\ \A n \in 0..Len(buffer.bytes) :
                         LET cut == ReadItems(SubSeq(buffer.bytes, 1, n)) IN
                         /\ cut.at =< n /\ cut.values = Values(Len(cut.values))
                         /\ cut.ok => n = Len(buffer.bytes)
                    /\ \A i \in DOMAIN items : items[i].kind = "array" =>
                         LET at == IF i = 1 THEN 0
                                   ELSE FoldLeft(LAMBDA st, item : ReadStep(buffer.bytes, st, item),
                                                 [ok |-> TRUE, at |-> 0, values |-> <<>>], SubSeq(items, 1, i - 1)).at
                             s == GetString(buffer.bytes, at)
                         IN  s.ok <=> (IF items[i].value = <<>> THEN TRUE ELSE 0 \notin ToSet(items[i].value[1]))
=============================================================================
