------------------------------ MODULE KeyLists -------------------------------
(****************************************************************************)
(* gcr-record.c and gcr-gnupg-records.c.  A text is a sequence of           *)
(* characters; the ones that count are named, an escaped character is       *)
(* written with its backslash and its letter or its two hex digits.         *)
(****************************************************************************)
EXTENDS Integers, Sequences, SequencesExt

CONSTANTS
    MaxColumns,    \* MAX_COLUMNS, 32
    Uint, Ulong    \* how many numbers a guint and a gulong hold

\* The characters with a letter of their own, and those written in hex.
Letter == [c \in {"tab", "newline", "\\"} |->
             CASE c = "tab" -> "t" [] c = "newline" -> "n" [] OTHER -> "\\"]
Hex == [c \in {":", "bell"} |-> IF c = ":" THEN <<"3", "a">> ELSE <<"0", "7">>]

-----------------------------------------------------------------------------
\* The parts of a text between delimiters.
Parts(text, delim) ==
    LET cuts == SelectSeq([i \in DOMAIN text |-> i], LAMBDA i : text[i] = delim)
        From(k) == IF k = 1 THEN 1 ELSE cuts[k - 1] + 1
        To(k) == IF k > Len(cuts) THEN Len(text) ELSE cuts[k] - 1
    IN  [k \in 1..Len(cuts) + 1 |-> SubSeq(text, From(k), To(k))]

\* take_and_parse_internal: <<>>, or the columns.  The end of the last column is
\* taken one character early: among spaces, one of a single character is lost, and
\* a record with as many columns as there may be fails if another part follows.
ParseColumns(text, delim, allowEmpty) ==
    LET parts == Parts(text, delim)
        Keeps(k) == allowEmpty \/ Len(parts[k]) > (IF k = Len(parts) THEN 1 ELSE 0)
        kept == SelectSeq([k \in DOMAIN parts |-> k], Keeps)
        before == SelectSeq(SubSeq([k \in DOMAIN parts |-> k], 1, Len(parts) - 1), Keeps)
    IN  IF Len(before) >= MaxColumns THEN <<>> ELSE <<[k \in DOMAIN kept |-> parts[kept[k]]]>>

\* _gcr_record_parse_colons, _gcr_record_parse_spaces.
ParseColons(text) == ParseColumns(text, ":", TRUE)
ParseSpaces(text) == ParseColumns(text, " ", FALSE)

\* print_record_to_string, _gcr_record_format: a delimiter after every column.
Format(columns) == FlattenSeq([k \in DOMAIN columns |-> Append(columns[k], ":")])

\* _gcr_records_format, _gcr_records_parse_colons, strnsplit: every line, the last
\* one too, and nothing if one of them fails.
FormatAll(records) == FlattenSeq([i \in DOMAIN records |-> Append(Format(records[i]), "newline")])
ParseAll(text) ==
    LET lines == IF text = <<>> THEN <<>> ELSE Parts(text, "newline")
        read == [i \in DOMAIN lines |-> ParseColons(lines[i])]
    IN  IF \E i \in DOMAIN read : read[i] = <<>> THEN <<>> ELSE <<[i \in DOMAIN read |-> read[i][1]]>>

\* record_flatten, _gcr_record_copy: the columns, one after the other in one block.
Flatten(columns) ==
    LET block == FlattenSeq([k \in DOMAIN columns |-> Append(columns[k], "NUL")])
        At(k) == Len(FlattenSeq([j \in 1..k - 1 |-> Append(columns[j], "NUL")]))
    IN  [k \in DOMAIN columns |-> SubSeq(block, At(k) + 1, At(k) + Len(columns[k]))]

\* c_colons_escape.
Escape(text) ==
    FlattenSeq([i \in DOMAIN text |->
       IF text[i] \in DOMAIN Letter THEN <<"\\", Letter[text[i]]>>
       ELSE IF text[i] \in DOMAIN Hex THEN <<"\\", "x">> \o Hex[text[i]] ELSE <<text[i]>>])

RECURSIVE UnescapeFrom(_, _, _)

\* c_colons_unescape from place i: <<>> when it fails.  After \x it looks for hex
\* digits from the x on, and so always fails; an octal number has up to three.
UnescapeFrom(text, i, out) ==
    IF i > Len(text) THEN <<out>>
    ELSE IF text[i] # "\\" THEN UnescapeFrom(text, i + 1, Append(out, text[i]))
    ELSE IF i = Len(text) \/ text[i + 1] = "x" THEN <<>>
    ELSE LET c == text[i + 1]
             octal == {"0", "1", "2", "3"}
             n == CHOOSE k \in 1..3 : /\ \A j \in 1..k : i + j <= Len(text) /\ text[i + j] \in octal
                                      /\ k = 3 \/ i + k + 1 > Len(text) \/ text[i + k + 1] \notin octal
         IN  IF c \in octal THEN UnescapeFrom(text, i + n + 1, Append(out, <<"octal", SubSeq(text, i + 1, i + n)>>))
             ELSE UnescapeFrom(text, i + 2,
                    Append(out, CASE c = "t" -> "tab" [] c = "n" -> "newline" [] OTHER -> c))

\* _gcr_record_get_string, on UTF-8: a text that does not unescape is itself.
GetString(columns, k) ==
    LET un == UnescapeFrom(columns[k], 1, <<>>) IN
    IF k > Len(columns) THEN <<>> ELSE IF un = <<>> THEN <<columns[k]>> ELSE un

\* _gcr_record_set_string, record_take_column.
SetString(columns, k, text) == [columns EXCEPT ![k] = Escape(text)]

\* _gcr_record_get_raw: nothing beyond the last column.
GetRaw(columns, k) == IF k <= Len(columns) THEN <<columns[k]>> ELSE <<>>

\* _gcr_record_set_raw, _gcr_record_take_raw.
SetRaw(columns, k, text) == [columns EXCEPT ![k] = text]

\* _gcr_record_get_char: a column of exactly one character; _gcr_record_set_char.
GetChar(columns, k) == IF k <= Len(columns) /\ Len(columns[k]) = 1 THEN columns[k] ELSE <<>>
SetChar(columns, k, c) == SetRaw(columns, k, <<c>>)

Digit == <<"0", "1", "2", "3", "4", "5", "6", "7", "8", "9">>
White == {" ", "tab", "newline"}

RECURSIVE Decimal(_)

\* printf with %u and %lu.
Decimal(n) == IF n < 10 THEN <<Digit[n + 1]>> ELSE Append(Decimal(n \div 10), Digit[(n % 10) + 1])

\* g_ascii_strtoll and g_ascii_strtoull up to the end of a text without a sign:
\* white space may come first, and of an empty text the number is 0.
ColumnNumber(text) ==
    LET first == SelectInSeq(text, LAMBDA c : c \notin White)
        body == IF first = 0 THEN <<>> ELSE SubSeq(text, first, Len(text))
        Value(n, c) == 10 * n + SelectInSeq(Digit, LAMBDA d : d = c) - 1
    IN  IF (body = <<>> /\ text # <<>>) \/ ~(ToSet(body) \subseteq ToSet(Digit)) THEN <<>>
        ELSE <<FoldLeft(Value, 0, body)>>
NumberIn(columns, k) == IF GetRaw(columns, k) = <<>> THEN <<>> ELSE ColumnNumber(columns[k])

\* _gcr_record_get_uint: what is out of range is no number.
GetUint(columns, k) ==
    LET n == NumberIn(columns, k) IN IF n # <<>> /\ n[1] >= Uint THEN <<>> ELSE n

\* _gcr_record_get_ulong: read into a gint64, so that what is half the range or more
\* is negative, and handed out as a guint.
GetUlong(columns, k) ==
    LET n == NumberIn(columns, k)
    IN  IF n = <<>> THEN <<>> ELSE IF n[1] >= Ulong \div 2 THEN <<>> ELSE <<n[1] % Uint>>

\* _gcr_record_get_date: a number of seconds, of which 0 is none, or else a date in
\* the ISO 8601 form, for which the character "iso" stands.
GetDate(columns, k) ==
    LET n == NumberIn(columns, k) IN
    IF n # <<>> THEN (IF n = <<0>> THEN <<>> ELSE <<<<"seconds", n[1]>>>>)
    ELSE IF GetRaw(columns, k) = <<<<"iso">>>> THEN <<<<"date", 0>>>> ELSE <<>>

\* _gcr_record_set_uint, _gcr_record_set_ulong.
SetUint(columns, k, n) == SetRaw(columns, k, Decimal(n))
SetUlong(columns, k, n) == SetRaw(columns, k, Decimal(n))

-----------------------------------------------------------------------------
(* _gcr_gnupg_records_parse_user_id: a state [name, email, comment, tail,     *)
(* in, depth], in what is being read; a part not found yet is 0, one found    *)
(* <<from, to>>.                                                              *)

UserIdStep(st, i, c) ==
    LET Found(part) == st[part] # <<>>
        Closes(part) == [st EXCEPT ![part] = IF Found(part) THEN @ ELSE <<st.tail, i - 1>>,
                                   !.tail = IF Found(part) THEN @ ELSE i + 1,
                                   !.in = "", !.depth = 0]
        Named == IF st.in = "name" /\ ~Found("name")
                 THEN [st EXCEPT !.name = <<st.tail, i - 1>>, !.tail = i + 1] ELSE st
        Bracket(part, open, close) ==
            CASE c = open -> [st EXCEPT !.depth = @ + 1]
              [] c = close /\ st.depth = 1 -> Closes(part)
              [] c = close -> [st EXCEPT !.depth = @ - 1]
              [] OTHER -> st
    IN  CASE st.in = "email" -> Bracket("email", "<", ">")
          [] st.in = "comment" -> Bracket("comment", "(", ")")
          [] c = "<" /\ st.in # "email" ->
               [Named EXCEPT !.in = "email", !.depth = 1, !.tail = IF st.in = "name" THEN @ ELSE i + 1]
          [] c = "(" /\ st.in # "comment" -> [Named EXCEPT !.in = "comment", !.depth = 1]
          [] st.in = "" /\ c # " " -> [st EXCEPT !.in = "name"]
          [] OTHER -> st

\* Where the parts of a user id are; a name may end with the text.
UserIdRanges(text) ==
    LET end == FoldLeft(LAMBDA st, i : UserIdStep(st, i, text[i]),
                        [name |-> <<>>, email |-> <<>>, comment |-> <<>>, tail |-> 1, in |-> "", depth |-> 0],
                        [i \in DOMAIN text |-> i])
        name == IF end.in = "name" /\ end.name = <<>> THEN <<end.tail, Len(text)>> ELSE end.name
    IN  [name |-> name, email |-> end.email, comment |-> end.comment]

\* The parts themselves, with the white space around them left out.
ParseUserId(text) ==
    LET Inner(r) == LET solid == {i \in r[1]..r[2] : text[i] # " "}
                    IN  IF solid = {} THEN <<>>
                        ELSE SubSeq(text, CHOOSE i \in solid : \A j \in solid : i <= j,
                                          CHOOSE i \in solid : \A j \in solid : j <= i)
        Of(r) == IF r = <<>> THEN <<>> ELSE <<Inner(r)>>
    IN  [part \in {"name", "email", "comment"} |-> Of(UserIdRanges(text)[part])]

\* _gcr_records_find, _gcr_gnupg_records_get_keyid, _get_short_keyid, _get_user_id
\* and _get_fingerprint: by the first record of a schema; a secret key only when
\* there is no public one; of a key id the last eight characters.
Find(records, schema) == SelectInSeq(records, LAMBDA r : r[1] = schema)
Column(records, i, k) == IF i = 0 \/ k > Len(records[i]) THEN <<>> ELSE <<records[i][k]>>
KeyIdOf(records) ==
    LET pub == Find(records, "pub") IN Column(records, IF pub # 0 THEN pub ELSE Find(records, "sec"), 2)
ShortKeyIdOf(records, n) ==
    LET id == KeyIdOf(records) IN
    IF id = <<>> THEN <<>> ELSE <<SubSeq(id[1], IF Len(id[1]) > n THEN Len(id[1]) - n + 1 ELSE 1, Len(id[1]))>>
FingerprintOf(records) == Column(records, Find(records, "fpr"), 2)

-----------------------------------------------------------------------------
\* A text that was written into a column is read back, and so is the record it is
\* part of, unless it needs a hex escape; it adds no column and no line.
ColumnsRoundTrip(text, before) ==
    LET columns == SetString(Append(before, <<>>), Len(before) + 1, text)
        line == Format(columns)
        read == ParseColons(line)
    IN  Len(columns) + 1 <= MaxColumns =>
        /\ \A i \in DOMAIN columns[Len(columns)] : columns[Len(columns)][i] \notin {":", "newline", "tab", "bell"}
        /\ read # <<>> /\ Len(read[1]) = Len(columns) + 1 /\ Last(read[1]) = <<>>
        /\ \A k \in DOMAIN columns : read[1][k] = columns[k]
        /\ Flatten(columns) = columns
        /\ ParseAll(FormatAll(<<columns, columns>>)) = <<<<read[1], read[1], <<<<>>>>>>>>
        /\ GetString(read[1], Len(columns)) = IF \E c \in ToSet(text) : c \in DOMAIN Hex
                                              THEN <<Escape(text)>> ELSE <<text>>

\* A number that is in a column is in range, and written again is read as it was; one
\* written as a long comes back without the bits that a guint has not; a text that
\* is a number other than 0 is a date; nothing is read past the last column.
NumbersRead(text, numbers) ==
    LET columns == <<text, <<>>>>
        n == GetUint(columns, 1)
    IN  /\ n # <<>> => n[1] < Uint /\ GetUint(SetUint(columns, 2, n[1]), 2) = n /\ GetUlong(columns, 1) = n
        /\ (n # <<>> /\ n[1] # 0) => GetDate(columns, 1) = <<<<"seconds", n[1]>>>>
        /\ \A m \in numbers : /\ GetUint(SetUint(columns, 1, m), 1) = IF m < Uint THEN <<m>> ELSE <<>>
                              /\ m < Ulong \div 2 => GetUlong(SetUlong(columns, 1, m), 1) = <<m % Uint>>
        /\ \A c \in ToSet(text) : GetChar(SetChar(columns, 2, c), 2) = <<c>>
        /\ GetRaw(columns, 3) = <<>> /\ GetUint(columns, 3) = <<>> /\ GetDate(columns, 3) = <<>>

\* The columns of any line are its parts in order, and never more than there may be;
\* between spaces no part is empty, and only a last single character is missing.
ColumnsInOrder(text) ==
    LET colons == ParseColons(text)
        spaces == ParseSpaces(text)
        solid == SelectSeq(Parts(text, " "), LAMBDA p : p # <<>>)
        last == Last(Parts(text, " "))
    IN  /\ (colons = <<>>) <=> Len(Parts(text, ":")) > MaxColumns
        /\ colons # <<>> => Format(colons[1]) = Append(text, ":")
        /\ spaces # <<>> => /\ Len(spaces[1]) <= MaxColumns
                            /\ spaces[1] = IF Len(last) = 1 THEN Front(solid) ELSE solid

\* The name, the comment and the address of any user id are different parts of its
\* text, and one in the usual order is taken apart as it was put together.
UserIdParts(text, name, comment, email) ==
    LET usual == name \o <<" ", "(">> \o comment \o <<")", " ", "<">> \o email \o <<">">>
        plain == \A s \in {name, comment, email} : \A c \in ToSet(s) : c \notin {"<", ">", "(", ")", " "}
        r == UserIdRanges(text)
    IN  /\ \A p, q \in DOMAIN r : p # q /\ r[p] # <<>> /\ r[q] # <<>> => r[p][2] < r[q][1] \/ r[q][2] < r[p][1]
        /\ plain /\ name # <<>> =>
             ParseUserId(usual) = [name |-> <<name>>, comment |-> <<comment>>, email |-> <<email>>]

----------------------------------------------------------------------------
(* gcr-openssh.c: public key files.  A line is a sequence of characters, of *)
(* which some stand for a whole text: "rsa", "dss", "ecdsa" and "ed25519"   *)
(* for the name of a key type, a record for a key in base64                 *)
(*   [algo, whole, curve]                                                   *)
(* with whole FALSE for one that ends too soon.                             *)

Digits == {"0", "7"}
KeyTypes == {"rsa", "dss", "ecdsa", "ed25519"}

\* A character that stands for a key, and the key.
Blob == [c \in {"K-rsa", "K-dss", "K-short", "K-ecdsa", "K-curve", "K-ed25519"} |->
           CASE c = "K-rsa" -> [algo |-> "rsa", whole |-> TRUE, curve |-> TRUE]
             [] c = "K-dss" -> [algo |-> "dss", whole |-> TRUE, curve |-> TRUE]
             [] c = "K-short" -> [algo |-> "rsa", whole |-> FALSE, curve |-> TRUE]
             [] c = "K-ecdsa" -> [algo |-> "ecdsa", whole |-> TRUE, curve |-> TRUE]
             [] c = "K-curve" -> [algo |-> "ecdsa", whole |-> TRUE, curve |-> FALSE]
             [] OTHER -> [algo |-> "ed25519", whole |-> TRUE, curve |-> TRUE]]

\* skip_spaces: the first place at or after i that is no space.
SkipSpaces(line, i) ==
    LET s == SelectInSubSeq(line, i, Len(line), LAMBDA c : c # " ") IN IF s = 0 THEN Len(line) + 1 ELSE s

RECURSIVE WordEnd(_, _, _)

\* next_word, the loop: the place after a word that has begun.
WordEnd(line, at, quotes) ==
    IF at > Len(line) THEN Len(line) + 1
    ELSE CASE line[at] = "quote" -> WordEnd(line, at + 1, ~quotes)
           [] line[at] = " " /\ ~quotes -> at
           [] OTHER -> WordEnd(line, at + 1, quotes)

\* next_word: <<>>, or the word and the place after it.
WordBetween(line, beg, end) == <<[word |-> SubSeq(line, beg, end - 1), at |-> end]>>
WordFrom(line, beg) == IF beg > Len(line) THEN <<>> ELSE WordBetween(line, beg, WordEnd(line, beg, FALSE))
NextWord(line, i) == WordFrom(line, SkipSpaces(line, i))
WordAfter(line, w) == IF w = <<>> THEN <<>> ELSE NextWord(line, w[1].at)

\* keytype_to_algo, match_word.
Algo(word) == IF Len(word) = 1 /\ word[1] \in KeyTypes THEN word[1] ELSE "none"

\* g_strstrip of the rest of the line; no label is <<>>.
Label(line, i) ==
    LET beg == SkipSpaces(line, i)
        last == SelectLastInSeq(line, LAMBDA c : c # " ")
    IN  IF beg > Len(line) THEN <<>> ELSE <<SubSeq(line, beg, last)>>

\* decode_v2_public_key, read_v2_public_key and its readers: the type inside the
\* key must be the one before it.
DecodeKey(algo, word) ==
    /\ Len(word) = 1 /\ word[1] \in DOMAIN Blob
    /\ Blob[word[1]].algo = algo /\ Blob[word[1]].whole
    /\ algo = "ecdsa" => Blob[word[1]].curve

Res(res) == [res |-> res]
Parsed(algo, key, options, label) ==
    [res |-> "success", algo |-> algo, key |-> key, options |-> options, label |-> label]

\* parse_v2_public_line: the key and its label, after the type; the type, after
\* options if the first word is none.
V2Key(line, options, algo, key) ==
    IF key = <<>> THEN Res("failure")
    ELSE IF ~DecodeKey(algo, key[1].word) THEN Res("failure")
    ELSE Parsed(algo, key[1].word, options, Label(line, key[1].at))
V2Type(line, options, w) ==
    IF w = <<>> THEN Res("unrecognized")
    ELSE IF Algo(w[1].word) = "none" THEN Res("unrecognized")
    ELSE V2Key(line, options, Algo(w[1].word), WordAfter(line, w))
V2From(line, w) ==
    IF w = <<>> THEN Res("unrecognized")
    ELSE IF w[1].word[1] = "#" THEN Res("unrecognized")
    ELSE IF Algo(w[1].word) # "none" THEN V2Type(line, <<>>, w)
    ELSE V2Type(line, <<w[1].word>>, WordAfter(line, w))
ParseV2(line) == V2From(line, NextWord(line, 1))

\* atoin, egg_decimal_decode: bits must be more than nothing.
Number(word) == \A c \in ToSet(word) : c \in Digits
Positive(word) == Number(word) /\ \E c \in ToSet(word) : c # "0"

\* parse_v1_public_line: bits, exponent and modulus, after options unless the line
\* begins with a digit.
V1Numbers(line, options, bits, exponent, modulus) ==
    IF modulus = <<>> THEN Res("unrecognized")
    ELSE IF ~Positive(bits[1].word) \/ ~Number(exponent[1].word) \/ ~Number(modulus[1].word) THEN Res("unrecognized")
    ELSE Parsed("v1", modulus[1].word, options, Label(line, modulus[1].at))
V1Exponent(line, options, bits, exponent) == V1Numbers(line, options, bits, exponent, WordAfter(line, exponent))
V1Bits(line, options, bits) == V1Exponent(line, options, bits, WordAfter(line, bits))
V1From(line, w) ==
    IF w = <<>> THEN Res("unrecognized")
    ELSE IF w[1].word[1] = "#" THEN Res("unrecognized")
    ELSE IF w[1].word[1] \in Digits THEN V1Bits(line, <<>>, w)
    ELSE V1Bits(line, <<w[1].word>>, WordAfter(line, w))
ParseV1(line) == V1From(line, NextWord(line, 1))

\* One line: a line whose second version fails is not tried as the first one.
ElseV1(line, v2) == IF v2.res = "unrecognized" THEN ParseV1(line) ELSE v2
ParseLine(line) == ElseV1(line, ParseV2(line))

\* _gcr_openssh_pub_parse: what the callback is given, line by line.
PubParse(lines) ==
    SelectSeq([i \in DOMAIN lines |->
                 [line |-> i, got |-> IF lines[i] = <<>> THEN Res("unrecognized") ELSE ParseLine(lines[i])]],
              LAMBDA r : r.got.res = "success")

-----------------------------------------------------------------------------
\* The words of a line, cut at spaces outside quotes.
LineWords(line) ==
    LET quotes[i \in 0..Len(line)] == IF i = 0 THEN 0 ELSE quotes[i - 1] + (IF line[i] = "quote" THEN 1 ELSE 0)
        Cut(i) == i = 0 \/ i > Len(line) \/ (line[i] = " " /\ quotes[i] % 2 = 0)
        starts == SelectSeq([i \in DOMAIN line |-> i], LAMBDA i : ~Cut(i) /\ Cut(i - 1))
    IN  [k \in DOMAIN starts |->
           SubSeq(line, starts[k], CHOOSE e \in starts[k]..Len(line) : Cut(e + 1) /\ \A j \in starts[k]..e : ~Cut(j))]

\* A key of a line of words, n of them options.
KeyOfWords(got, words, n) ==
    /\ words[1][1] # "#"
    /\ n = 1 => got.options[1] = words[1]
    /\ got.algo # "v1" => /\ words[n + 1] = <<got.algo>> /\ got.key = words[n + 2]
                          /\ Blob[got.key[1]].algo = got.algo /\ Blob[got.key[1]].whole
    /\ got.algo = "v1" => got.key = words[n + 3] /\ Positive(words[n + 1])
    /\ (got.label = <<>>) <=> Len(words) = n + (IF got.algo = "v1" THEN 3 ELSE 2)

\* A key that is reported is the one its line holds: the words of the line, which
\* are cut at spaces outside quotes, are its options if it has any, its type and a
\* key of that very type, and the rest of the line is the label; comments give
\* none; and no line has an influence on another.
LinesHoldKeys(line, others) ==
    \A all \in {PubParse(<<line>> \o others)}, words \in {LineWords(line)} :
        LET mine == SelectSeq(all, LAMBDA r : r.line = 1) IN
        /\ Len(all) = Len(mine) + Len(PubParse(others))
        /\ mine # <<>> => KeyOfWords(mine[1].got, words, Len(mine[1].got.options))
        /\ mine = <<>> /\ Len(words) >= 2 /\ (\A c \in ToSet(line) : c # "quote") =>
             ~(Algo(words[1]) # "none" /\ DecodeKey(Algo(words[1]), words[2]))
=============================================================================
