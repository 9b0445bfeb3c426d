---------------------------- MODULE MCImporting ----------------------------
(***************************************************************************)
(* How documents get in, one part at a time: the parser on documents of    *)
(* every kind, nested, broken and mixed; streams; importers; gpg; and the  *)
(* mock prompter that tests use for the passwords asked on the way.        *)
(***************************************************************************)
EXTENDS Integers, Sequences, TLC

VARIABLES part,
    passwords, specific, normal, last,
    parsing,
    registered, importers, queue, objects, task, rounds, queued,
    packets, run, pipe, child, app, written,
    thread, test, owner, responses, expected, prompt, log

Doc(t, bad, name, key, parts) == [t |-> t, bad |-> bad, name |-> name, key |-> key, parts |-> parts]

Leaf(t) == Doc(t, "", "", "", <<>>)
Cert(name) == Doc("cert", "", name, "", <<>>)
Plain(key) == Doc("pkcs8", "", key.t, "", <<key>>)
Shrouded(key, inner) == Doc("pkcs8enc", "", "", key, <<inner>>)
Block(name, inner) == Doc("block", "", name, "plain", <<inner>>)
Locked(name, key, inner) == Doc("block", "", name, key, <<inner>>)
Bag(t, name, inner) == Doc(t, "", name, "", <<inner>>)
CertBag(name, cert) == Bag("certbags", name, Doc("certbag", "", "", "", <<cert>>))
Bags(parts) == Doc("bags", "", "", "", parts)
Data(parts) == Doc("data", "", "", "", <<Bags(parts)>>)
EncData(key, parts) == Doc("encdata", "", "", key, <<Bags(parts)>>)
Pem(parts) == Doc("pem", "", "", "", parts)
Bad(d, bad) == [d EXCEPT !.bad = bad]

Broken == Bad(Leaf("junk"), "junk")

MCDocs ==
  { Leaf("rsa"), Bad(Leaf("rsa"), "number"), Leaf("ec"), Bad(Leaf("ec"), "version"),
    Doc("spki", "", "dsa", "", <<>>), Doc("spki", "number", "rsa", "", <<>>),
    Doc("spki", "algorithm", "other", "", <<>>), Cert("cn"), Doc("pkcs10", "", "cn", "", <<>>),
    Doc("b64spkac", "", "", "", <<Leaf("spkac")>>), Leaf("spkac"),
    Doc("pkcs7", "", "", "", <<Cert("a"), Cert("b")>>),
    Doc("pkcs7", "", "", "", <<Cert("a"), Broken, Cert("b")>>),
    Doc("pkcs8", "", "dsa", "dsaparams", <<Leaf("dsapart")>>),
    Plain(Leaf("dsa")), Shrouded("k1", Plain(Leaf("rsa"))), Shrouded("", Plain(Leaf("ec"))),
    Bad(Shrouded("k1", Plain(Leaf("rsa"))), "cipher"),
    Shrouded("k1", Broken),
    Doc("openpgp", "", "", "", <<Leaf("packet"), Leaf("packet")>>),
    Doc("openssh", "", "", "", <<Doc("sshkey", "", "me", "", <<>>)>>),
    Doc("pkcs12", "", "", "k1",
        <<EncData("k1", <<CertBag("friend", Cert("cn")), CertBag("", Cert("cn2"))>>),
          Data(<<Bag("shroudedbag", "key", Shrouded("k2", Plain(Leaf("rsa")))),
                 Bag("crlbag", "", Leaf("junk")),
                 Bag("keybag", "", Plain(Leaf("ec")))>>)>>),
    Doc("pkcs12", "", "", "nomac", <<Data(<<CertBag("", Cert("cn"))>>),
                                     Bad(EncData("k1", <<>>), "scheme")>>),
    Doc("pkcs12", "mac", "", "k1", <<>>),
    Pem(<<Block("cert", Cert("a")), Block("other", Leaf("junk")),
          Locked("rsa", "k1", Leaf("rsa")), Block("cert", Cert("b"))>>),
    Pem(<<Locked("dsa", "k2", Leaf("dsa")), Locked("any", "k1", Leaf("ec"))>>),
    Pem(<<Bad(Locked("rsa", "k1", Leaf("rsa")), "nodek"), Block("spki", Doc("spki", "", "ec", "", <<>>))>>),
    Pem(<<Block("pkcs12", Doc("pkcs12", "", "", "nomac", <<Data(<<CertBag("f", Cert("x"))>>)>>)),
          Block("pgp", Doc("openpgp", "", "", "", <<Leaf("packet")>>))>>),
    Broken, Bad(Leaf("junk"), "short") }

P == INSTANCE Parser WITH
    Docs <- MCDocs, Keys <- {"k1", "k2"}, Requested <- {"DER_PKCS8", "PEM_CERTIFICATE_X509"},
    MaxPasswords <- 4, MaxAnswers <- 2, Streams <- {"a", "b"}, MaxBlocks <- 2

Flags(pin) == [writable |-> TRUE, initialized |-> TRUE, login |-> TRUE, pin |-> pin, listed |-> FALSE]
Item(c, t, f, l) == [class |-> c, type |-> t, finger |-> f, label |-> l, id |-> <<>>]

I == INSTANCE Importers WITH
    Slots <- [s1 |-> Flags(TRUE), s2 |-> Flags(FALSE)],
    Items <- {Item("certificate", "x509", "f1", "a"), Item("private", "rsa", "f1", ""),
              Item("records", "", "", "")},
    Tasks <- {"t1", "t2"}, MaxQueue <- 3

G == INSTANCE GnupgProcess WITH
    MaxPackets <- 1, MaxWrites <- 2, PipeRoom <- 1, MaxRuns <- 2, ClosedEarly <- {"output"}

K == INSTANCE MockPrompter WITH Prompts <- {1, 2}, MaxExpected <- 2

pvars == <<passwords, specific, normal, last>>
ivars == <<registered, importers, queue, objects, task, rounds, queued>>
gvars == <<packets, run, pipe, child, app, written>>
kvars == <<thread, test, owner, responses, expected, prompt, log>>
vars == <<part, pvars, parsing, ivars, gvars, kvars>>

Init ==
    /\ part \in {"parser", "stream", "importer", "gnupg", "mock"}
    /\ P!Init /\ P!PInit /\ I!IInit /\ G!GInit /\ K!KInit

Next ==
    \/ part = "parser" /\ P!Next /\ UNCHANGED <<part, parsing, ivars, gvars, kvars>>
    \/ part = "stream" /\ P!PNext /\ UNCHANGED <<part, pvars, ivars, gvars, kvars>>
    \/ part = "importer" /\ I!INext /\ UNCHANGED <<part, pvars, parsing, gvars, kvars>>
    \/ part = "gnupg" /\ G!GNext /\ UNCHANGED <<part, pvars, parsing, ivars, kvars>>
    \/ part = "mock" /\ K!KNext /\ UNCHANGED <<part, pvars, parsing, ivars, gvars>>

Spec ==
    /\ Init /\ [][Next]_vars
    /\ P!PFairness /\ G!GFairness /\ K!KFairness

\* Frames are popped on every path, objects announced once, in order and under
\* their own labels (src/gcr/gcr-parser.c, _gcr_parser_pop_parsed); success means
\* that everything was announced (gcr_parser_parse_bytes); and passwords are asked
\* for only when none that is known opens the block (enum_next_password).
ParsesWhole == P!FramesBalanced /\ P!SuccessMeansAll /\ P!AskedOnlyWhenNeeded

\* What was queued is somewhere, once, and certificates and keys are paired
\* (src/gcr/gcr-pkcs11-importer.c).
ImportsWhole == I!NothingLost /\ I!PairsShareId

\* A run of gpg ends once, after its exit and its output, and tells what gpg
\* said (src/gcr/gcr-gnupg-process.c, complete_if_source_is_done).
GpgHeard == G!RunEndsOnce /\ G!RunTellsTruth

\* Expectations are met in order (src/gcr/gcr-mock-prompter.c).
MockInOrder == K!MockInOrder

\* Reading a stream ends, a run of gpg ends, and a test gets past the mock's start
\* and stop (src/gcr/gcr-mock-prompter.c, gcr_mock_prompter_stop).
AllEnd == P!StreamsComplete /\ G!RunsEnd /\ K!MockAnswers
=============================================================================
