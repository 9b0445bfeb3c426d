--------------------------- MODULE MCKeysAndTrust ---------------------------
(***************************************************************************)
(* What is kept and looked up, one part at a time: the files of ~/.ssh,     *)
(* trust assertions, certificate chains, the public keys of objects and     *)
(* certificate requests.                                                    *)
(***************************************************************************)
EXTENDS Integers, Sequences, TLC

VARIABLES part,
    clock, pub, private, directory, files, seenDir, infos, byFile, byKey, fresh, blind,
    modules, initialized, storeUri, lookupUris, urisKnown, objects, made, op, saw, kept, gone,
    chain, tokens, pins, anchors, changes, added, build, was,
    kind, hidden, key, paired, cached, cache, load, exchanges,
    token, request, call, alone, requestChanges

F == INSTANCE SshKeyFiles WITH
    File <- {"a", "b"}, Keys <- {"k1", "k2"}, MaxSeconds <- 3, MaxInfos <- 3

T == INSTANCE Trust WITH
    Op <- {1, 2}, Peer <- {"p", "q"}, FirstPeer <- "p", Slot <- {"s1", "s2"},
    ConfStore <- "s1", ConfLookup <- <<"s1", "s2">>, MaxObjects <- 3

\* An end certificate, two ways to issue the authority A, a root, and B, which
\* A has issued and which has issued A.
C(subject, issuer, by) == [subject |-> subject, issuer |-> issuer, kind |-> by]
EndCert == C("E", "A", "other")
Asked(async, lookups) == [async |-> async, lookups |-> lookups, peer |-> lookups]

G == INSTANCE CertificateChain WITH
    Own <- {EndCert, C("A", "R", "simple"), C("R", "R", "simple")},
    OnTokens <- {C("A", "B", "simple"), C("B", "A", "simple")},
    Pinnable <- {EndCert}, Anchorable <- {C("B", "A", "simple")},
    Build <- {1, 2}, Options <- <<{Asked(FALSE, TRUE), Asked(TRUE, TRUE)}, {Asked(TRUE, FALSE)}>>,
    MaxChain <- 4, MaxInput <- 3, MaxChanges <- 1

K == INSTANCE PublicKeys WITH
    changes <- exchanges, Load <- {1, 2}, Keys <- {"k1", "k2"}, MaxChanges <- 2,
    Kinds <- {<<"private", "rsa">>, <<"public", "rsa">>, <<"private", "dsa">>, <<"public", "dsa">>,
              <<"private", "ec">>, <<"public", "ec">>, <<"cert", "x509">>, <<"secret", "aes">>}

Q == INSTANCE CertificateRequest WITH
    changes <- requestChanges, Call <- {"c1", "c2"}, KeyTypes <- {"rsa", "dsa", "ec"},
    Keys <- {"k1", "k2"}, Names <- {"n1", "n2"}, MaxChanges <- 3

fvars == <<clock, pub, private, directory, files, seenDir, infos, byFile, byKey, fresh, blind>>
tvars == <<modules, initialized, storeUri, lookupUris, urisKnown, objects, made, op, saw, kept, gone>>
cvars == <<chain, tokens, pins, anchors, changes, added, build, was>>
kvars == <<kind, hidden, key, paired, cached, cache, load, exchanges>>
qvars == <<token, request, call, alone, requestChanges>>
vars == <<part, fvars, tvars, cvars, kvars, qvars>>

\* Only the part that runs has a choice of initial states.
Init ==
    /\ part \in {"files", "trust", "chain", "keys", "requests"}
    /\ F!FInit /\ T!TInit /\ G!CInit /\ K!PInit /\ Q!RInit
    /\ part = "trust" \/ objects = {}
    /\ part = "chain" \/ (tokens = {} /\ pins = {} /\ anchors = {})
    /\ part = "keys" \/ (kind = <<"secret", "aes">> /\ hidden = {} /\ key = "k1" /\ ~paired /\ ~cached)
    /\ part = "requests" \/ token = [type |-> "ec", key |-> "k1", can |-> "no", mechs |-> {}]

Next ==
    \/ part = "files" /\ F!FNext /\ UNCHANGED <<part, tvars, cvars, kvars, qvars>>
    \/ part = "trust" /\ T!TNext /\ UNCHANGED <<part, fvars, cvars, kvars, qvars>>
    \/ part = "chain" /\ G!CNext /\ UNCHANGED <<part, fvars, tvars, kvars, qvars>>
    \/ part = "keys" /\ K!PNext /\ UNCHANGED <<part, fvars, tvars, cvars, qvars>>
    \/ part = "requests" /\ Q!RNext /\ UNCHANGED <<part, fvars, tvars, cvars, kvars>>

Spec == Init /\ [][Next]_vars

\* The keys listed are those of the files (src/gcr/gcr-ssh-agent-preload.c).
KeysCurrent == part = "files" => F!KeysCurrent

\* Trust lookups say what is on the tokens, and pins stay until they are removed,
\* and then are gone (src/gcr/gcr-trust.c).
TrustAnswers == part = "trust" => T!TrustAnswers /\ T!PinsKept

\* A chain is what its status says (src/gcr/gcr-certificate-chain.c,
\* perform_build_chain).
ChainSound == part = "chain" => G!ChainSound

\* A public key that was loaded is the object's own (src/gcr/gcr-subject-public-key.c,
\* _gcr_subject_public_key_load), and the signature of a request that was completed
\* with it verifies (src/gcr/gcr-certificate-request.c).
RequestsVerify ==
    /\ part = "keys" => K!PublicKeyRight
    /\ part = "requests" => Q!RequestVerifies
=============================================================================
