--------------------------- MODULE CertificateChain ---------------------------
(***************************************************************************)
(* GcrCertificateChain: certificates are added, and chains built, at once   *)
(* or in threads, of what was added and of what tokens have, while the      *)
(* tokens' certificates, pins and anchors change.                           *)
(***************************************************************************)
EXTENDS Integers, Sequences, SequencesExt, FiniteSets

CONSTANTS
    Own,          \* the certificates that are added: [subject, issuer, kind]; those
                  \* of the kind "other" are not thread safe
    OnTokens,     \* certificates that tokens may have
    Pinnable, Anchorable,   \* certificates that there may be assertions about
    Build,        \* builds, in the order they are started
    Options,      \* build -> the [async, lookups, peer] it may be asked for with
    MaxChain,     \* bound: the length of a chain
    MaxInput,     \* bound: certificates added
    MaxChanges    \* bound: changes to the tokens while chains are built

VARIABLES
    chain,        \* the object's: [certs, status]
    tokens,       \* certificates found on tokens
    pins, anchors,\* assertions: gcr_trust_is_certificate_pinned, _anchored
    changes,      \* counts changes of the tokens
    added,        \* counts certificates added
    build,        \* builds: see NoBuild
    was           \* build -> what was on the tokens while it ran (history)

cvars == <<chain, tokens, pins, anchors, changes, added, build, was>>

\* A certificate in a chain: itself, or a copy made for a thread.
Entry(c, copy) == [cert |-> c, copy |-> copy]
Certs(s) == [i \in DOMAIN s |-> s[i].cert]

Unbuilt == [certs |-> <<>>, status |-> "unknown"]
NoBuild == [pc |-> "none", async |-> FALSE, lookups |-> FALSE, peer |-> FALSE, input |-> <<>>,
            first |-> <<>>, certs |-> <<>>, status |-> "unknown", found |-> {}]

Never == [tokens |-> {}, pins |-> {}, anchors |-> {}]

CInit ==
    /\ chain = Unbuilt
    /\ tokens \in SUBSET OnTokens
    /\ pins \in SUBSET Pinnable /\ anchors \in SUBSET Anchorable
    /\ changes = 0 /\ added = 0
    /\ build = [b \in Build |-> NoBuild]
    /\ was = [b \in Build |-> Never]

\* gcr_certificate_is_issuer: the names alone.
IsIssuer(c, issuer) == c.issuer = issuer.subject

Seen(w) == [tokens |-> w.tokens \cup tokens', pins |-> w.pins \cup pins', anchors |-> w.anchors \cup anchors']
Watch == was' = [b \in Build |-> IF build'[b].pc \in {"none", "done"} THEN Never ELSE Seen(was[b])]

Token == <<tokens, pins, anchors, changes, added>>
Builds(b, r) == build' = [build EXCEPT ![b] = r]

-----------------------------------------------------------------------------
\* gcr_certificate_chain_add.
Add(c) ==
    /\ added < MaxInput /\ added' = added + 1
    /\ chain' = [certs |-> Append(chain.certs, Entry(c, FALSE)), status |-> "unknown"]
    /\ UNCHANGED <<tokens, pins, anchors, changes, build>>

\* gcr_certificate_chain_build and _build_async: the build has its own list, in a
\* thread one of safe copies; prep_chain_private and prep_chain_private_thread_safe.
BuildStart(b, o) ==
    /\ build[b].pc = "none" /\ \A d \in Build : d < b => build[d].pc # "none"
    /\ LET list == [i \in DOMAIN chain.certs |->
                      Entry(chain.certs[i].cert, o.async /\ chain.certs[i].cert.kind = "other")]
       IN  Builds(b, [NoBuild EXCEPT !.pc = "first", !.async = o.async, !.lookups = o.lookups, !.peer = o.peer,
                                     !.input = list, !.first = Certs(list)])
    /\ UNCHANGED <<chain, Token>>

Took(r, c, found) == [r EXCEPT !.certs = Append(@, c), !.found = @ \cup found]
Stops(r, status) == [r EXCEPT !.pc = "built", !.status = status]

\* Mutant: the last certificate is not moved to the place that is free.
RemoveFastShort(s, i) == [j \in 1..Len(s) - 1 |-> s[j]]

\* g_ptr_array_remove_index_fast.
RemoveFast(s, i) == [j \in 1..Len(s) - 1 |-> IF j = i THEN Last(s) ELSE s[j]]

\* The first certificate, with the check for its pin to come.
FirstCertificate(b) ==
    /\ build[b].pc = "first"
    /\ LET r == build[b] IN
         Builds(b, IF r.input = <<>> THEN Stops(r, "unknown")
                   ELSE [Took(r, Head(r.input), {}) EXCEPT !.input = RemoveFast(r.input, 1),
                            !.pc = IF r.lookups /\ r.peer THEN "pinned" ELSE "next"])
    /\ UNCHANGED <<chain, Token>>

\* gcr_trust_is_certificate_pinned, which may fail.
IsPinned(b, fails) ==
    /\ build[b].pc = "pinned"
    /\ LET r == build[b] IN
         Builds(b, IF fails THEN [r EXCEPT !.pc = "failed"]
                   ELSE IF Last(r.certs).cert \in pins THEN Stops(r, "pinned")
                   ELSE [r EXCEPT !.pc = "next"])
    /\ UNCHANGED <<chain, Token>>

\* The turn of the loop, as far as it needs no token: pop_certificate takes the
\* first that fits.
NextCertificate(b) ==
    /\ build[b].pc = "next"
    /\ LET r == build[b]
           last == Last(r.certs).cert
           fits == {i \in DOMAIN r.input : IsIssuer(last, r.input[i].cert)}
           i == CHOOSE i \in fits : \A j \in fits : i =< j
       IN  Builds(b, IF IsIssuer(last, last) THEN Stops(r, "selfsigned")
                     ELSE IF fits # {}
                     THEN [Took(r, r.input[i], {}) EXCEPT !.input = RemoveFast(r.input, i),
                              !.pc = IF r.lookups THEN "anchored" ELSE "next"]
                     ELSE IF r.lookups THEN [r EXCEPT !.pc = "lookup"]
                     ELSE Stops(r, "incomplete"))
    /\ UNCHANGED <<chain, Token>>

\* gcr_pkcs11_certificate_lookup_issuer and perform_lookup_certificate: any token
\* certificate with the right subject; one that is gone when its value is read is
\* an error, as is a token that fails.
LookupIssuer(b, fails) ==
    /\ build[b].pc = "lookup"
    /\ Len(build[b].certs) < MaxChain
    /\ LET r == build[b]
           fits == {c \in tokens : IsIssuer(Last(r.certs).cert, c)}
       IN  IF fails THEN Builds(b, [r EXCEPT !.pc = "failed"])
           ELSE IF fits = {} THEN Builds(b, Stops(r, "incomplete"))
           ELSE \E c \in fits : Builds(b, [Took(r, Entry(c, FALSE), {c}) EXCEPT !.pc = "anchored"])
    /\ UNCHANGED <<chain, Token>>

\* gcr_trust_is_certificate_anchored: of all but the first.
IsAnchored(b, fails) ==
    /\ build[b].pc = "anchored"
    /\ LET r == build[b] IN
         Builds(b, IF fails THEN [r EXCEPT !.pc = "failed"]
                   ELSE IF Last(r.certs).cert \in anchors THEN Stops(r, "anchored")
                   ELSE [r EXCEPT !.pc = "next"])
    /\ UNCHANGED <<chain, Token>>

\* cleanup_chain_private: copies are replaced by what they are copies of.
Cleanup(r) == [certs |-> [i \in DOMAIN r.certs |-> Entry(r.certs[i].cert, FALSE)], status |-> r.status]

\* gcr_certificate_chain_build_finish and the end of gcr_certificate_chain_build:
\* what was built replaces the chain, what was added meanwhile too.  A build in a
\* thread that is cancelled after it was done, as g_task_propagate_boolean looks
\* again, is thrown away and the chain stays.
BuildFinish(b, cancelled) ==
    LET r == [build[b] EXCEPT !.pc = "done", !.input = <<>>, !.first = <<>>, !.found = {}]
        given == build[b].pc = "built" /\ ~cancelled
    IN
    /\ build[b].pc \in {"built", "failed"}
    /\ cancelled => build[b].async
    /\ chain' = IF given THEN Cleanup(r) ELSE chain
    /\ Builds(b, IF given THEN r ELSE [r EXCEPT !.certs = <<>>, !.status = "unknown"])
    /\ UNCHANGED Token

Toggle(set, c) == (set \ {c}) \cup ({c} \ set)

\* Tokens come and go, and so do assertions: it matters when one is about to be
\* asked.
TokensChange ==
    /\ (\E d \in Build : build[d].pc \in {"pinned", "lookup", "anchored"})
    /\ changes < MaxChanges /\ changes' = changes + 1
    /\ \/ \E c \in OnTokens : tokens' = Toggle(tokens, c) /\ UNCHANGED <<pins, anchors>>
       \/ \E c \in Anchorable : anchors' = Toggle(anchors, c) /\ UNCHANGED <<tokens, pins>>
       \/ \E c \in Pinnable : pins' = Toggle(pins, c) /\ UNCHANGED <<tokens, anchors>>
    /\ UNCHANGED <<chain, added, build>>

BuildStep(b) ==
    \/ FirstCertificate(b) \/ NextCertificate(b)
    \/ \E cancelled \in BOOLEAN : BuildFinish(b, cancelled)
    \/ \E fails \in BOOLEAN : IsPinned(b, fails) \/ LookupIssuer(b, fails) \/ IsAnchored(b, fails)

\* A synchronous build keeps the caller until it is done.
Busy == \E b \in Build : build[b].pc \notin {"none", "done"} /\ ~build[b].async

CNext ==
    /\ \/ \E c \in Own : ~Busy /\ Add(c)
       \/ \E b \in Build : \E o \in Options[b] : ~Busy /\ BuildStart(b, o)
       \/ \E b \in Build : BuildStep(b) /\ (build[b].pc \in {"built", "failed"} => ~build[b].async \/ ~Busy)
       \/ TokensChange
    /\ Watch

-----------------------------------------------------------------------------
\* The states gcr_certificate_chain_get_status documents, of each chain that was
\* built: it starts with the first certificate that was added, every certificate
\* is an issuer of the one before, each comes from what was added, once, or from
\* a token; "pinned" is the first alone, found pinned; "anchored" ends in the one
\* that was found to be an anchor; "selfsigned" ends in a self-signed one and no
\* earlier certificate is; "incomplete" means that nothing that was added fits.
BuiltRight(r, w) ==
    LET certs == Certs(r.certs)
        last == Last(certs)
        Uses(s, c) == Cardinality({i \in DOMAIN s : s[i] = c})
    IN  \/ certs = <<>> /\ r.status = "unknown"
        \/ /\ certs # <<>> /\ certs[1] = r.first[1]
           /\ \A i \in 1..Len(certs) - 1 : IsIssuer(certs[i], certs[i + 1]) /\ ~IsIssuer(certs[i], certs[i])
           /\ \A i \in DOMAIN certs : certs[i] \in ToSet(r.first) \cup r.found
           /\ \A c \in ToSet(certs) \ r.found : Uses(certs, c) =< Uses(r.first, c)
           /\ r.found \subseteq w.tokens
           /\ CASE r.status = "pinned" -> Len(certs) = 1 /\ last \in w.pins
                [] r.status = "anchored" -> Len(certs) > 1 /\ last \in w.anchors
                [] r.status = "selfsigned" -> IsIssuer(last, last)
                [] r.status = "incomplete" ->
                     \A c \in ToSet(r.first) : IsIssuer(last, c) =>
                        Cardinality({i \in DOMAIN r.first : r.first[i] = c}) =< Uses(certs, c)
                [] OTHER -> FALSE

\* Every build that is over gives what its status says of the certificates it was
\* given and of tokens and assertions that were there while it ran; and a chain
\* that has a status is the result of a build, with the caller's own certificates
\* in it again: a copy made for a thread is never handed out, and nothing is left
\* of a status once a certificate was added.
ChainSound ==
    /\ \A b \in Build : build[b].pc = "built" => BuiltRight(build[b], was[b])
    /\ \A i \in DOMAIN chain.certs : ~chain.certs[i].copy
    /\ chain.status # "unknown" =>
         \E b \in Build : /\ build[b].pc = "done" /\ build[b].status = chain.status
                          /\ Certs(build[b].certs) = Certs(chain.certs)
=============================================================================
