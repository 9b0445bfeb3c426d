------------------------- MODULE CertificateRequest -------------------------
(***************************************************************************)
(* gcr-certificate-request.c and gcr-key-mechanisms.c: a request is named,  *)
(* completed by calls that load the public key, look for a mechanism and    *)
(* sign, and encoded, while the application changes the name and starts     *)
(* another call, and another program exchanges the key on the token.        *)
(***************************************************************************)
EXTENDS Integers, Sequences, SequencesExt

CONSTANTS
    Call,         \* calls of _complete, _capable and their asynchronous forms
    KeyTypes,     \* the types of key there may be on the token
    Keys,         \* the keys that may be on it
    Names,        \* common names
    MaxChanges    \* bound: names set and keys exchanged

VARIABLES
    token,        \* [type, key, can, mechs]: the private key and what its slot can do
    request,      \* [cn, spki, algorithm, signature, by]; by is the call that signed
    call,         \* [what, pc, algorithm, mechanism, tbs]
    alone,        \* the calls during and since which nothing else was done
    changes       \* counts names set and exchanges

rvars == <<token, request, call, alone, changes>>

None == "none"
RsaMechanisms == <<"SHA1_RSA_PKCS", "RSA_PKCS">>
DsaMechanisms == <<"DSA_SHA1", "DSA">>
AllMechanisms == <<"SHA1_RSA_PKCS", "DSA_SHA1", "RSA_PKCS", "DSA">>

\* A digest, and the DigestInfo that PKCS#1 wants around it.
Sha1(data) == <<"sha1", data>>
DigestInfo(digest) == <<"info", digest>>

\* What the token signs: the mechanisms that hash do so themselves.
SignedBy(mechanism, key, data) ==
    CASE mechanism = "SHA1_RSA_PKCS" -> <<key, DigestInfo(Sha1(data))>>
      [] mechanism = "DSA_SHA1" -> <<key, Sha1(data)>>
      [] OTHER -> <<key, data>>

\* find_first_usable_mechanism, _gcr_key_mechanisms_check: can is what is known of
\* CKA_SIGN.
FirstUsable(wanted, can, mechs) ==
    LET i == SelectInSeq(wanted, LAMBDA m : m \in mechs) IN
    IF can = "no" \/ i = 0 THEN "invalid" ELSE wanted[i]

\* prepare_subject_public_key_and_mechanisms.
Mechanisms(type) == IF type = "rsa" THEN RsaMechanisms ELSE DsaMechanisms
Algorithm(type) == IF type = "rsa" THEN "sha1WithRSA" ELSE "sha1WithDSA"
Supported(type) == type \in {"rsa", "dsa"}

\* Mutant: a mechanism that does not hash is given the bare digest for RSA too.
ToBeSignedBare(info, mechanism) ==
    IF mechanism \in {"SHA1_RSA_PKCS", "DSA_SHA1"} THEN info ELSE Sha1(info)

\* prepare_to_be_signed, hash_sha1_pkcs1 and hash_sha1.
ToBeSigned(info, mechanism) ==
    CASE mechanism \in {"SHA1_RSA_PKCS", "DSA_SHA1"} -> info
      [] mechanism = "RSA_PKCS" -> DigestInfo(Sha1(info))
      [] mechanism = "DSA" -> Sha1(info)

Idle == [what |-> None, pc |-> "idle", algorithm |-> None, mechanism |-> None, tbs |-> None]

RInit ==
    /\ token \in [type : KeyTypes, key : Keys, can : {"yes", "no", "unset"},
                  mechs : {{}, {"RSA_PKCS", "DSA"}, {"SHA1_RSA_PKCS", "RSA_PKCS", "DSA_SHA1", "DSA"}}]
    /\ request = [cn |-> None, spki |-> None, algorithm |-> None, signature |-> None, by |-> None]
    /\ call = [c \in Call |-> Idle]
    /\ alone = {} /\ changes = 0

Info == <<request.cn, request.spki>>
Runs(c) == call[c].pc \notin {"idle", "done", "failed", "yes", "no"}
Goes(c, pc) == call' = [call EXCEPT ![c].pc = pc]

\* gcr_certificate_request_set_cn.
SetCn(n) ==
    /\ changes < MaxChanges
    /\ request' = [request EXCEPT !.cn = n]
    /\ alone' = {} /\ changes' = changes + 1
    /\ UNCHANGED <<token, call>>

\* gcr_certificate_request_complete and _complete_async, of a request with a name;
\* gcr_certificate_request_capable and _capable_async.
Begin(c, what) ==
    /\ call[c].pc = "idle" /\ (what = "complete" => request.cn # None)
    /\ call' = [call EXCEPT ![c].what = what, ![c].pc = IF what = "complete" THEN "load" ELSE "check"]
    /\ alone' = IF what # "complete" THEN alone
                ELSE IF \E d \in Call : Runs(d) /\ call[d].what = "complete" THEN {} ELSE {c}
    /\ UNCHANGED <<token, request, changes>>

\* on_subject_public_key_loaded: the key goes into the request.
KeyLoaded(c, ok) ==
    /\ call[c].pc = "load"
    /\ IF ok /\ Supported(token.type)
       THEN /\ request' = [request EXCEPT !.spki = <<token.key, token.type>>]
            /\ call' = [call EXCEPT ![c].pc = "check", ![c].algorithm = Algorithm(token.type)]
       ELSE Goes(c, "failed") /\ UNCHANGED request
    /\ UNCHANGED <<token, alone, changes>>

\* on_mechanism_check: what is to be signed is encoded now.
MechanismChecked(c, ok) ==
    /\ call[c].pc = "check" /\ call[c].what = "complete"
    /\ LET type == IF call[c].algorithm = "sha1WithRSA" THEN "rsa" ELSE "dsa"
           m == IF ok THEN FirstUsable(Mechanisms(type), token.can, token.mechs) ELSE "invalid"
       IN  IF m = "invalid" THEN Goes(c, "failed")
           ELSE call' = [call EXCEPT ![c].pc = "sign", ![c].mechanism = m, ![c].tbs = ToBeSigned(Info, m)]
    /\ UNCHANGED <<token, request, alone, changes>>

\* on_certificate_request_signed, encode_take_signature_into_request.
RequestSigned(c, ok) ==
    /\ call[c].pc = "sign"
    /\ IF ok
       THEN /\ request' = [request EXCEPT !.signature = SignedBy(call[c].mechanism, token.key, call[c].tbs),
                                          !.algorithm = call[c].algorithm, !.by = c]
            /\ Goes(c, "done")
       ELSE Goes(c, "failed") /\ UNCHANGED request
    /\ UNCHANGED <<token, alone, changes>>

\* gcr_certificate_request_capable returns the mechanism, and GCK_INVALID is not
\* zero; gcr_certificate_request_capable_finish compares.
CapableChecked(c, ok) ==
    /\ call[c].pc = "check" /\ call[c].what # "complete"
    /\ LET m == IF ok THEN FirstUsable(AllMechanisms, token.can, token.mechs) ELSE "invalid" IN
       Goes(c, IF call[c].what = "capable" \/ m # "invalid" THEN "yes" ELSE "no")
    /\ UNCHANGED <<token, request, alone, changes>>

\* Another program puts another key into the object.
Exchange(k) ==
    /\ changes < MaxChanges /\ k # token.key
    /\ token' = [token EXCEPT !.key = k]
    /\ alone' = {} /\ changes' = changes + 1
    /\ UNCHANGED <<request, call>>

RNext ==
    \/ \E n \in Names : SetCn(n)
    \/ \E c \in Call, what \in {"complete", "capable", "capable_async"} : Begin(c, what)
    \/ \E c \in Call, ok \in BOOLEAN :
         KeyLoaded(c, ok) \/ MechanismChecked(c, ok) \/ RequestSigned(c, ok) \/ CapableChecked(c, ok)
    \/ \E k \in Keys : Exchange(k)

-----------------------------------------------------------------------------
\* What a signature of this algorithm by the key in the request would be.
Verifies ==
    request.signature =
        <<request.spki[1], IF request.algorithm = "sha1WithRSA" THEN DigestInfo(Sha1(Info)) ELSE Sha1(Info)>>

\* A request that was completed, and that nobody touched during that call and since,
\* carries a signature that verifies with the key in it, whichever mechanism the
\* token had; a call that said so is the one that signed; and one that can say no
\* (gcr_certificate_request_capable_finish) says yes only of a token that can sign.
RequestVerifies ==
    /\ request.by \in alone => Verifies /\ call[request.by].pc = "done"
    /\ \A c \in Call : call[c].pc = "yes" /\ call[c].what = "capable_async" =>
         token.can # "no" /\ token.mechs # {}

\* gcr_certificate_request_capable says whether a request can be created.
CapableTells ==
    \A c \in Call : call[c].pc = "yes" => token.can # "no" /\ token.mechs # {}
=============================================================================
