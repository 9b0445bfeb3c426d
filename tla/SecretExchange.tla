---------------------------- MODULE SecretExchange ----------------------------
(***************************************************************************)
(* The secret exchange, src/gcr/gcr-secret-exchange.c, between the two ends *)
(* of a prompt: the prompter begins, the client receives and replies, and   *)
(* from then on each side may send a secret.  Cryptography is symbolic: a   *)
(* key pair is a fresh number, a transport key is the unordered pair of the *)
(* key pairs it was derived from, and a secret encrypted with a key can be  *)
(* decrypted with that key only.                                            *)
(***************************************************************************)
EXTENDS Integers, Sequences

CONSTANTS
    Side,        \* the two ends
    Peer,        \* the other end of each
    Secret,      \* what may be sent
    NoSecret,    \* a NULL secret
    Garbage,     \* what a wrong key decrypts to
    MaxKeys,     \* bound: key pairs generated
    MaxSent,     \* bound: strings sent by each side
    Restart      \* whether a side may begin again

ASSUME SideAssumption ==
    /\ Peer \in [Side -> Side]
    /\ \A s \in Side : Peer[s] # s /\ Peer[Peer[s]] = s
ASSUME BoundAssumption == MaxKeys \in Nat /\ MaxSent \in Nat
ASSUME SecretAssumption == NoSecret \notin Secret /\ Garbage \notin Secret

VARIABLES
    exchange,    \* the GcrSecretExchange of each side
    channel,     \* the strings on their way to each side, in order
    keys         \* the number of key pairs generated so far

vars == <<exchange, channel, keys>>

NoKey == {}
Key == SUBSET (1..MaxKeys)

\* A string: the public key, and a secret encrypted with a transport key.
Wire == [public : 1..MaxKeys, secret : Secret \cup {NoSecret}, under : Key]

Plain(public) == [public |-> public, secret |-> NoSecret, under |-> NoKey]

-----------------------------------------------------------------------------
Init ==
    /\ exchange = [s \in Side |-> [generated |-> FALSE, pair |-> 0, derived |-> FALSE,
                                   key |-> NoKey, secret |-> NoSecret, sent |-> 0]]
    /\ channel = [s \in Side |-> <<>>]
    /\ keys = 0

Post(s, m) == channel' = [channel EXCEPT ![Peer[s]] = Append(@, m)]

\* gcr_secret_exchange_begin: whatever was agreed is forgotten (though the
\* key's memory is kept), a new key pair made, and its public half sent.
Begin(s) ==
    LET e == exchange[s] IN
    /\ Restart \/ (~e.derived /\ e.sent = 0)
    /\ keys < MaxKeys /\ e.sent < MaxSent
    /\ keys' = keys + 1
    /\ exchange' = [exchange EXCEPT ![s] =
          [generated |-> TRUE, pair |-> keys', derived |-> FALSE, key |-> e.key,
           secret |-> NoSecret, sent |-> e.sent + 1]]
    /\ Post(s, Plain(keys'))

\* Mutant: the key is not derived from the peer's public value.
DerivedOwn(pair, public) == {pair}

\* gcr_secret_exchange_default_derive_transport_key.
Derived(pair, public) == {pair, public}

\* Mutant: the secret received before stays when a string has none.
DecryptedSticky(e, key, m) ==
    IF m.secret = NoSecret THEN {e.secret}
    ELSE IF m.under = key THEN {m.secret} ELSE {NoSecret, Garbage}

\* perform_decrypt.  With the wrong key the padding is wrong, which leaves a
\* NULL secret and is no failure, or happens to be right.
Decrypted(e, key, m) ==
    IF m.secret = NoSecret THEN {NoSecret}
    ELSE IF m.under = key THEN {m.secret} ELSE {NoSecret, Garbage}

\* gcr_secret_exchange_receive of the next string.  A key pair is made if
\* there is none, and a key derived unless there is one.
Receive(s) ==
    LET e == exchange[s]
        m == Head(channel[s])
        fresh == ~e.generated
        pair == IF fresh THEN keys + 1 ELSE e.pair
        key == IF e.derived THEN e.key ELSE Derived(pair, m.public)
    IN
    /\ channel[s] # <<>>
    /\ fresh => keys < MaxKeys
    /\ keys' = IF fresh THEN keys + 1 ELSE keys
    /\ \E secret \in Decrypted(e, key, m) :
          exchange' = [exchange EXCEPT ![s] =
             [generated |-> TRUE, pair |-> pair, derived |-> TRUE, key |-> key,
              secret |-> secret, sent |-> e.sent]]
    /\ channel' = [channel EXCEPT ![s] = Tail(@)]

\* gcr_secret_exchange_receive of a string that is refused: it cannot be parsed
\* (nothing changes), it lacks a public key that is needed (a key pair may have
\* been made), or its secret cannot be decrypted for want of an iv or a whole
\* number of blocks (a key may have been derived as well).
ReceiveInvalid(s) ==
    LET e == exchange[s]
        fresh == ~e.generated
        pair == IF fresh THEN keys + 1 ELSE e.pair
        key == IF e.derived THEN e.key ELSE Derived(pair, Head(channel[s]).public)
    IN
    /\ channel[s] # <<>>
    /\ channel' = [channel EXCEPT ![s] = Tail(@)]
    /\ \/ UNCHANGED <<exchange, keys>>
       \/ /\ fresh => keys < MaxKeys
          /\ keys' = IF fresh THEN keys + 1 ELSE keys
          /\ \E derived \in {e.derived, TRUE} :
                exchange' = [exchange EXCEPT ![s] =
                   [generated |-> TRUE, pair |-> pair, derived |-> derived,
                    key |-> IF derived THEN key ELSE e.key,
                    secret |-> e.secret, sent |-> e.sent]]

\* gcr_secret_exchange_send, refused before a key is derived.
Send(s, secret) ==
    LET e == exchange[s] IN
    /\ e.derived
    /\ e.sent < MaxSent
    /\ exchange' = [exchange EXCEPT ![s] =
          [generated |-> e.generated, pair |-> e.pair, derived |-> TRUE, key |-> e.key,
           secret |-> e.secret, sent |-> e.sent + 1]]
    /\ Post(s, IF secret = NoSecret THEN Plain(e.pair)
               ELSE [public |-> e.pair, secret |-> secret, under |-> e.key])
    /\ UNCHANGED keys

Next == \E s \in Side : \/ Begin(s)
                        \/ Receive(s)
                        \/ ReceiveInvalid(s)
                        \/ \E secret \in Secret \cup {NoSecret} : Send(s, secret)

Spec == Init /\ [][Next]_vars

-----------------------------------------------------------------------------
(* Properties.                                                             *)

TypeOK ==
    /\ exchange \in [Side -> [generated : BOOLEAN, pair : 0..MaxKeys, derived : BOOLEAN,
                              key : Key, secret : Secret \cup {NoSecret, Garbage},
                              sent : 0..MaxSent]]
    /\ channel \in [Side -> Seq(Wire)]
    /\ keys \in 0..MaxKeys

\* Two ends that have derived a transport key have derived the same one,
\* whoever began, also when both did or a string was lost.
KeysAgree ==
    ~Restart => \A s \in Side :
        exchange[s].derived /\ exchange[Peer[s]].derived =>
            exchange[s].key = exchange[Peer[s]].key

\* A secret in a string that is received is the secret that was sent, and a
\* string without one leaves none: gcr_secret_exchange_get_secret returns what
\* the last string carried.
SecretArrives ==
    [][~Restart => \A s \in Side :
          Receive(s) => exchange'[s].secret = Head(channel[s]).secret]_vars
=============================================================================
