------------------------- MODULE SecretExchangeProofs -------------------------
(***************************************************************************)
(* The two ends of a secret exchange agree on the transport key, for any    *)
(* number of key pairs, strings and secrets.  The argument: an end's key    *)
(* pair is settled once it has sent a string or derived a key, all that it  *)
(* has sent carries that pair, and a derived key is made of the two ends'   *)
(* settled pairs.  A secret on its way is then under the key that its       *)
(* receiver has, or derives.                                                *)
(*                                                                         *)
(* The second part is about what comes after it: the passphrase that the    *)
(* prompter was given goes on to the helper of ssh-add that asked for it.   *)
(***************************************************************************)
EXTENDS SecretExchange, SshAskpass, TLAPS

-----------------------------------------------------------------------------
(* The two ends of an exchange.                                             *)

ExchangeState == [generated : BOOLEAN, pair : 0..MaxKeys, derived : BOOLEAN,
                  key : Key, secret : Secret \cup {NoSecret, Garbage}, sent : 0..MaxSent]

\* A side that has sent or derived anything has a key pair.
Generated ==
    \A s \in Side :
        /\ exchange[s].generated => exchange[s].pair # 0
        /\ exchange[s].sent > 0 => exchange[s].generated
        /\ exchange[s].derived => exchange[s].generated

\* What is on its way to s carries the key pair of its peer.
Carried ==
    \A s \in Side : \A i \in 1..Len(channel[s]) :
        /\ channel[s][i].public = exchange[Peer[s]].pair
        /\ exchange[Peer[s]].sent > 0

\* A derived key is that of the two key pairs.
Agreed ==
    \A s \in Side : exchange[s].derived =>
        /\ exchange[Peer[s]].sent > 0
        /\ exchange[s].key = {exchange[s].pair, exchange[Peer[s]].pair}

\* The inductive invariant.
ExchangeInv == TypeOK /\ Generated /\ (~Restart => Carried /\ Agreed)

\* The message that Receive takes is one of those on their way.
LEMMA HeadIsCarried ==
    ASSUME TypeOK, NEW s \in Side, channel[s] # <<>>
    PROVE  /\ 1 \in 1..Len(channel[s]) /\ Head(channel[s]) = channel[s][1]
           /\ Head(channel[s]) \in Wire /\ Tail(channel[s]) \in Seq(Wire)
           /\ \A i \in 1..Len(Tail(channel[s])) :
                 i + 1 \in 1..Len(channel[s]) /\ Tail(channel[s])[i] = channel[s][i + 1]
<1>1. channel[s] \in Seq(Wire)
  BY DEF TypeOK
<1> QED
  BY <1>1

LEMMA WireType ==
    ASSUME NEW m \in Wire
    PROVE  m.public \in 1..MaxKeys /\ m.secret \in Secret \cup {NoSecret} /\ m.under \in Key
  BY DEF Wire

\* A string of s with its public key p: what is on its way afterwards.
LEMMA PostType ==
    ASSUME TypeOK, NEW s \in Side, NEW m \in Wire, Post(s, m)
    PROVE  /\ channel' \in [Side -> Seq(Wire)]
           /\ channel'[s] = channel[s]
           /\ Len(channel'[Peer[s]]) = Len(channel[Peer[s]]) + 1
           /\ \A i \in 1..Len(channel[Peer[s]]) : channel'[Peer[s]][i] = channel[Peer[s]][i]
           /\ channel'[Peer[s]][Len(channel[Peer[s]]) + 1] = m
<1>1. Peer[s] \in Side /\ Peer[s] # s
  BY SideAssumption
<1>2. channel[Peer[s]] \in Seq(Wire)
  BY <1>1 DEF TypeOK
<1>3. channel'[Peer[s]] = Append(channel[Peer[s]], m) /\ channel'[s] = channel[s]
  BY <1>1 DEF Post, TypeOK
<1>4. channel' \in [Side -> Seq(Wire)]
  BY <1>1, <1>2 DEF Post, TypeOK
<1> QED
  BY <1>2, <1>3, <1>4

LEMMA UpdateType ==
    ASSUME TypeOK, NEW s \in Side, NEW r \in ExchangeState,
           exchange' = [exchange EXCEPT ![s] = r]
    PROVE  /\ exchange' \in [Side -> ExchangeState]
           /\ exchange'[s] = r
           /\ \A t \in Side : t # s => exchange'[t] = exchange[t]
<1>1. exchange \in [Side -> ExchangeState]
  BY DEF TypeOK, ExchangeState
<1> QED
  BY <1>1

\* A side sends its public key: either its first string, or one more that
\* leaves what it has settled alone.
LEMMA SendingPreserves ==
    ASSUME ExchangeInv, NEW s \in Side, NEW r \in ExchangeState, NEW m \in Wire,
           exchange' = [exchange EXCEPT ![s] = r], Post(s, m), keys' \in 0..MaxKeys,
           m.public = r.pair, r.sent = exchange[s].sent + 1, r.generated,
           ~Restart => \/ exchange[s].sent = 0 /\ ~r.derived
                       \/ /\ exchange[s].derived /\ r.pair = exchange[s].pair
                          /\ r.key = exchange[s].key
    PROVE  ExchangeInv'
<1>1. /\ exchange' \in [Side -> ExchangeState] /\ exchange'[s] = r
      /\ \A t \in Side : t # s => exchange'[t] = exchange[t]
  BY UpdateType DEF ExchangeInv
<1>2. /\ channel' \in [Side -> Seq(Wire)] /\ channel'[s] = channel[s]
      /\ Len(channel'[Peer[s]]) = Len(channel[Peer[s]]) + 1
      /\ \A i \in 1..Len(channel[Peer[s]]) : channel'[Peer[s]][i] = channel[Peer[s]][i]
      /\ channel'[Peer[s]][Len(channel[Peer[s]]) + 1] = m
  BY PostType DEF ExchangeInv
<1>3. \A t \in Side : t # Peer[s] => channel'[t] = channel[t]
  BY DEF Post, ExchangeInv, TypeOK
<1>4. TypeOK'
  BY <1>1, <1>2 DEF TypeOK, ExchangeState
<1>5. r.pair # 0 /\ r.sent > 0
  <2>1. r.pair \in 1..MaxKeys
    BY WireType
  <2>2. exchange[s].sent \in Nat
    BY DEF ExchangeInv, TypeOK
  <2> QED
    BY <2>1, <2>2, BoundAssumption
<1>6. Generated'
  BY <1>1, <1>5 DEF ExchangeInv, Generated
<1>7. ASSUME ~Restart
      PROVE  Carried'
  <2> SUFFICES ASSUME NEW t \in Side, NEW i \in 1..Len(channel'[t])
               PROVE  /\ channel'[t][i].public = exchange'[Peer[t]].pair
                      /\ exchange'[Peer[t]].sent > 0
    BY DEF Carried
  <2>1. CASE t = Peer[s]
    <3>1. Peer[t] = s
      BY <2>1, SideAssumption
    <3>2. CASE i = Len(channel[t]) + 1
      BY <1>1, <1>2, <1>5, <2>1, <3>1, <3>2
    <3>3. CASE i # Len(channel[t]) + 1
      <4>0. channel[t] \in Seq(Wire) /\ i \in 1..(Len(channel[t]) + 1)
        BY <1>2, <2>1 DEF ExchangeInv, TypeOK
      <4>1. Len(channel[t]) \in Nat /\ i \in 1..Len(channel[t])
        BY <3>3, <4>0
      <4>2. channel[t][i].public = exchange[s].pair /\ exchange[s].sent > 0
        BY <1>7, <3>1, <4>1 DEF ExchangeInv, Carried
      <4> QED
        BY <1>1, <1>2, <1>5, <1>7, <2>1, <3>1, <4>1, <4>2
    <3> QED
      BY <3>2, <3>3
  <2>2. CASE t # Peer[s]
    <3>1. Peer[t] # s /\ Peer[t] \in Side
      BY <2>2, SideAssumption
    <3> QED
      BY <1>1, <1>3, <1>7, <2>2, <3>1 DEF ExchangeInv, Carried
  <2> QED
    BY <2>1, <2>2
<1>8. ASSUME ~Restart
      PROVE  Agreed'
  <2> SUFFICES ASSUME NEW t \in Side, exchange'[t].derived
               PROVE  /\ exchange'[Peer[t]].sent > 0
                      /\ exchange'[t].key = {exchange'[t].pair, exchange'[Peer[t]].pair}
    BY DEF Agreed
  <2>0. Peer[s] \in Side /\ Peer[s] # s /\ Peer[t] \in Side /\ Peer[t] # t /\ Peer[Peer[t]] = t
    BY SideAssumption
  <2>1. CASE t = s
    <3>1. exchange[s].derived /\ r.pair = exchange[s].pair /\ r.key = exchange[s].key
      BY <1>1, <1>8, <2>1
    <3> QED
      BY <1>1, <1>8, <2>0, <2>1, <3>1 DEF ExchangeInv, Agreed
  <2>2. CASE t # s
    <3>1. exchange[t].derived /\ exchange'[t] = exchange[t]
      BY <1>1, <2>2
    <3>2. /\ exchange[Peer[t]].sent > 0
          /\ exchange[t].key = {exchange[t].pair, exchange[Peer[t]].pair}
      BY <1>8, <3>1 DEF ExchangeInv, Agreed
    <3> QED
      BY <1>1, <1>5, <1>8, <2>0, <3>1, <3>2
  <2> QED
    BY <2>1, <2>2
<1> QED
  BY <1>4, <1>6, <1>7, <1>8 DEF ExchangeInv

\* A side takes a string: its key pair stays if it has one, and a key it did
\* not have is derived from the string's.
LEMMA ReceivingPreserves ==
    ASSUME ExchangeInv, NEW s \in Side, NEW r \in ExchangeState, channel[s] # <<>>,
           exchange' = [exchange EXCEPT ![s] = r],
           channel' = [channel EXCEPT ![s] = Tail(@)], keys' \in 0..MaxKeys,
           r.sent = exchange[s].sent,
           r.generated => r.pair # 0, r.derived => r.generated,
           exchange[s].generated => r.generated /\ r.pair = exchange[s].pair,
           r.derived => r.key = IF exchange[s].derived THEN exchange[s].key
                                ELSE {r.pair, Head(channel[s]).public}
    PROVE  ExchangeInv'
<1>1. /\ exchange' \in [Side -> ExchangeState] /\ exchange'[s] = r
      /\ \A t \in Side : t # s => exchange'[t] = exchange[t]
  BY UpdateType DEF ExchangeInv
<1>2. /\ channel'[s] = Tail(channel[s]) /\ channel' \in [Side -> Seq(Wire)]
      /\ \A t \in Side : t # s => channel'[t] = channel[t]
  BY HeadIsCarried DEF ExchangeInv, TypeOK
<1>3. TypeOK'
  BY <1>1, <1>2 DEF TypeOK, ExchangeState
<1>4. Generated'
  BY <1>1 DEF ExchangeInv, Generated
<1>5. \A t \in Side : exchange[t].sent > 0 =>
          exchange'[t].sent > 0 /\ exchange'[t].pair = exchange[t].pair
  BY <1>1 DEF ExchangeInv, Generated
<1>6. \A t \in Side : Peer[t] \in Side /\ Peer[t] # t
  BY SideAssumption
<1>7. ASSUME ~Restart
      PROVE  Carried'
  <2> SUFFICES ASSUME NEW t \in Side, NEW i \in 1..Len(channel'[t])
               PROVE  /\ channel'[t][i].public = exchange'[Peer[t]].pair
                      /\ exchange'[Peer[t]].sent > 0
    BY DEF Carried
  <2>1. PICK j \in 1..Len(channel[t]) : channel'[t][i] = channel[t][j]
    BY <1>2, HeadIsCarried DEF ExchangeInv
  <2> QED
    BY <1>5, <1>6, <1>7, <2>1 DEF ExchangeInv, Carried
<1>8. ASSUME ~Restart
      PROVE  Agreed'
  <2> SUFFICES ASSUME NEW t \in Side, exchange'[t].derived
               PROVE  /\ exchange'[Peer[t]].sent > 0
                      /\ exchange'[t].key = {exchange'[t].pair, exchange'[Peer[t]].pair}
    BY DEF Agreed
  <2>1. CASE t = s
    <3>1. /\ Head(channel[s]).public = exchange[Peer[s]].pair
          /\ exchange[Peer[s]].sent > 0
      BY <1>8, HeadIsCarried DEF ExchangeInv, Carried
    <3>2. CASE exchange[s].derived
      <4>1. exchange[s].key = {exchange[s].pair, exchange[Peer[s]].pair}
        BY <1>8, <3>2 DEF ExchangeInv, Agreed
      <4>2. r.pair = exchange[s].pair /\ r.key = exchange[s].key
        BY <1>1, <2>1, <3>2 DEF ExchangeInv, Generated
      <4> QED
        BY <1>1, <1>5, <1>6, <2>1, <3>1, <4>1, <4>2
    <3>3. CASE ~exchange[s].derived
      <4>1. r.key = {r.pair, Head(channel[s]).public}
        BY <1>1, <2>1, <3>3
      <4> QED
        BY <1>1, <1>5, <1>6, <2>1, <3>1, <4>1
    <3> QED
      BY <3>2, <3>3
  <2>2. CASE t # s
    <3>1. exchange[t].derived /\ exchange'[t] = exchange[t]
      BY <1>1, <2>2
    <3> QED
      BY <1>5, <1>6, <1>8, <3>1 DEF ExchangeInv, Agreed
  <2> QED
    BY <2>1, <2>2
<1> QED
  BY <1>3, <1>4, <1>7, <1>8 DEF ExchangeInv

LEMMA BeginPreserves ==
    ASSUME ExchangeInv, NEW s \in Side, Begin(s)
    PROVE  ExchangeInv'
<1> DEFINE r == [generated |-> TRUE, pair |-> keys', derived |-> FALSE,
                 key |-> exchange[s].key, secret |-> NoSecret, sent |-> exchange[s].sent + 1]
<1>1. /\ keys' \in 1..MaxKeys
      /\ exchange' = [exchange EXCEPT ![s] = r] /\ Post(s, Plain(keys'))
      /\ exchange[s].sent < MaxSent /\ (~Restart => exchange[s].sent = 0)
  BY BoundAssumption DEF Begin, ExchangeInv, TypeOK
<1>2. Plain(keys') \in Wire /\ Plain(keys').public = keys'
  BY <1>1 DEF Plain, Wire, Key, NoKey
<1>3. r \in ExchangeState
  BY <1>1, BoundAssumption DEF ExchangeInv, TypeOK, ExchangeState
<1>4. r.pair = keys' /\ r.generated /\ ~r.derived /\ r.sent = exchange[s].sent + 1
  OBVIOUS
<1>5. keys' \in 0..MaxKeys
  BY <1>1
<1> HIDE DEF r
<1> QED
  BY <1>1, <1>2, <1>3, <1>4, <1>5, SendingPreserves

LEMMA SendPreserves ==
    ASSUME ExchangeInv, NEW s \in Side, NEW secret \in Secret \cup {NoSecret}, Send(s, secret)
    PROVE  ExchangeInv'
<1> DEFINE e == exchange[s]
           r == [generated |-> e.generated, pair |-> e.pair, derived |-> TRUE, key |-> e.key,
                 secret |-> e.secret, sent |-> e.sent + 1]
           m == IF secret = NoSecret THEN Plain(e.pair)
                ELSE [public |-> e.pair, secret |-> secret, under |-> e.key]
<1>1. /\ e.derived /\ e.sent < MaxSent /\ keys' = keys
      /\ exchange' = [exchange EXCEPT ![s] = r] /\ Post(s, m)
  BY DEF Send
<1>2. e \in ExchangeState /\ e.generated /\ e.pair # 0
  BY <1>1 DEF ExchangeInv, TypeOK, ExchangeState, Generated
<1>3. m \in Wire /\ m.public = e.pair
  BY <1>2 DEF Plain, Wire, Key, NoKey, ExchangeState
<1>4. r \in ExchangeState
  BY <1>1, <1>2, BoundAssumption DEF ExchangeState
<1>5. r.pair = e.pair /\ r.key = e.key /\ r.sent = e.sent + 1 /\ (r.generated = e.generated)
  OBVIOUS
<1>6. keys' \in 0..MaxKeys
  BY <1>1 DEF ExchangeInv, TypeOK
<1> HIDE DEF r, m
<1> QED
  BY <1>1, <1>2, <1>3, <1>4, <1>5, <1>6, SendingPreserves

\* What Receive and ReceiveInvalid have in common: the key pair, made if there
\* is none, and the key.
LEMMA KeyOfString ==
    ASSUME ExchangeInv, NEW s \in Side, channel[s] # <<>>,
           NEW pair, pair = IF ~exchange[s].generated THEN keys + 1 ELSE exchange[s].pair,
           ~exchange[s].generated => keys < MaxKeys,
           NEW key, key = IF exchange[s].derived THEN exchange[s].key
                          ELSE Derived(pair, Head(channel[s]).public)
    PROVE  pair \in 1..MaxKeys /\ key \in Key
<1>1. Head(channel[s]).public \in 1..MaxKeys
  BY HeadIsCarried, WireType DEF ExchangeInv
<1>2. keys \in 0..MaxKeys /\ exchange[s].pair \in 0..MaxKeys /\ exchange[s].key \in Key
  BY DEF ExchangeInv, TypeOK
<1>3. exchange[s].generated \in BOOLEAN /\ (exchange[s].generated => exchange[s].pair # 0)
  BY DEF ExchangeInv, TypeOK, Generated
<1>4. pair \in 1..MaxKeys
  BY <1>2, <1>3, BoundAssumption
<1> QED
  BY <1>1, <1>2, <1>4 DEF Derived, Key

LEMMA ReceivePreserves ==
    ASSUME ExchangeInv, NEW s \in Side, Receive(s)
    PROVE  ExchangeInv'
<1> DEFINE e == exchange[s]
           m == Head(channel[s])
           pair == IF ~e.generated THEN keys + 1 ELSE e.pair
           key == IF e.derived THEN e.key ELSE Derived(pair, m.public)
           r(x) == [generated |-> TRUE, pair |-> pair, derived |-> TRUE, key |-> key,
                    secret |-> x, sent |-> e.sent]
<1>1. PICK x \in Decrypted(e, key, m) :
          /\ channel[s] # <<>> /\ (~e.generated => keys < MaxKeys)
          /\ keys' = IF ~e.generated THEN keys + 1 ELSE keys
          /\ exchange' = [exchange EXCEPT ![s] = r(x)]
          /\ channel' = [channel EXCEPT ![s] = Tail(@)]
  BY DEF Receive
<1>2. pair \in 1..MaxKeys /\ key \in Key
  BY <1>1, KeyOfString
<1>3. x \in Secret \cup {NoSecret, Garbage}
  <2>1. m.secret \in Secret \cup {NoSecret}
    BY <1>1, HeadIsCarried, WireType DEF ExchangeInv
  <2> QED
    BY <1>1, <2>1 DEF Decrypted
<1>4. e.sent \in 0..MaxSent /\ keys' \in 0..MaxKeys
  BY <1>1, BoundAssumption DEF ExchangeInv, TypeOK
<1>5. r(x) \in ExchangeState
  BY <1>2, <1>3, <1>4 DEF ExchangeState
<1>6. /\ r(x).sent = e.sent /\ r(x).generated /\ r(x).pair # 0
      /\ e.generated => r(x).pair = e.pair
      /\ r(x).key = IF e.derived THEN e.key ELSE {r(x).pair, m.public}
  BY <1>2 DEF Derived
<1> HIDE DEF r
<1> QED
  BY <1>1, <1>4, <1>5, <1>6, ReceivingPreserves

LEMMA ReceiveInvalidPreserves ==
    ASSUME ExchangeInv, NEW s \in Side, ReceiveInvalid(s)
    PROVE  ExchangeInv'
<1> DEFINE e == exchange[s]
           m == Head(channel[s])
           pair == IF ~e.generated THEN keys + 1 ELSE e.pair
           key == IF e.derived THEN e.key ELSE Derived(pair, m.public)
           r(d) == [generated |-> TRUE, pair |-> pair, derived |-> d,
                    key |-> IF d THEN key ELSE e.key, secret |-> e.secret, sent |-> e.sent]
<1>1. channel[s] # <<>> /\ channel' = [channel EXCEPT ![s] = Tail(@)]
  BY DEF ReceiveInvalid
<1>2. e \in ExchangeState /\ keys \in 0..MaxKeys /\ exchange \in [Side -> ExchangeState]
  BY DEF ExchangeInv, TypeOK, ExchangeState
<1>3. CASE UNCHANGED <<exchange, keys>>
  <2>1. exchange' = [exchange EXCEPT ![s] = e]
    BY <1>2, <1>3
  <2>2. /\ e.generated => e.pair # 0
        /\ e.derived => e.generated
        /\ e.derived => e.key = IF e.derived THEN e.key ELSE {e.pair, m.public}
    BY DEF ExchangeInv, Generated
  <2> HIDE DEF e
  <2>3. e = exchange[s]
    BY DEF e
  <2> QED
    BY <1>1, <1>2, <1>3, <2>1, <2>2, <2>3, ReceivingPreserves
<1>4. CASE /\ ~e.generated => keys < MaxKeys
           /\ keys' = IF ~e.generated THEN keys + 1 ELSE keys
           /\ \E d \in {e.derived, TRUE} : exchange' = [exchange EXCEPT ![s] = r(d)]
  <2>1. PICK d \in {e.derived, TRUE} : exchange' = [exchange EXCEPT ![s] = r(d)]
    BY <1>4
  <2>2. pair \in 1..MaxKeys /\ key \in Key
    BY <1>1, <1>4, KeyOfString
  <2>3. d \in BOOLEAN
    BY <1>2 DEF ExchangeState
  <2>4. keys' \in 0..MaxKeys
    BY <1>2, <1>4, BoundAssumption
  <2>5. r(d) \in ExchangeState
    BY <1>2, <2>2, <2>3 DEF ExchangeState
  <2>6. /\ r(d).sent = e.sent /\ r(d).generated /\ r(d).pair # 0
        /\ e.generated => r(d).pair = e.pair
        /\ r(d).derived => r(d).key = IF e.derived THEN e.key ELSE {r(d).pair, m.public}
    BY <2>2, <2>3 DEF Derived
  <2> HIDE DEF r
  <2> QED
    BY <1>1, <2>1, <2>4, <2>5, <2>6, ReceivingPreserves
<1> QED
  BY <1>3, <1>4 DEF ReceiveInvalid

LEMMA ExchangeInvInvariant == Spec => []ExchangeInv
<1>1. Init => ExchangeInv
  <2> SUFFICES ASSUME Init
               PROVE  ExchangeInv
    OBVIOUS
  <2>1. exchange \in [Side -> ExchangeState]
    BY BoundAssumption DEF Init, ExchangeState, Key, NoKey
  <2>2. TypeOK
    BY <2>1, BoundAssumption DEF Init, TypeOK, ExchangeState
  <2>3. Generated
    <3>1. \A s \in Side : ~exchange[s].generated /\ exchange[s].sent = 0
                            /\ ~exchange[s].derived /\ exchange[s].pair = 0
      BY DEF Init
    <3>2. ASSUME NEW s \in Side
          PROVE  ~(exchange[s].sent > 0)
      <4>1. exchange[s].sent = 0
        BY <3>1
      <4>2. ~(0 > 0)
        OBVIOUS
      <4> QED
        BY <4>1, <4>2, Zenon
    <3> QED
      BY <3>1, <3>2, Zenon DEF Generated
  <2>4. Carried /\ Agreed
    BY DEF Init, Carried, Agreed
  <2> QED
    BY <2>2, <2>3, <2>4 DEF ExchangeInv
<1>2. ExchangeInv /\ [Next]_vars => ExchangeInv'
  <2> SUFFICES ASSUME ExchangeInv, [Next]_vars
               PROVE  ExchangeInv'
    OBVIOUS
  <2>1. CASE UNCHANGED vars
    BY <2>1 DEF vars, ExchangeInv, TypeOK, Generated, Carried, Agreed
  <2>2. CASE Next
    BY <2>2, BeginPreserves, ReceivePreserves, ReceiveInvalidPreserves, SendPreserves DEF Next
  <2> QED
    BY <2>1, <2>2
<1> QED
  BY <1>1, <1>2, PTL DEF Spec

\* Unless a side begins again after it has sent or derived something,
\* gcr_secret_exchange_receive derives the same transport key at both ends.
THEOREM SidesAgree == Spec => []KeysAgree
<1>1. ExchangeInv => KeysAgree
  <2> SUFFICES ASSUME ExchangeInv, ~Restart, NEW s \in Side,
                      exchange[s].derived, exchange[Peer[s]].derived
               PROVE  exchange[s].key = exchange[Peer[s]].key
    BY DEF KeysAgree
  <2>1. Peer[s] \in Side /\ Peer[Peer[s]] = s
    BY SideAssumption
  <2>2. exchange[s].key = {exchange[s].pair, exchange[Peer[s]].pair}
    BY <2>1 DEF ExchangeInv, Agreed
  <2>3. exchange[Peer[s]].key = {exchange[Peer[s]].pair, exchange[s].pair}
    BY <2>1 DEF ExchangeInv, Agreed
  <2> QED
    BY <2>2, <2>3
<1> QED
  BY <1>1, ExchangeInvInvariant, PTL

\* The exchange keeps to its types; every string carries a public key that was
\* generated.
THEOREM ExchangeTyped == Spec => []TypeOK
<1>1. ExchangeInv => TypeOK
  BY DEF ExchangeInv
<1> QED
  BY <1>1, ExchangeInvInvariant, PTL

-----------------------------------------------------------------------------
(* What arrives.                                                           *)

\* A secret on its way to s is under the key that its peer has derived.
Sealed ==
    \A s \in Side : \A i \in 1..Len(channel[s]) :
        channel[s][i].secret # NoSecret =>
            /\ exchange[Peer[s]].derived
            /\ channel[s][i].under = exchange[Peer[s]].key

\* An end that has derived a key keeps it: what was sealed with it stays so.
LEMMA KeptSealed ==
    ASSUME Sealed, NEW s \in Side, NEW r \in ExchangeState, TypeOK,
           exchange' = [exchange EXCEPT ![s] = r],
           exchange[s].derived => r.derived /\ r.key = exchange[s].key
    PROVE  \A t \in Side : \A i \in 1..Len(channel[t]) :
               channel[t][i].secret # NoSecret =>
                   /\ exchange'[Peer[t]].derived
                   /\ channel[t][i].under = exchange'[Peer[t]].key
<1>1. /\ exchange'[s] = r /\ \A t \in Side : t # s => exchange'[t] = exchange[t]
  BY UpdateType
<1>2. \A t \in Side : Peer[t] \in Side
  BY SideAssumption
<1> QED
  BY <1>1, <1>2 DEF Sealed

\* A string that is sent is under the sender's key.
LEMMA SendingSealed ==
    ASSUME ExchangeInv, Sealed, NEW s \in Side, NEW r \in ExchangeState, NEW m \in Wire,
           exchange' = [exchange EXCEPT ![s] = r], Post(s, m),
           exchange[s].derived => r.derived /\ r.key = exchange[s].key,
           m.secret # NoSecret => r.derived /\ m.under = r.key
    PROVE  Sealed'
<1> SUFFICES ASSUME NEW t \in Side, NEW i \in 1..Len(channel'[t]), channel'[t][i].secret # NoSecret
             PROVE  exchange'[Peer[t]].derived /\ channel'[t][i].under = exchange'[Peer[t]].key
  BY DEF Sealed
<1>1. \A u \in Side : \A j \in 1..Len(channel[u]) :
          channel[u][j].secret # NoSecret =>
              /\ exchange'[Peer[u]].derived
              /\ channel[u][j].under = exchange'[Peer[u]].key
  BY KeptSealed DEF ExchangeInv
<1>2. /\ Len(channel'[Peer[s]]) = Len(channel[Peer[s]]) + 1
      /\ \A j \in 1..Len(channel[Peer[s]]) : channel'[Peer[s]][j] = channel[Peer[s]][j]
      /\ channel'[Peer[s]][Len(channel[Peer[s]]) + 1] = m
  BY PostType DEF ExchangeInv
<1>3. CASE t = Peer[s]
  <2>1. Peer[t] = s /\ exchange'[s] = r
    BY <1>3, SideAssumption, UpdateType DEF ExchangeInv
  <2>2. CASE i = Len(channel[t]) + 1
    BY <1>2, <1>3, <2>1, <2>2
  <2>3. CASE i # Len(channel[t]) + 1
    <3>1. channel[t] \in Seq(Wire) /\ i \in 1..(Len(channel[t]) + 1)
      BY <1>2, <1>3 DEF ExchangeInv, TypeOK
    <3>2. i \in 1..Len(channel[t])
      BY <2>3, <3>1
    <3>3. channel'[t][i] = channel[t][i]
      BY <1>2, <1>3, <3>2
    <3> QED
      BY <1>1, <3>2, <3>3
  <2> QED
    BY <2>2, <2>3
<1>4. CASE t # Peer[s]
  <2>1. channel'[t] = channel[t]
    BY <1>4 DEF Post, ExchangeInv, TypeOK
  <2> QED
    BY <1>1, <2>1
<1> QED
  BY <1>3, <1>4

\* A string that is taken leaves the others as they were.
LEMMA ReceivingSealed ==
    ASSUME ExchangeInv, Sealed, NEW s \in Side, NEW r \in ExchangeState, channel[s] # <<>>,
           exchange' = [exchange EXCEPT ![s] = r], channel' = [channel EXCEPT ![s] = Tail(@)],
           exchange[s].derived => r.derived /\ r.key = exchange[s].key
    PROVE  Sealed'
<1> SUFFICES ASSUME NEW t \in Side, NEW i \in 1..Len(channel'[t]), channel'[t][i].secret # NoSecret
             PROVE  exchange'[Peer[t]].derived /\ channel'[t][i].under = exchange'[Peer[t]].key
  BY DEF Sealed
<1>1. PICK j \in 1..Len(channel[t]) : channel'[t][i] = channel[t][j]
  BY HeadIsCarried DEF ExchangeInv, TypeOK
<1>2. \A u \in Side : \A k \in 1..Len(channel[u]) :
          channel[u][k].secret # NoSecret =>
              /\ exchange'[Peer[u]].derived
              /\ channel[u][k].under = exchange'[Peer[u]].key
  BY KeptSealed DEF ExchangeInv
<1> QED
  BY <1>1, <1>2

\* No step unseals a secret on its way, unless a side begins again.
LEMMA SealedStep ==
    ASSUME ExchangeInv, Sealed, ~Restart, [Next]_vars
    PROVE  Sealed'
<1>1. exchange \in [Side -> ExchangeState] /\ keys \in 0..MaxKeys
  BY DEF ExchangeInv, TypeOK, ExchangeState
<1>2. ASSUME NEW s \in Side, Begin(s)
      PROVE  Sealed'
  <2> DEFINE r == [generated |-> TRUE, pair |-> keys', derived |-> FALSE,
                   key |-> exchange[s].key, secret |-> NoSecret, sent |-> exchange[s].sent + 1]
  <2>1. /\ keys' \in 1..MaxKeys /\ ~exchange[s].derived
        /\ exchange' = [exchange EXCEPT ![s] = r] /\ Post(s, Plain(keys')) /\ exchange[s].sent < MaxSent
    BY <1>2, BoundAssumption DEF Begin, ExchangeInv, TypeOK
  <2>2. Plain(keys') \in Wire /\ Plain(keys').secret = NoSecret
    BY <2>1 DEF Plain, Wire, Key, NoKey
  <2>3. r \in ExchangeState
    BY <2>1, BoundAssumption DEF ExchangeInv, TypeOK, ExchangeState
  <2> HIDE DEF r
  <2> QED
    BY <2>1, <2>2, <2>3, SendingSealed
<1>3. ASSUME NEW s \in Side, NEW secret \in Secret \cup {NoSecret}, Send(s, secret)
      PROVE  Sealed'
  <2> DEFINE e == exchange[s]
             r == [generated |-> e.generated, pair |-> e.pair, derived |-> TRUE, key |-> e.key,
                   secret |-> e.secret, sent |-> e.sent + 1]
             m == IF secret = NoSecret THEN Plain(e.pair)
                  ELSE [public |-> e.pair, secret |-> secret, under |-> e.key]
  <2>1. /\ e.derived /\ e.sent < MaxSent
        /\ exchange' = [exchange EXCEPT ![s] = r] /\ Post(s, m)
    BY <1>3 DEF Send
  <2>2. e \in ExchangeState /\ e.generated /\ e.pair # 0
    BY <2>1 DEF ExchangeInv, TypeOK, ExchangeState, Generated
  <2>3. m \in Wire /\ (m.secret # NoSecret => m.under = e.key)
    BY <2>2 DEF Plain, Wire, Key, NoKey, ExchangeState
  <2>4. r \in ExchangeState /\ r.derived /\ r.key = e.key
    BY <2>1, <2>2, BoundAssumption DEF ExchangeState
  <2> HIDE DEF r, m
  <2> QED
    BY <2>1, <2>3, <2>4, SendingSealed
<1>4. ASSUME NEW s \in Side, Receive(s) \/ ReceiveInvalid(s)
      PROVE  Sealed'
  <2>1. /\ channel[s] # <<>> /\ channel' = [channel EXCEPT ![s] = Tail(@)]
    BY <1>4 DEF Receive, ReceiveInvalid
  <2>2. ExchangeInv'
    BY <1>4, ReceivePreserves, ReceiveInvalidPreserves
  <2>3. PICK r \in ExchangeState : r = exchange'[s]
    BY <2>2 DEF ExchangeInv, TypeOK, ExchangeState
  <2>4. /\ exchange[s].derived => r.derived /\ r.key = exchange[s].key
        /\ exchange' = [exchange EXCEPT ![s] = r]
    <3>1. CASE Receive(s)
      BY <1>1, <2>3, <3>1 DEF Receive
    <3>2. CASE ReceiveInvalid(s)
      BY <1>1, <2>3, <3>2 DEF ReceiveInvalid
    <3> QED
      BY <1>4, <3>1, <3>2
  <2> QED
    BY <2>1, <2>4, ReceivingSealed
<1>5. CASE UNCHANGED vars
  BY <1>5 DEF vars, Sealed
<1> QED
  BY <1>2, <1>3, <1>4, <1>5 DEF Next

\* The key that gcr_secret_exchange_receive decrypts with is the one that the
\* secret in the string is under.
LEMMA ReceivedUnderKey ==
    ASSUME ExchangeInv, Sealed, ~Restart, NEW s \in Side, channel[s] # <<>>,
           Head(channel[s]).secret # NoSecret
    PROVE  /\ exchange[s].generated
           /\ exchange[s].derived => Head(channel[s]).under = exchange[s].key
           /\ Head(channel[s]).under = Derived(exchange[s].pair, Head(channel[s]).public)
<1>1. Peer[s] \in Side /\ Peer[Peer[s]] = s
  BY SideAssumption
<1>2. /\ Head(channel[s]).public = exchange[Peer[s]].pair
      /\ exchange[Peer[s]].derived /\ Head(channel[s]).under = exchange[Peer[s]].key
  BY HeadIsCarried DEF ExchangeInv, Carried, Sealed
<1>3. exchange[s].sent > 0 /\ exchange[Peer[s]].key = {exchange[Peer[s]].pair, exchange[s].pair}
  BY <1>1, <1>2 DEF ExchangeInv, Agreed
<1>4. exchange[s].derived => exchange[s].key = {exchange[s].pair, exchange[Peer[s]].pair}
  BY <1>1 DEF ExchangeInv, Agreed
<1>5. exchange[s].generated
  BY <1>3 DEF ExchangeInv, Generated
<1> QED
  BY <1>2, <1>3, <1>4, <1>5 DEF Derived

\* Unless a side begins again, what gcr_secret_exchange_receive leaves for
\* gcr_secret_exchange_get_secret is what gcr_secret_exchange_send was given.
THEOREM SecretsArrive == Spec => SecretArrives
<1> DEFINE Arrives == ~Restart => \A s \in Side :
                          Receive(s) => exchange'[s].secret = Head(channel[s]).secret
<1>1. Init => (~Restart => Sealed)
  BY DEF Init, Sealed
<1>2. ExchangeInv /\ (~Restart => Sealed) /\ [Next]_vars => (~Restart => Sealed)'
  <2>1. ASSUME ExchangeInv, ~Restart => Sealed, [Next]_vars, ~Restart
        PROVE  Sealed'
    BY <2>1, SealedStep
  <2> QED
    BY <2>1
<1>3. ASSUME ExchangeInv, ~Restart => Sealed, ~Restart, NEW s \in Side, Receive(s)
      PROVE  exchange'[s].secret = Head(channel[s]).secret
  <2> DEFINE e == exchange[s]
             m == Head(channel[s])
             pair == IF ~e.generated THEN keys + 1 ELSE e.pair
             key == IF e.derived THEN e.key ELSE Derived(pair, m.public)
             r(x) == [generated |-> TRUE, pair |-> pair, derived |-> TRUE, key |-> key,
                      secret |-> x, sent |-> e.sent]
  <2>1. PICK x \in Decrypted(e, key, m) :
            channel[s] # <<>> /\ exchange' = [exchange EXCEPT ![s] = r(x)]
    BY <1>3 DEF Receive
  <2>2. exchange'[s].secret = x
    BY <1>3, <2>1 DEF ExchangeInv, TypeOK
  <2>3. m.secret # NoSecret => m.under = key
    BY <1>3, <2>1, ReceivedUnderKey
  <2>4. x = m.secret
    BY <2>1, <2>3 DEF Decrypted
  <2> QED
    BY <2>2, <2>4
<1>4. ExchangeInv /\ (~Restart => Sealed) /\ [Next]_vars => [Arrives]_vars
  BY <1>3
<1> QED
  BY <1>1, <1>2, <1>4, ExchangeInvInvariant, PTL DEF Spec, SecretArrives

-----------------------------------------------------------------------------
(* The helpers of ssh-add: one that exits with 0 has handed over the        *)
(* passphrase of its own question, for any number of helpers and any        *)
(* passwords, whatever the keyring, the user and the prompter do and        *)
(* whenever they do it.                                                     *)
(*                                                                         *)
(* The invariant follows an answer through its thread: what the interaction *)
(* has settled on is what was typed or found; what is written to a helper   *)
(* that is there is that answer or the mark of failure; a helper that is    *)
(* done has read all of it.                                                 *)

\* The service and its helpers, without the fairness that HelpersEnd needs.
HSpec == HInit /\ [][HNext]_hvars

\* At most one password.
Answer == {<<>>} \cup {<<p>> : p \in Passwords}
Reply == Answer \cup {<<"ff">>}

\* The exit code of a helper that has the passphrase.
Success == <<0>>

HelperState == [pc : {"none", "connected", "gone"}, out : Reply,
                exit : {<<>>, Success, <<-1>>, <<-2>>}]

ThreadState ==
    [pc : {"none", "read", "lookup", "opening", "prompt", "store", "write", "closed"},
     value : Answer, chosen : BOOLEAN, reply : Reply, open : BOOLEAN,
     typed : Answer, found : Answer]

Typed ==
    /\ keyring \in Answer
    /\ helper \in [Helper -> HelperState]
    /\ thread \in [Helper -> ThreadState]

\* Where a thread is says what it has.
ThreadWell(t) ==
    /\ t.pc \notin {"write", "closed"} => t.value = <<>> /\ t.found = <<>> /\ t.reply = <<>>
    /\ t.pc \in {"none", "read", "lookup", "opening", "prompt"} => t.typed = <<>>
    /\ t.pc = "store" => t.typed # <<>>
    /\ t.pc = "write" => t.reply = <<>>
    /\ t.value # <<>> => t.value = IF t.typed # <<>> THEN t.typed ELSE t.found

\* What a helper has read, against what its thread has written.
HelperWell(r, t) ==
    /\ r.pc = "none" => t.pc = "none"
    /\ r.pc # "gone" => r.exit = <<>>
    /\ r.pc = "connected" /\ t.pc = "closed" =>
          t.reply = IF t.value # <<>> THEN t.value ELSE <<"ff">>
    /\ r.exit = Success => /\ t.pc = "closed" /\ r.out # <<>> /\ r.out = t.value

Well == \A h \in Helper : ThreadWell(thread[h]) /\ HelperWell(helper[h], thread[h])

AskpassInv == Typed /\ Well

\* A step of one helper.
LEMMA HelperMoves ==
    ASSUME AskpassInv, NEW h \in Helper, NEW r \in HelperState, Helps(h, r),
           HelperWell(r, thread[h]), UNCHANGED <<keyring, thread>>
    PROVE  AskpassInv'
<1>1. /\ helper' \in [Helper -> HelperState] /\ helper'[h] = r
      /\ \A g \in Helper : g # h => helper'[g] = helper[g]
  BY DEF Helps, AskpassInv, Typed
<1>2. Typed'
  BY <1>1 DEF AskpassInv, Typed
<1>3. ASSUME NEW g \in Helper
      PROVE  ThreadWell(thread[g]) /\ HelperWell(helper'[g], thread[g])
  BY <1>1 DEF AskpassInv, Well
<1>4. Well'
  BY <1>3 DEF Well, ThreadWell, HelperWell
<1> QED
  BY <1>2, <1>4 DEF AskpassInv

\* A step of one thread.
LEMMA ThreadMoves ==
    ASSUME AskpassInv, NEW h \in Helper, NEW t \in ThreadState, Thread(h, t),
           ThreadWell(t), HelperWell(helper[h], t), keyring' \in Answer, UNCHANGED helper
    PROVE  AskpassInv'
<1>1. /\ thread' \in [Helper -> ThreadState] /\ thread'[h] = t
      /\ \A g \in Helper : g # h => thread'[g] = thread[g]
  BY DEF Thread, AskpassInv, Typed
<1>2. Typed'
  BY <1>1 DEF AskpassInv, Typed
<1>3. ASSUME NEW g \in Helper
      PROVE  ThreadWell(thread'[g]) /\ HelperWell(helper[g], thread'[g])
  BY <1>1 DEF AskpassInv, Well
<1>4. Well'
  BY <1>3 DEF Well, ThreadWell, HelperWell
<1> QED
  BY <1>2, <1>4 DEF AskpassInv

\* A helper that leaves with something else than 0 claims nothing.
LEMMA ExitWell ==
    ASSUME NEW r \in HelperState, NEW code \in {-1, -2}, NEW t, t.pc = "none" \/ r.pc # "none"
    PROVE  Exit(r, code) \in HelperState /\ HelperWell(Exit(r, code), t)
<1>1. /\ Exit(r, code) \in HelperState /\ Exit(r, code).pc = "gone"
      /\ Exit(r, code).exit = <<code>>
  BY DEF Exit, HelperState
<1>2. <<code>> # Success
  BY DEF Success
<1> QED
  BY <1>1, <1>2 DEF HelperWell

\* The steps of the helper's main.
LEMMA HelperSteps ==
    ASSUME AskpassInv, NEW h \in Helper,
           Connect(h) \/ ReadReply(h) \/ EndOfReply(h) \/ Reset(h) \/ HelperKilled(h)
    PROVE  AskpassInv'
<1>1. /\ helper[h] \in HelperState /\ thread[h] \in ThreadState
      /\ ThreadWell(thread[h]) /\ HelperWell(helper[h], thread[h])
  BY DEF AskpassInv, Typed, Well
<1>2. NoHelper \in HelperState /\ NoHelper.pc = "none"
  BY DEF NoHelper, HelperState, Reply, Answer
<1>3. CASE Connect(h)
  <2>1. helper[h].pc = "none" /\ thread[h].pc = "none" /\ UNCHANGED <<keyring, thread>>
    BY <1>1, <1>3 DEF Connect, HelperWell
  <2>2. CASE listening
    <3> DEFINE r == [NoHelper EXCEPT !.pc = "connected"]
    <3>1. r \in HelperState /\ r.pc = "connected" /\ r.exit = <<>> /\ Helps(h, r)
      BY <1>3, <2>2 DEF Connect, NoHelper, HelperState, Reply, Answer
    <3> HIDE DEF r
    <3>2. HelperWell(r, thread[h])
      BY <2>1, <3>1 DEF HelperWell, Success
    <3> QED
      BY <2>1, <3>1, <3>2, HelperMoves
  <2>3. CASE ~listening
    <3>1. Helps(h, Exit(NoHelper, -1))
      BY <1>3, <2>3 DEF Connect
    <3> QED
      BY <1>2, <2>1, <3>1, ExitWell, HelperMoves
  <2> QED
    BY <2>2, <2>3
<1>4. CASE ReadReply(h)
  <2> DEFINE r == [helper[h] EXCEPT !.out = thread[h].reply]
  <2>1. /\ r \in HelperState /\ r.pc = "connected" /\ r.exit = helper[h].exit /\ Helps(h, r)
        /\ helper[h].pc = "connected" /\ UNCHANGED <<keyring, thread>>
    BY <1>1, <1>4 DEF ReadReply, HelperState, ThreadState
  <2> HIDE DEF r
  <2>2. r.exit = <<>> /\ r.exit # Success
    <3>1. helper[h].exit = <<>>
      BY <1>1, <2>1 DEF HelperWell
    <3>2. <<>> # Success
      BY DEF Success
    <3> QED
      BY <2>1, <3>1, <3>2
  <2>3. HelperWell(r, thread[h])
    BY <1>1, <2>1, <2>2 DEF HelperWell
  <2> QED
    BY <2>1, <2>3, HelperMoves
<1>5. CASE EndOfReply(h)
  <2>1. /\ helper[h].pc = "connected" /\ thread[h].pc = "closed"
        /\ thread[h].reply = helper[h].out /\ UNCHANGED <<keyring, thread>>
    BY <1>5 DEF EndOfReply
  <2>2. CASE helper[h].out = <<"ff">>
    <3>1. Helps(h, Exit(helper[h], -1))
      BY <1>5, <2>2 DEF EndOfReply
    <3> QED
      BY <1>1, <2>1, <3>1, ExitWell, HelperMoves
  <2>3. CASE helper[h].out # <<"ff">>
    <3> DEFINE r == Exit(helper[h], 0)
    <3>1. /\ r \in HelperState /\ r.pc = "gone" /\ r.out = helper[h].out /\ Helps(h, r)
      BY <1>1, <1>5, <2>3 DEF EndOfReply, HelperState, Exit, Success
    <3> HIDE DEF r
    <3>2. thread[h].value # <<>> /\ helper[h].out = thread[h].value
      BY <1>1, <2>1, <2>3 DEF HelperWell
    <3>3. HelperWell(r, thread[h])
      BY <2>1, <3>1, <3>2 DEF HelperWell
    <3> QED
      BY <2>1, <3>1, <3>3, HelperMoves
  <2> QED
    BY <2>2, <2>3
<1>6. CASE Reset(h)
  BY <1>1, <1>6, ExitWell, HelperMoves DEF Reset
<1>7. CASE HelperKilled(h)
  BY <1>1, <1>7, ExitWell, HelperMoves DEF HelperKilled
<1> QED
  BY <1>3, <1>4, <1>5, <1>6, <1>7

\* The interaction settles on a password, or on none.
LEMMA SettledWell ==
    ASSUME NEW t \in ThreadState, ThreadWell(t), t.pc \in {"opening", "prompt", "store"},
           NEW r \in HelperState, HelperWell(r, t)
    PROVE  /\ Refused(t) \in ThreadState /\ ThreadWell(Refused(t)) /\ HelperWell(r, Refused(t))
           /\ \A p \in Passwords : t.typed = <<p>> =>
                 /\ Handled(t, p) \in ThreadState /\ ThreadWell(Handled(t, p))
                 /\ HelperWell(r, Handled(t, p))
<1>1. ASSUME NEW v \in Answer, v # <<>> => v = t.typed,
             NEW u, u = [t EXCEPT !.pc = "write", !.value = v]
      PROVE  u \in ThreadState /\ ThreadWell(u) /\ HelperWell(r, u)
  <2>1. /\ u \in ThreadState /\ u.pc = "write" /\ u.value = v
        /\ u.typed = t.typed /\ u.found = t.found /\ u.reply = t.reply
    BY <1>1 DEF ThreadState
  <2>2. ThreadWell(u)
    BY <1>1, <2>1 DEF ThreadWell
  <2>3. HelperWell(r, u)
    BY <2>1 DEF HelperWell
  <2> QED
    BY <2>1, <2>2, <2>3
<1>2. Refused(t) \in ThreadState /\ ThreadWell(Refused(t)) /\ HelperWell(r, Refused(t))
  BY <1>1 DEF Refused, Answer
<1>3. ASSUME NEW p \in Passwords, t.typed = <<p>>
      PROVE  /\ Handled(t, p) \in ThreadState /\ ThreadWell(Handled(t, p))
             /\ HelperWell(r, Handled(t, p))
  BY <1>1, <1>3 DEF Handled, Answer
<1> QED
  BY <1>2, <1>3

\* The steps of askpass_thread and of the interaction.
LEMMA ThreadSteps ==
    ASSUME AskpassInv, NEW h \in Helper,
           \/ AskpassAccept(h) \/ AskPassword(h) \/ PromptCancelled(h) \/ WriteReply(h)
           \/ \E fails \in BOOLEAN : LookupReady(h, fails)
           \/ \E opens \in BOOLEAN : PromptOpen(h, opens)
           \/ \E p \in Passwords, chosen \in BOOLEAN : PromptPassword(h, p, chosen)
           \/ \E stored, ok \in BOOLEAN : StoreReady(h, stored, ok)
    PROVE  AskpassInv'
<1>1. /\ helper[h] \in HelperState /\ thread[h] \in ThreadState /\ keyring \in Answer
      /\ ThreadWell(thread[h]) /\ HelperWell(helper[h], thread[h])
  BY DEF AskpassInv, Typed, Well
<1>2. ASSUME NEW t \in ThreadState, Thread(h, t), t.pc \in {"read", "lookup", "opening", "prompt"},
             t.value = <<>>, t.found = <<>>, t.reply = <<>>, t.typed = <<>>,
             helper[h].pc # "none", helper[h].exit # Success, UNCHANGED <<keyring, helper>>
      PROVE  AskpassInv'
  <2>1. ThreadWell(t) /\ HelperWell(helper[h], t)
    BY <1>1, <1>2 DEF ThreadWell, HelperWell
  <2> QED
    BY <1>1, <1>2, <2>1, ThreadMoves
<1>3. ASSUME thread[h].pc \notin {"none", "closed"}
      PROVE  helper[h].pc # "none" /\ helper[h].exit # Success
  BY <1>1, <1>3 DEF HelperWell
<1>4. CASE AskpassAccept(h)
  <2> DEFINE t == [NoThread EXCEPT !.pc = "read", !.open = TRUE]
  <2>1. /\ t \in ThreadState /\ t.pc = "read" /\ t.value = <<>> /\ t.found = <<>>
        /\ t.reply = <<>> /\ t.typed = <<>>
    BY DEF NoThread, ThreadState, Reply, Answer
  <2>2. /\ Thread(h, t) /\ helper[h].pc # "none" /\ thread[h].pc = "none"
        /\ UNCHANGED <<keyring, helper>>
    BY <1>4 DEF AskpassAccept
  <2>3. helper[h].exit # Success
    BY <1>1, <2>2 DEF HelperWell
  <2> HIDE DEF t
  <2> QED
    BY <1>2, <2>1, <2>2, <2>3
<1>5. ASSUME NEW pc \in {"lookup", "opening", "prompt"},
             thread[h].pc \in {"read", "lookup", "opening"},
             Thread(h, [thread[h] EXCEPT !.pc = pc]), UNCHANGED <<keyring, helper>>
      PROVE  AskpassInv'
  <2> DEFINE t == [thread[h] EXCEPT !.pc = pc]
  <2>1. /\ t \in ThreadState /\ t.pc = pc /\ t.value = thread[h].value
        /\ t.found = thread[h].found /\ t.reply = thread[h].reply /\ t.typed = thread[h].typed
    BY <1>1 DEF ThreadState
  <2>2. /\ thread[h].value = <<>> /\ thread[h].found = <<>> /\ thread[h].reply = <<>>
        /\ thread[h].typed = <<>>
    BY <1>1, <1>5 DEF ThreadWell
  <2>3. helper[h].pc # "none" /\ helper[h].exit # Success /\ Thread(h, t)
    BY <1>3, <1>5
  <2> HIDE DEF t
  <2> QED
    BY <1>2, <1>5, <2>1, <2>2, <2>3
<1>6. CASE AskPassword(h)
  BY <1>5, <1>6 DEF AskPassword
<1>7. CASE PromptCancelled(h)
  BY <1>1, <1>7, SettledWell, ThreadMoves DEF PromptCancelled
<1>8. CASE WriteReply(h)
  <2> DEFINE v == IF helper[h].pc = "gone" THEN <<>>
                  ELSE IF thread[h].value # <<>> THEN <<thread[h].value[1]>> ELSE <<"ff">>
             t == [thread[h] EXCEPT !.pc = "closed", !.open = FALSE, !.reply = v]
  <2>1. Thread(h, t) /\ thread[h].pc = "write" /\ UNCHANGED <<keyring, helper>>
    BY <1>8 DEF WriteReply
  <2>2. thread[h].value \in Answer
    BY <1>1 DEF ThreadState
  <2>3. thread[h].value # <<>> => <<thread[h].value[1]>> = thread[h].value
    BY <2>2 DEF Answer
  <2>4. v \in Reply
    BY <2>2, <2>3 DEF Reply, Answer
  <2>5. helper[h].pc # "gone" => v = IF thread[h].value # <<>> THEN thread[h].value ELSE <<"ff">>
    BY <2>3
  <2> HIDE DEF v
  <2>6. /\ t \in ThreadState /\ t.pc = "closed" /\ t.reply = v /\ t.value = thread[h].value
        /\ t.typed = thread[h].typed /\ t.found = thread[h].found
    BY <1>1, <2>4 DEF ThreadState
  <2> HIDE DEF t
  <2>7. ThreadWell(t)
    BY <1>1, <2>1, <2>6 DEF ThreadWell
  <2>8. HelperWell(helper[h], t)
    BY <1>1, <1>3, <2>1, <2>5, <2>6 DEF HelperWell
  <2> QED
    BY <1>1, <2>1, <2>6, <2>7, <2>8, ThreadMoves
<1>9. ASSUME NEW fails \in BOOLEAN, LookupReady(h, fails)
      PROVE  AskpassInv'
  <2>1. CASE keyring # <<>> /\ ~fails /\ ~cancelled
    <3> DEFINE t == Handled([thread[h] EXCEPT !.found = keyring], keyring[1])
    <3>1. Thread(h, t) /\ thread[h].pc = "lookup" /\ UNCHANGED <<keyring, helper>>
      BY <1>9, <2>1 DEF LookupReady
    <3>2. <<keyring[1]>> = keyring
      BY <1>1, <2>1 DEF Answer
    <3>3. /\ t \in ThreadState /\ t.pc = "write" /\ t.value = keyring /\ t.found = keyring
          /\ t.typed = thread[h].typed /\ t.reply = thread[h].reply
      BY <1>1, <3>2 DEF Handled, ThreadState
    <3> HIDE DEF t
    <3>4. ThreadWell(t)
      BY <1>1, <3>1, <3>3 DEF ThreadWell
    <3>5. HelperWell(helper[h], t)
      BY <1>1, <1>3, <3>1, <3>3 DEF HelperWell
    <3> QED
      BY <1>1, <3>1, <3>3, <3>4, <3>5, ThreadMoves
  <2>2. CASE ~(keyring # <<>> /\ ~fails /\ ~cancelled)
    BY <1>5, <1>9, <2>2 DEF LookupReady
  <2> QED
    BY <2>1, <2>2
<1>10. ASSUME NEW opens \in BOOLEAN, PromptOpen(h, opens)
       PROVE  AskpassInv'
  <2>1. CASE opens
    BY <1>5, <1>10, <2>1 DEF PromptOpen
  <2>2. CASE ~opens
    BY <1>1, <1>10, <2>2, SettledWell, ThreadMoves DEF PromptOpen
  <2> QED
    BY <2>1, <2>2
<1>11. ASSUME NEW p \in Passwords, NEW chosen \in BOOLEAN, PromptPassword(h, p, chosen)
       PROVE  AskpassInv'
  <2> DEFINE u == [thread[h] EXCEPT !.typed = <<p>>, !.chosen = chosen]
             t == IF chosen THEN [u EXCEPT !.pc = "store"] ELSE Handled(u, p)
  <2>1. Thread(h, t) /\ thread[h].pc = "prompt" /\ UNCHANGED <<keyring, helper>>
    BY <1>11 DEF PromptPassword
  <2>2. <<p>> \in Answer /\ <<p>> # <<>>
    BY DEF Answer
  <2>3. /\ t \in ThreadState /\ t.typed = <<p>> /\ t.found = thread[h].found
        /\ t.reply = thread[h].reply /\ t.pc = (IF chosen THEN "store" ELSE "write")
        /\ t.value = IF chosen THEN thread[h].value ELSE <<p>>
    BY <1>1, <2>2 DEF Handled, ThreadState
  <2> HIDE DEF t
  <2>4. ThreadWell(t)
    BY <1>1, <2>1, <2>2, <2>3 DEF ThreadWell
  <2>5. HelperWell(helper[h], t)
    BY <1>1, <1>3, <2>1, <2>3 DEF HelperWell
  <2> QED
    BY <1>1, <2>1, <2>3, <2>4, <2>5, ThreadMoves
<1>12. ASSUME NEW stored \in BOOLEAN, NEW ok \in BOOLEAN, StoreReady(h, stored, ok)
       PROVE  AskpassInv'
  <2>1. thread[h].pc = "store" /\ UNCHANGED helper /\ thread[h].typed \in Answer
    BY <1>1, <1>12 DEF StoreReady, ThreadState
  <2>2. PICK p \in Passwords : thread[h].typed = <<p>>
    BY <1>1, <2>1 DEF ThreadWell, Answer
  <2>3. thread[h].typed[1] = p
    BY <2>2
  <2>4. keyring' \in Answer
    BY <1>1, <1>12, <2>1 DEF StoreReady
  <2>5. Thread(h, Handled(thread[h], p)) \/ Thread(h, Refused(thread[h]))
    BY <1>12, <2>3 DEF StoreReady
  <2> QED
    BY <1>1, <2>1, <2>2, <2>4, <2>5, SettledWell, ThreadMoves
<1> QED
  BY <1>4, <1>6, <1>7, <1>8, <1>9, <1>10, <1>11, <1>12

\* No helper that gcr4-ssh-askpass ends with success has printed anything but the
\* passphrase that was typed for its question, or found for it in the keyring.
THEOREM PassphrasesAreRight == HSpec => []PassphraseRight
<1>1. HInit => AskpassInv
  <2> SUFFICES ASSUME HInit
               PROVE  AskpassInv
    OBVIOUS
  <2>1. NoHelper \in HelperState /\ NoThread \in ThreadState
    BY DEF NoHelper, NoThread, HelperState, ThreadState, Reply, Answer
  <2>2. Typed
    BY <2>1 DEF HInit, Typed, Answer
  <2>3. ThreadWell(NoThread) /\ HelperWell(NoHelper, NoThread)
    BY DEF ThreadWell, HelperWell, NoHelper, NoThread, Success
  <2>4. Well
    BY <2>3 DEF HInit, Well
  <2> QED
    BY <2>2, <2>4 DEF AskpassInv
<1>2. AskpassInv /\ [HNext]_hvars => AskpassInv'
  <2> SUFFICES ASSUME AskpassInv, [HNext]_hvars
               PROVE  AskpassInv'
    OBVIOUS
  <2>1. CASE Dispose \/ UNCHANGED hvars
    <3>1. UNCHANGED <<keyring, helper, thread>>
      BY <2>1 DEF Dispose, hvars
    <3> QED
      BY <3>1 DEF AskpassInv, Typed, Well
  <2>2. ASSUME NEW h \in Helper,
               Connect(h) \/ ReadReply(h) \/ EndOfReply(h) \/ Reset(h) \/ HelperKilled(h)
        PROVE  AskpassInv'
    BY <2>2, HelperSteps
  <2>3. ASSUME NEW h \in Helper,
               \/ AskpassAccept(h) \/ AskPassword(h) \/ PromptCancelled(h) \/ WriteReply(h)
               \/ \E fails \in BOOLEAN : LookupReady(h, fails)
               \/ \E opens \in BOOLEAN : PromptOpen(h, opens)
               \/ \E p \in Passwords, chosen \in BOOLEAN : PromptPassword(h, p, chosen)
               \/ \E stored, ok \in BOOLEAN : StoreReady(h, stored, ok)
        PROVE  AskpassInv'
    BY <2>3, ThreadSteps
  <2> QED
    BY <2>1, <2>2, <2>3 DEF HNext
<1>3. AskpassInv => PassphraseRight
  BY DEF AskpassInv, Well, ThreadWell, HelperWell, PassphraseRight, Success
<1> QED
  BY <1>1, <1>2, <1>3, PTL DEF HSpec
=============================================================================
