-------------------------------- MODULE Trust --------------------------------
(***************************************************************************)
(* Trust assertions: gcr_trust_is_certificate_pinned, _add_pinned_,         *)
(* _remove_pinned_, _is_certificate_anchored and _is_certificate_distrusted *)
(* of several threads at once, and what they need of gcr-library.c: the     *)
(* modules, initialized by whoever comes first, and the URIs of the tokens  *)
(* to look in and to store to.  An enumerator skips a token that fails      *)
(* without saying so (GckEnumerator).                                       *)
(***************************************************************************)
EXTENDS Integers, Sequences, SequencesExt, FiniteSets

CONSTANTS
    Op,           \* calls: numbers, in the order they are made
    Peer,         \* whom a certificate may be pinned for
    Slot,         \* tokens, each of a registered module of its own
    ConfStore,    \* the x-trust-store option: a token
    ConfLookup,   \* the x-trust-lookup options: tokens, in order
    FirstPeer,    \* one of them
    MaxObjects    \* bound: assertions made

VARIABLES
    modules,      \* all_modules
    initialized,  \* initialized_modules
    storeUri,     \* <<>> or the token's
    lookupUris,   \* <<>> or <<the tokens'>>
    urisKnown,    \* initialized_uris
    objects,      \* the assertions on the tokens: [id, slot, type, peer, token]
    made,         \* how many objects were ever made
    op,           \* the calls
    saw,          \* op -> whether what it asks for was there: all answers over
                  \* the time it looked (history)
    kept,         \* peer -> its pin was added, and not removed since (history)
    gone          \* peer -> tokens its pins were removed from, and not added
                  \* since (history)

tvars == <<modules, initialized, storeUri, lookupUris, urisKnown, objects, made, op, saw, kept, gone>>

NoOp == [pc |-> "none", kind |-> "pinned", peer |-> "none", loaded |-> <<>>, slots |-> <<>>, todo |-> <<>>,
         found |-> <<>>, skipped |-> FALSE, alone |-> TRUE, answer |-> "none"]

\* Tokens may hold assertions from before: a pin that is not a token object too.
TInit ==
    /\ modules = <<>> /\ initialized = FALSE
    /\ storeUri = <<>> /\ lookupUris = <<>> /\ urisKnown = FALSE
    /\ objects \in SUBSET {[id |-> 1, slot |-> s, type |-> "pin", peer |-> p, token |-> t] :
                             s \in Slot, p \in {FirstPeer}, t \in BOOLEAN}
    /\ Cardinality(objects) =< 1
    /\ made = 1
    /\ op = [o \in Op |-> NoOp]
    /\ saw = [o \in Op |-> {}]
    /\ kept = [p \in Peer |-> FALSE]
    /\ gone = [p \in Peer |-> {}]

-----------------------------------------------------------------------------
(* What is searched for. *)

\* prepare_trust_attrs and prepare_is_certificate_pinned; also what
\* prepare_remove_pinned_certificate wants: a pin is for a peer.
SearchPin(p, x) == x.type = "pin" /\ x.peer = p

\* prepare_add_pinned_certificate: the search wants a token object.
SearchTokenPin(p, x) == SearchPin(p, x) /\ x.token

\* The attributes each call searches for; prepare_is_certificate_anchored,
\* prepare_is_certificate_distrusted.
Search(o, x) ==
    CASE op[o].kind \in {"pinned", "remove"} -> SearchPin(op[o].peer, x)
      [] op[o].kind = "add" -> SearchTokenPin(op[o].peer, x)
      [] op[o].kind = "anchored" -> x.type = "anchor"
      [] OTHER -> x.type = "distrust"

Here(o, s) == {x \in objects : x.slot = s /\ Search(o, x)}

\* The calls that ask, and are looking.
Looks(r) == r.pc = "search" /\ r.kind \notin {"add", "remove"}

\* History: what could be seen while a call looks.
Watch ==
    saw' = [o \in Op |->
              IF Looks(op'[o])
              THEN saw[o] \cup {\E x \in objects' : x.slot \in ToSet(op'[o].slots) /\ Search(o, x)'}
              ELSE saw[o]]

Steps(o, r) == op' = [op EXCEPT ![o] = r]
Ended(r, answer) == [r EXCEPT !.pc = "done", !.answer = answer, !.todo = <<>>, !.found = <<>>]
Ends(o, answer) == Steps(o, Ended(op[o], answer))
Library == <<modules, initialized, storeUri, lookupUris, urisKnown>>
World == <<objects, made>>
Truth == <<kept, gone>>

-----------------------------------------------------------------------------
(* A call begins: a pin of the same peer that is being added or removed at    *)
(* the same time is history's to know.                                        *)

Rivals(o, p) == {q \in Op \ {o} : op[q].pc \notin {"none", "done"} /\ op[q].peer = p
                                     /\ op[q].kind \in {"add", "remove"}}

Start(o, kind, p) ==
    /\ op[o].pc = "none" /\ \A q \in Op : q < o => op[q].pc # "none"
    /\ op' = [q \in Op |->
                IF q = o THEN [NoOp EXCEPT !.pc = "initialize", !.kind = kind, !.peer = p, !.alone = Rivals(o, p) = {}]
                ELSE IF q \in Rivals(o, p) /\ kind \in {"add", "remove"} THEN [op[q] EXCEPT !.alone = FALSE]
                ELSE op[q]]
    /\ kept' = IF kind = "remove" THEN [kept EXCEPT ![p] = FALSE] ELSE kept
    /\ gone' = IF kind = "add" THEN [gone EXCEPT ![p] = {}] ELSE gone
    /\ UNCHANGED <<Library, World>>

\* The five calls, at once, or in a thread of their own: gcr_trust_..., the
\* function with _async, its thread and _finish.
IsCertificatePinned(o, p) == Start(o, "pinned", p)
AddPinnedCertificate(o, p) == Start(o, "add", p)
RemovePinnedCertificate(o, p) == Start(o, "remove", p)
IsCertificateAnchored(o) == Start(o, "anchored", FirstPeer)
IsCertificateDistrusted(o) == Start(o, "distrusted", FirstPeer)

-----------------------------------------------------------------------------
(* gcr-library.c *)

\* gcr_pkcs11_initialize and gcr_pkcs11_initialize_async: nothing to do, failed
\* or cancelled, or the modules are there; their list is not yet everybody's.
Initialize(o, ok) ==
    /\ op[o].pc = "initialize"
    /\ IF initialized THEN ok /\ Steps(o, [op[o] EXCEPT !.pc = "slots"])
       ELSE IF ok THEN Steps(o, [op[o] EXCEPT !.pc = "adopt", !.loaded = SetToSeq(Slot)])
       ELSE Ends(o, "error")
    /\ UNCHANGED <<Library, World, Truth>>

\* Mutant: the modules are added whoever came first.
AdoptAgain(o) ==
    /\ op[o].pc = "adopt"
    /\ modules' = modules \o op[o].loaded
    /\ initialized' = TRUE
    /\ Steps(o, [op[o] EXCEPT !.pc = "slots", !.loaded = <<>>])
    /\ UNCHANGED <<storeUri, lookupUris, urisKnown, World, Truth>>

\* Under the lock: the second to come lets its list go.  on_initialize_registered.
Adopt(o) ==
    /\ op[o].pc = "adopt"
    /\ modules' = IF initialized THEN modules ELSE modules \o op[o].loaded
    /\ initialized' = TRUE
    /\ Steps(o, [op[o] EXCEPT !.pc = "slots", !.loaded = <<>>])
    /\ UNCHANGED <<storeUri, lookupUris, urisKnown, World, Truth>>

\* gcr_pkcs11_set_modules.
SetModules(ms) ==
    /\ \A o \in Op : op[o].pc \in {"none", "initialize", "adopt"}
    /\ modules' = ms /\ initialized' = TRUE
    /\ UNCHANGED <<storeUri, lookupUris, urisKnown, World, op, Truth>>

\* gcr_pkcs11_set_trust_store_uri: the lookup URIs count as known from then on.
SetStoreUri(s) ==
    /\ \A o \in Op : op[o].pc = "none"
    /\ storeUri' = <<s>> /\ urisKnown' = TRUE
    /\ UNCHANGED <<modules, initialized, lookupUris, World, op, Truth>>

\* gcr_pkcs11_set_trust_lookup_uris.
SetLookupUris(ss) ==
    /\ \A o \in Op : op[o].pc = "none"
    /\ lookupUris' = <<ss>> /\ urisKnown' = TRUE
    /\ UNCHANGED <<modules, initialized, storeUri, World, op, Truth>>

\* initialize_uris: from the configuration, once the modules are there.
KnowUris ==
    /\ storeUri' = IF urisKnown THEN storeUri ELSE <<ConfStore>>
    /\ lookupUris' = IF urisKnown THEN lookupUris ELSE <<ConfLookup>>
    /\ urisKnown' = TRUE

\* gcr_pkcs11_get_trust_lookup_slots: none when there are no URIs.
LookupSlots(o) ==
    /\ op[o].pc = "slots"
    /\ KnowUris
    /\ LET slots == IF lookupUris' = <<>> THEN <<>>
                    ELSE FlattenSeq([i \in DOMAIN lookupUris'[1] |->
                            SelectSeq(modules, LAMBDA m : m = lookupUris'[1][i])])
       IN  Steps(o, [op[o] EXCEPT !.pc = "search", !.slots = slots, !.todo = slots])
    /\ UNCHANGED <<modules, initialized, World, Truth>>

-----------------------------------------------------------------------------
(* gcr-trust.c *)

\* perform_is_certificate_pinned and the other perform functions: the enumerator
\* goes to the next token, or skips it.  Who asks stops at the
\* first object, who removes goes on.
SearchSlot(o, skips) ==
    /\ op[o].pc = "search" /\ op[o].todo # <<>>
    /\ LET s == Head(op[o].todo)
           here == IF skips THEN <<>> ELSE SetToSeq(Here(o, s))
           r == [op[o] EXCEPT !.todo = Tail(@), !.found = @ \o here, !.skipped = @ \/ skips]
       IN  IF op[o].kind = "remove" \/ here = <<>> THEN Steps(o, r)
           ELSE Steps(o, Ended(r, "yes"))
    /\ UNCHANGED <<Library, World, Truth>>

\* Nothing found: perform_is_certificate_anchored and _distrusted end like _pinned; or
\* what is to be added or destroyed comes next.
Searched(o) ==
    /\ op[o].pc = "search" /\ op[o].todo = <<>>
    /\ CASE op[o].kind = "add" -> Steps(o, [op[o] EXCEPT !.pc = "store"])
         [] op[o].kind = "remove" -> Steps(o, [op[o] EXCEPT !.pc = "destroy"])
         [] OTHER -> Ends(o, "no")
    /\ UNCHANGED <<Library, World, Truth>>

\* The enumerator was cancelled.
Cancelled(o) ==
    /\ op[o].pc \in {"search", "store", "destroy"}
    /\ Ends(o, "error")
    /\ UNCHANGED <<Library, World, Truth>>

\* perform_add_pinned_certificate: gcr_pkcs11_get_trust_store_slot, a session and
\* the object; any may fail.
StorePin(o, ok) ==
    /\ op[o].pc = "store"
    /\ IF ok /\ storeUri # <<>> /\ storeUri[1] \in ToSet(modules)
       THEN /\ made < MaxObjects
            /\ made' = made + 1
            /\ objects' = objects \cup {[id |-> made + 1, slot |-> storeUri[1], type |-> "pin",
                                         peer |-> op[o].peer, token |-> TRUE]}
            /\ kept' = [kept EXCEPT ![op[o].peer] = op[o].alone]
            /\ Ends(o, "yes")
       ELSE Ends(o, "error") /\ UNCHANGED <<World, kept>>
    /\ UNCHANGED <<Library, gone>>

\* perform_remove_pinned_certificate: one that is gone already does no harm.
DestroyPin(o, ok) ==
    /\ op[o].pc = "destroy" /\ op[o].found # <<>>
    /\ LET x == Head(op[o].found) IN
         IF x \in objects /\ ~ok THEN Ends(o, "error") /\ UNCHANGED objects
         ELSE /\ objects' = objects \ {x}
              /\ Steps(o, [op[o] EXCEPT !.found = Tail(@)])
    /\ UNCHANGED <<Library, made, Truth>>

Destroyed(o) ==
    /\ op[o].pc = "destroy" /\ op[o].found = <<>>
    /\ Ends(o, "yes")
    /\ gone' = IF op[o].alone /\ ~op[o].skipped THEN [gone EXCEPT ![op[o].peer] = ToSet(op[o].slots)] ELSE gone
    /\ UNCHANGED <<Library, World, kept>>

\* Somebody else's program adds or removes an anchor or a distrusted certificate.
OthersAssert(type) ==
    LET x == [id |-> 0, slot |-> Last(ConfLookup), type |-> type, peer |-> "none", token |-> TRUE] IN
    /\ \E o \in Op : op[o].pc = "search" /\ op[o].kind \in {"anchored", "distrusted"}
    /\ objects' = IF x \in objects THEN objects \ {x} ELSE objects \cup {x}
    /\ UNCHANGED <<Library, made, op, Truth>>

OpStep(o) ==
    \/ Adopt(o) \/ LookupSlots(o) \/ Searched(o) \/ Destroyed(o)
    \/ \E b \in BOOLEAN : Initialize(o, b) \/ SearchSlot(o, b) \/ StorePin(o, b) \/ DestroyPin(o, b)

TNext ==
    /\ \/ \E o \in Op : OpStep(o) \/ Cancelled(o)
       \/ \E o \in Op, p \in Peer :
            IsCertificatePinned(o, p) \/ AddPinnedCertificate(o, p) \/ RemovePinnedCertificate(o, p)
       \/ \E o \in Op : IsCertificateAnchored(o) \/ IsCertificateDistrusted(o)
       \/ SetModules(SetToSeq(Slot))
       \/ SetStoreUri(Last(ConfLookup))
       \/ SetLookupUris(ConfLookup)
       \/ \E type \in {"anchor", "distrust"} : OthersAssert(type)
    /\ Watch

-----------------------------------------------------------------------------
\* A call that says "yes" has seen what it was asked for, at some time while it
\* looked, or made it itself; one that says "no" and skipped no token found it
\* missing at some time; and each token is looked in once, however many threads
\* initialized the modules.
TrustAnswers ==
    \A o \in Op :
      /\ IsInjective(op[o].slots)
      /\ (op[o].answer = "yes" /\ op[o].kind \notin {"add", "remove"}) => TRUE \in saw[o]
      /\ (op[o].answer = "no" /\ ~op[o].skipped /\ op[o].slots # <<>>) => FALSE \in saw[o]

\* A pin that was added stays until its own removal is asked for, whatever else
\* is added and removed at the same time; and after a removal that nothing
\* disturbed no pin for the peer is left on any token that was looked in, however
\* many there were.
PinsKept ==
    \A p \in Peer :
      /\ kept[p] => \E x \in objects : x.type = "pin" /\ x.peer = p /\ x.token
      /\ gone[p] # {} => \A x \in objects : x.type = "pin" /\ x.slot \in gone[p] => x.peer # p
=============================================================================
