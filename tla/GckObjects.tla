------------------------------ MODULE GckObjects ------------------------------
(***************************************************************************)
(* The operations of GckSession and GckObject on a token's objects,         *)
(* src/gck/gck-session.c and src/gck/gck-object.c, and the attributes kept  *)
(* with an object, src/gck/gck-object-cache.c, on the token of              *)
(* src/gck/gck-mock.c.  Every call has a session and a thread of its own;   *)
(* what a value needs is asked first and the value after that, and another  *)
(* call may change the object in between.                                   *)
(***************************************************************************)
EXTENDS GckMock

CONSTANTS
    Call,        \* the calls in progress at a time: 1 and 2
    Objects,     \* the objects on the token at first
    Wanted,      \* the sequences of attribute types that are asked for
    Template,    \* the attributes that objects are made or searched with
    Change,      \* the attributes that objects are given
    Pin,         \* the PINs that are tried, one of which is the token's
    MaxId,       \* bound: the handles that the token gives out
    MaxCalls     \* bound: the calls that are made

VARIABLES
    tok,         \* the token
    call,        \* the calls
    cache,       \* the attributes kept with each object
    seen,        \* history: the values that the object of a call has had while it ran
    calls        \* history: how many calls were made

vars == <<tok, call, cache, seen, calls>>

NoCall == [pc |-> "idle", op |-> "none", obj |-> 0, want |-> <<>>, attrs |-> <<>>,
           part |-> <<>>, rv |-> "ok", out |-> <<>>, async |-> FALSE]

SessionOf(c) == 100 + c

Init ==
    /\ tok = LET t == C_Initialize(Objects, CHOOSE p \in Pin : TRUE)
             IN  C_OpenSession(C_OpenSession(t, TRUE).t, FALSE).t
    /\ call = [c \in Call |-> NoCall]
    /\ cache = [o \in DOMAIN Objects |-> <<>>]
    /\ seen = [c \in Call |-> {}]
    /\ calls = 0

\* The values that an object has at the moment.
ValuesOf(t, h, o) ==
    IF ~Exists(t, h, o) THEN {}
    ELSE LET attrs == LookupObject(t, h, o)
         IN  {<<ty, Find(attrs, ty)[1].value>> : ty \in Types(attrs)}

Observe ==
    seen' = [c \in Call |-> IF call'[c].pc = "idle" THEN {}
                            ELSE seen[c] \cup ValuesOf(tok', SessionOf(c), call'[c].obj)]

\* A PKCS#11 function has returned r to the call, which goes on at label.
Came(c, r, label, part, out) ==
    /\ tok' = r.t
    /\ call' = [call EXCEPT ![c].pc = IF r.rv = "ok" THEN label ELSE "done",
                            ![c].rv = r.rv, ![c].part = part, ![c].out = out]
    /\ UNCHANGED <<cache, calls>>

Ready(c, op, label) == call[c].op = op /\ call[c].pc = label

\* _gck_call_sync or _gck_call_async_prep and _gck_call_async_ready_go.
Begin(c, op, o, want, attrs) ==
    /\ call[c].pc = "idle" /\ calls < MaxCalls
    /\ calls' = calls + 1
    /\ call' = [call EXCEPT ![c] = [NoCall EXCEPT !.pc = "perform", !.op = op, !.obj = o,
                                                  !.want = want, !.attrs = attrs]]
    /\ UNCHANGED <<tok, cache>>

\* The functions that return the result to the application.
Finish(c) ==
    /\ call[c].pc = "done"
    /\ call' = [call EXCEPT ![c] = NoCall]
    /\ UNCHANGED <<tok, cache, calls>>

-----------------------------------------------------------------------------
(* gck-session.c: one PKCS#11 function each.                               *)

InitPin(c) ==
    /\ Ready(c, "initpin", "perform")
    /\ \E p \in Pin : Came(c, C_InitPIN(tok, SessionOf(c), p), "done", <<>>, <<>>)

SetPin(c) ==
    /\ Ready(c, "setpin", "perform")
    /\ \E p, q \in Pin : Came(c, C_SetPIN(tok, SessionOf(c), p, q), "done", <<>>, <<>>)

\* gck_session_get_info and gck_session_get_state.
GetInfo(c) ==
    /\ Ready(c, "info", "perform")
    /\ LET r == C_GetSessionInfo(tok, SessionOf(c))
       IN  Came(c, r, "done", <<>>, <<r.out>>)

Login(c) ==
    /\ Ready(c, "login", "perform")
    /\ \E p \in Pin : Came(c, C_Login(tok, SessionOf(c), "user", p), "done", <<>>, <<>>)

Logout(c) ==
    /\ Ready(c, "logout", "perform") /\ tok.logged
    /\ Came(c, C_Logout(tok, SessionOf(c)), "done", <<>>, <<>>)

CreateObject(c) ==
    /\ Ready(c, "create", "perform") /\ tok.uid < MaxId
    /\ LET r == C_CreateObject(tok, SessionOf(c), call[c].attrs)
       IN  Came(c, r, "done", <<>>, <<r.out>>)

GenerateKeyPair(c) ==
    /\ Ready(c, "generate", "perform") /\ tok.uid + 1 < MaxId
    /\ LET r == C_GenerateKeyPair(tok, SessionOf(c), call[c].attrs, <<>>)
       IN  Came(c, r, "done", <<>>, r.out)

UnwrapKey(c) ==
    /\ Ready(c, "unwrap", "perform") /\ tok.uid < MaxId
    /\ LET r == C_UnwrapKey(tok, SessionOf(c), call[c].obj, Generated, call[c].attrs)
       IN  Came(c, r, "done", <<>>, <<r.out>>)

DeriveKey(c) ==
    /\ Ready(c, "derive", "perform") /\ tok.uid < MaxId
    /\ LET r == C_DeriveKey(tok, SessionOf(c), call[c].obj, call[c].attrs)
       IN  Came(c, r, "done", <<>>, <<r.out>>)

\* perform_wrap_key: the length, and then the key with a buffer of that length.
WrapKey(c) ==
    \/ /\ Ready(c, "wrap", "perform")
       /\ LET r == C_WrapKey(tok, SessionOf(c), call[c].obj, call[c].obj, -1)
          IN  Came(c, r, "wrap", <<r.out.size>>, <<>>)
    \/ /\ Ready(c, "wrap", "wrap")
       /\ LET r == C_WrapKey(tok, SessionOf(c), call[c].obj, call[c].obj, call[c].part[1])
          IN  Came(c, r, "done", <<>>, <<r.out>>)

\* perform_find_objects: 8 at a time, and twice as many after a full batch,
\* until none is left.
FindObjects(c) ==
    \/ /\ Ready(c, "find", "perform")
       /\ Came(c, C_FindObjectsInit(tok, SessionOf(c), call[c].attrs), "next", <<8>>, <<>>)
    \/ /\ Ready(c, "find", "next")
       /\ LET n == call[c].part[1]
              r == C_FindObjects(tok, SessionOf(c), n)
          IN  Came(c, r, IF r.out = <<>> THEN "final" ELSE "next",
                   <<IF Len(r.out) = n THEN 2 * n ELSE n>>, call[c].out \o r.out)
    \/ /\ Ready(c, "find", "final")
       /\ Came(c, C_FindObjectsFinal(tok, SessionOf(c)), "done", <<>>, call[c].out)

\* perform_crypt: the key that signs wants a login of its own.
Crypt(c, op) ==
    \/ /\ Ready(c, op, "perform")
       /\ Came(c, C_CryptInit(tok, SessionOf(c), op, call[c].obj),
               IF op = "sign" THEN "context" ELSE "length", <<>>, <<>>)
    \/ /\ Ready(c, op, "context")
       /\ \E p \in Pin :
             LET r == C_Login(tok, SessionOf(c), "context", p)
                 again == r.rv = "pinincorrect"
             IN  Came(c, IF again THEN [r EXCEPT !.rv = "ok"] ELSE r,
                      IF again THEN "context" ELSE "length", <<>>, <<>>)
    \/ /\ Ready(c, op, "length")
       /\ Came(c, C_Crypt(tok, SessionOf(c), op, -1), "result", <<>>, <<>>)
    \/ /\ Ready(c, op, "result")
       /\ LET r == C_Crypt(tok, SessionOf(c), op, 1)
          IN  Came(c, r, "done", <<>>, <<r.out>>)

\* perform_verify.
Verify(c) ==
    \/ /\ Ready(c, "verify", "perform")
       /\ Came(c, C_VerifyInit(tok, SessionOf(c), call[c].obj), "verify", <<>>, <<>>)
    \/ /\ Ready(c, "verify", "verify")
       /\ \E good \in BOOLEAN : Came(c, C_Verify(tok, SessionOf(c), good), "done", <<>>, <<>>)

-----------------------------------------------------------------------------
(* gck-object.c.                                                           *)

DestroyObject(c) ==
    /\ Ready(c, "destroy", "perform")
    /\ Came(c, C_DestroyObject(tok, SessionOf(c), call[c].obj), "done", <<>>, <<>>)

\* perform_set_attributes, perform_set_template.
SetAttributes(c) ==
    /\ Ready(c, "set", "perform")
    /\ Came(c, C_SetAttributeValue(tok, SessionOf(c), call[c].obj, call[c].attrs), "done", <<>>, <<>>)

\* GCK_IS_GET_ATTRIBUTE_RV_OK: some attributes may be missing or secret.
Tolerated(r) == [r EXCEPT !.rv = IF @ \in {"typeinvalid", "sensitive"} THEN "ok" ELSE @]

\* _gck_builder_prepare_in: nothing but the length is asked for.
Prepare(want) == [i \in DOMAIN want |-> [type |-> want[i], room |-> -1]]

\* _gck_builder_commit_in: room for every value that has a length.
Commit(answers) ==
    [i \in DOMAIN answers |->
        [type |-> answers[i].type,
         room |-> IF answers[i].len = 0 THEN -1 ELSE answers[i].len]]

\* The attribute that is left in the builder: its length, and its value where
\* there was room for one.
Filled(reqs, answers) ==
    [i \in DOMAIN answers |->
        [type |-> answers[i].type, len |-> answers[i].len, got |-> reqs[i].room # -1,
         value |-> answers[i].wrote]]

\* Mutant: the values are not fetched after the lengths.
GetAttributesOnce(c, op) ==
    /\ Ready(c, op, "perform")
    /\ LET r == Tolerated(C_GetAttributeValue(tok, SessionOf(c), call[c].obj, Prepare(call[c].want)))
       IN  Came(c, r, "done", <<>>, Filled(Commit(r.out), r.out))

\* perform_get_attributes.
GetAttributes(c, op) ==
    \/ /\ Ready(c, op, "perform")
       /\ LET r == Tolerated(C_GetAttributeValue(tok, SessionOf(c), call[c].obj,
                                                 Prepare(call[c].want)))
          IN  Came(c, r, "values", Commit(r.out), <<>>)
    \/ /\ Ready(c, op, "values")
       /\ LET r == Tolerated(C_GetAttributeValue(tok, SessionOf(c), call[c].obj, call[c].part))
          IN  Came(c, r, "done", <<>>, Filled(call[c].part, r.out))

\* perform_get_attribute_data: one attribute, which must be there; a byte is
\* allocated also when the value is empty.
GetAttributeData(c) ==
    \/ /\ Ready(c, "data", "perform")
       /\ LET r == C_GetAttributeValue(tok, SessionOf(c), call[c].obj,
                                       Prepare(SubSeq(call[c].want, 1, 1)))
          IN  Came(c, r, "value",
                   [i \in DOMAIN r.out |-> [type |-> r.out[i].type, room |-> r.out[i].len]], <<>>)
    \/ /\ Ready(c, "data", "value")
       /\ LET r == C_GetAttributeValue(tok, SessionOf(c), call[c].obj, call[c].part)
          IN  Came(c, r, "done", <<>>, Filled(call[c].part, r.out))

\* perform_get_template: the length of the template, the lengths of what is in
\* it, and its values.  What is not a whole number of attributes is cut off.
AttrSize == 2      \* stands for sizeof (CK_ATTRIBUTE)
GetTemplate(c) ==
    \/ /\ Ready(c, "template", "perform")
       /\ LET r == C_GetAttributeValue(tok, SessionOf(c), call[c].obj,
                                       Prepare(SubSeq(call[c].want, 1, 1)))
          IN  Came(c, r, "lengths",
                   [i \in DOMAIN r.out |->
                       [type |-> r.out[i].type,
                        room |-> IF r.out[i].len < AttrSize THEN -1 ELSE r.out[i].len]], <<>>)
    \/ \E pc \in {"lengths", "values"} :
          /\ Ready(c, "template", pc)
          /\ LET r == C_GetAttributeValue(tok, SessionOf(c), call[c].obj, call[c].part)
             IN  Came(c, r, IF pc = "lengths" THEN "values" ELSE "done", call[c].part,
                      Filled(call[c].part, r.out))

-----------------------------------------------------------------------------
(* gck-object-cache.c.                                                     *)

\* check_have_attributes.
HaveAll(attrs, want) == \A i \in DOMAIN want : Has(attrs, want[i])

\* The attributes that a builder with these values ends as.
Ended(out) ==
    [i \in DOMAIN out |-> IF out[i].len = -1 THEN InvalidAttr(out[i].type)
                          ELSE Attr(out[i].type, out[i].value)]

\* gck_object_cache_lookup and gck_object_cache_lookup_async: what is kept, or
\* an update.
Lookup(c, o, want, async) ==
    /\ call[c].pc = "idle" /\ calls < MaxCalls
    /\ calls' = calls + 1
    /\ IF HaveAll(cache[o], want)
       THEN call' = [call EXCEPT ![c] = [NoCall EXCEPT !.pc = "done", !.op = "lookup", !.obj = o,
                        !.want = want, !.attrs = cache[o], !.async = async]]
       ELSE call' = [call EXCEPT ![c] = [NoCall EXCEPT !.pc = "perform", !.op = "update", !.obj = o,
                        !.want = want, !.async = async]]
    /\ UNCHANGED <<tok, cache>>

\* gck_object_cache_update and on_cache_object_get: an answer is added to what
\* is kept.  gck_object_cache_lookup returns what is kept then, or fails;
\* gck_object_cache_lookup_finish never asks whether the update has failed.
Updated(c) ==
    LET a == call[c] IN
    /\ Ready(c, "update", "done")
    /\ cache' = IF a.rv = "ok" THEN [cache EXCEPT ![a.obj] = SetAll(@, Ended(a.out))] ELSE cache
    /\ call' = [call EXCEPT ![c].op = IF a.rv = "ok" \/ a.async THEN "lookup" ELSE "failed",
                            ![c].attrs = cache'[a.obj]]
    /\ UNCHANGED <<tok, calls>>

-----------------------------------------------------------------------------
\* The functions that the application calls, with and without waiting.

StartFind(c) == \E a \in Template : Begin(c, "find", 0, <<>>, a)
StartGenerateKeyPair(c) == \E a \in Template : Begin(c, "generate", 0, <<>>, a)
StartWrapKey(c, o) == Begin(c, "wrap", o, <<>>, <<>>)
StartUnwrapKey(c, o) == \E a \in Template : Begin(c, "unwrap", o, <<>>, a)
StartDeriveKey(c, o) == \E a \in Template : Begin(c, "derive", o, <<>>, a)
StartEncrypt(c, o) == Begin(c, "encrypt", o, <<>>, <<>>)
StartDecrypt(c, o) == Begin(c, "decrypt", o, <<>>, <<>>)
StartSign(c, o) == Begin(c, "sign", o, <<>>, <<>>)
StartVerify(c, o) == Begin(c, "verify", o, <<>>, <<>>)
StartGet(c, o) == \E w \in Wanted : Begin(c, "get", o, w, <<>>)
StartGetData(c, o) == \E w \in Wanted : Begin(c, "data", o, w, <<>>)
StartGetTemplate(c, o) == \E w \in Wanted : Begin(c, "template", o, w, <<>>)
StartSet(c, o) == \E a \in Change : Begin(c, "set", o, <<>>, a)

\* gck_object_set_template: the template is the value of one attribute.
StartSetTemplate(c, o) == Begin(c, "set", o, <<>>, <<Attr("value", Value(AttrSize, 3))>>)

Start(c) ==
    \/ \E op \in {"initpin", "setpin", "info", "login", "logout"} : Begin(c, op, 0, <<>>, <<>>)
    \/ \E a \in Template : Begin(c, "create", 0, <<>>, a)
    \/ StartGenerateKeyPair(c) \/ StartFind(c)
    \/ \E o \in DOMAIN Objects :
          \/ Begin(c, "destroy", o, <<>>, <<>>)
          \/ StartWrapKey(c, o) \/ StartUnwrapKey(c, o) \/ StartDeriveKey(c, o)
          \/ StartEncrypt(c, o) \/ StartDecrypt(c, o) \/ StartSign(c, o) \/ StartVerify(c, o)
          \/ StartSet(c, o) \/ StartSetTemplate(c, o)
          \/ StartGet(c, o) \/ StartGetData(c, o) \/ StartGetTemplate(c, o)
          \/ \E w \in Wanted, async \in BOOLEAN : Lookup(c, o, w, async)

Step(c) ==
    \/ InitPin(c) \/ SetPin(c) \/ GetInfo(c) \/ Login(c) \/ Logout(c) \/ CreateObject(c) \/ GenerateKeyPair(c)
    \/ UnwrapKey(c) \/ DeriveKey(c) \/ WrapKey(c) \/ FindObjects(c) \/ Verify(c)
    \/ \E op \in {"encrypt", "decrypt", "sign"} : Crypt(c, op)
    \/ DestroyObject(c) \/ SetAttributes(c) \/ GetAttributeData(c) \/ GetTemplate(c)
    \/ GetAttributes(c, "get") \/ GetAttributes(c, "update") \/ Updated(c)
    \/ call[c].op # "update" /\ Finish(c)

\* Somebody else changes the token: an object is there, or an object is changed.
Elsewhere ==
    /\ calls < MaxCalls
    /\ calls' = calls + 1
    /\ \/ tok.uid < MaxId /\ tok' = AddObject(tok, <<>>).t
       \/ \E o \in DOMAIN tok.objects, a \in Change : tok' = SetObject(tok, o, a)
    /\ UNCHANGED <<call, cache>>

Next == ((\E c \in Call : Start(c) \/ Step(c)) \/ Elsewhere) /\ Observe

Spec == Init /\ [][Next]_vars

-----------------------------------------------------------------------------
(* Properties.                                                             *)

\* A value that is read is one that the object had while the call ran, and is
\* not longer than the room that was made for it, although the length is asked
\* for before the value and other threads change the object in between.  (A
\* shorter one is followed by bytes nobody wrote.)
AnswersTrue ==
    \A c \in Call :
        (call[c].pc = "done" /\ call[c].rv = "ok") =>
            /\ call[c].op \in {"get", "data", "template"} =>
                  \A i \in DOMAIN call[c].out :
                      LET a == call[c].out[i]
                      IN  (a.got /\ a.len # -1) =>
                              <<a.type, a.value>> \in seen[c] /\ a.value.size <= a.len
            /\ call[c].op = "wrap" => <<"value", call[c].out[1]>> \in seen[c]

\* What a lookup through the kept attributes returns has every attribute that
\* was asked for, also when calls that update and calls that find them there
\* overlap; only an asynchronous one whose update fails returns what there was.
LookupComplete ==
    \A c \in Call :
        (Ready(c, "lookup", "done") /\ (call[c].async => call[c].rv = "ok")) =>
            HaveAll(call[c].attrs, call[c].want)
=============================================================================
