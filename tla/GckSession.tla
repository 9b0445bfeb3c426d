------------------------------ MODULE GckSession ------------------------------
(***************************************************************************)
(* GckSession objects and the GckCalls made on them, src/gck/gck-session.c  *)
(* and src/gck/gck-call.c.  A call runs in a thread of its own and makes    *)
(* several PKCS#11 calls one after the other, with nothing to keep another  *)
(* call on the same session out in between.                                 *)
(***************************************************************************)
EXTENDS Integers, FiniteSets

CONSTANTS
    Session,     \* the GckSession objects
    Call,        \* the calls in progress at a time
    Key,         \* the keys of the token
    Handle,      \* bound: PKCS#11 sessions open at a time
    None,        \* no handle, no key, no operation
    Guarded,     \* the keys with CKA_ALWAYS_AUTHENTICATE
    Paths,       \* how a PIN is entered: "ask" the user, or at the reader's "pad"
    MaxWrong     \* bound: wrong PINs entered

ASSUME NoneAssumption == None \notin Session \cup Call \cup Key \cup Handle
ASSUME TokenAssumption == Guarded \subseteq Key /\ Paths \subseteq {"ask", "pad"} /\ MaxWrong \in Nat
ASSUME FiniteAssumption == IsFiniteSet(Call) /\ IsFiniteSet(Session)

VARIABLES
    refs,        \* the references to each GckSession
    handle,      \* its PKCS#11 session
    opened,      \* the PKCS#11 sessions that are open
    crypting,    \* the cryptographic operation active on each: its key, and who began it
    finding,     \* who began the search that is active on each
    logged,      \* whether the user is logged in to the token
    call,        \* the calls
    refusing,    \* whether the token refuses an operation while another is active, as
                 \* PKCS#11 has it, or cancels that one, as that of gck-mock.c does
    wrong,       \* history: how many wrong PINs were entered
    orphans,     \* history: the handles that a failed opening has left behind
    abandoned    \* history: the handles with an operation that was given up

token == <<opened, crypting, finding, logged>>
history == <<wrong, orphans, abandoned>>
vars == <<refs, handle, token, call, refusing, history>>

NoOp == [key |-> None, by |-> None]

Kind == {"open", "login", "crypt", "find", "simple"}

\* GckArguments and what the perform functions keep in them.
Args(pc, kind, session, h, key, login, rv, out) ==
    [pc |-> pc, kind |-> kind, session |-> session, handle |-> h, key |-> key,
     login |-> login, rv |-> rv, out |-> out]

NoCall == Args("idle", "simple", None, None, None, FALSE, "ok", None)

Init ==
    /\ refs = [s \in Session |-> 0]
    /\ handle = [s \in Session |-> None]
    /\ opened = {}
    /\ crypting = [h \in Handle |-> NoOp]
    /\ finding = [h \in Handle |-> None]
    /\ logged = FALSE
    /\ call = [c \in Call |-> NoCall]
    /\ refusing \in BOOLEAN
    /\ wrong = 0
    /\ orphans = {}
    /\ abandoned = {}

\* The call goes on at label, or ends with a result.
Goto(c, label) ==
    LET a == call[c] IN
    call' = [call EXCEPT ![c] = Args(label, a.kind, a.session, a.handle, a.key, a.login,
                                     a.rv, a.out)]
Done(c, rv) ==
    LET a == call[c] IN
    call' = [call EXCEPT ![c] = Args("done", a.kind, a.session, a.handle, a.key, a.login,
                                     rv, a.out)]

-----------------------------------------------------------------------------
(* GckCall.                                                                *)

\* gck_session_open and gck_session_open_async.
Open(c, s, login) ==
    /\ call[c].pc = "idle" /\ refs[s] = 0
    /\ refs' = [refs EXCEPT ![s] = 1]
    /\ call' = [call EXCEPT ![c] =
          Args("perform", "open", s, None, None, login, "ok", None)]
    /\ UNCHANGED <<handle, token, history>>

\* _gck_call_sync, or _gck_call_async_prep and _gck_call_async_ready_go, on a
\* session that the application holds.
Begin(c, s, kind, key) ==
    /\ call[c].pc = "idle" /\ refs[s] > 0 /\ handle[s] # None
    /\ refs' = [refs EXCEPT ![s] = @ + 1]
    /\ call' = [call EXCEPT ![c] =
          Args("perform", kind, s, handle[s], key, kind = "login", "ok", None)]
    /\ UNCHANGED <<handle, token, history>>

\* perform_call: refused when the cancellable is cancelled.
Perform(c) ==
    LET first == [open |-> "open", login |-> "token", crypt |-> "init", find |-> "findinit",
                  simple |-> "simple"]
    IN
    /\ call[c].pc = "perform"
    /\ Goto(c, first[call[c].kind]) \/ Done(c, "cancelled")
    /\ UNCHANGED <<refs, handle, token, history>>

\* C_CloseSession; a token logs out with its last session.
Closed(h) ==
    /\ opened' = opened \ {h}
    /\ crypting' = [crypting EXCEPT ![h] = NoOp]
    /\ finding' = [finding EXCEPT ![h] = None]
    /\ logged' = (logged /\ opened' # {})
    /\ abandoned' = abandoned \ {h}

\* g_object_unref; gck_session_dispose closes the handle with the last one.
Release(s) ==
    /\ refs' = [refs EXCEPT ![s] = @ - 1]
    /\ handle' = [handle EXCEPT ![s] = IF refs[s] = 1 THEN None ELSE @]
    /\ IF refs[s] = 1 /\ handle[s] # None
          THEN Closed(handle[s])
          ELSE UNCHANGED <<opened, crypting, finding, logged, abandoned>>

\* The application lets a session go, also while calls are in progress on it.
Unref(s) ==
    /\ handle[s] # None
    /\ refs[s] > Cardinality({c \in Call : call[c].session = s})
    /\ Release(s)
    /\ UNCHANGED <<call, wrong, orphans>>

\* The task is finished: with its result, or, as its cancellable has been
\* cancelled meanwhile, with that.
Finish(c) ==
    LET a == call[c] IN
    /\ a.pc = "done" /\ a.kind # "open"
    /\ Release(a.session)
    /\ call' = [call EXCEPT ![c] = NoCall]
    /\ UNCHANGED <<wrong, orphans>>

\* gck_session_initable_init_finish: the handle becomes the session's, or is
\* left open when the login has failed or the opening was cancelled.
FinishOpen(c, rv) ==
    LET a == call[c] IN
    /\ a.pc = "done" /\ a.kind = "open"
    /\ rv \in {a.rv, "cancelled"}
    /\ call' = [call EXCEPT ![c] = NoCall]
    /\ \/ /\ rv = "ok"
          /\ handle' = [handle EXCEPT ![a.session] = a.handle]
          /\ UNCHANGED <<refs, orphans>>
       \/ /\ rv # "ok"
          /\ refs' = [refs EXCEPT ![a.session] = 0]
          /\ orphans' = IF a.handle = None THEN orphans ELSE orphans \cup {a.handle}
          /\ UNCHANGED handle
    /\ UNCHANGED <<token, wrong, abandoned>>

-----------------------------------------------------------------------------
(* perform_open_session and the functions that make one PKCS#11 call.      *)

OpenSession(c) ==
    LET a == call[c] IN
    /\ a.pc = "open"
    /\ \/ /\ opened # Handle
          /\ LET h == CHOOSE h \in Handle : h \notin opened IN
                /\ opened' = opened \cup {h}
                /\ call' = [call EXCEPT ![c] =
                      Args(IF a.login THEN "token" ELSE "done", "open", a.session, h, None,
                           a.login, "ok", None)]
       \/ Done(c, "failed") /\ UNCHANGED opened
    /\ UNCHANGED <<refs, handle, crypting, finding, logged, history>>

\* perform_init_pin, perform_set_pin, perform_login, perform_create_object,
\* perform_generate_key_pair, perform_wrap_key, perform_unwrap_key,
\* perform_derive_key, perform_destroy, perform_set_attributes.
Simple(c) ==
    /\ call[c].pc = "simple"
    /\ Done(c, "ok") \/ Done(c, "failed")
    /\ UNCHANGED <<refs, handle, token, history>>

\* gck_session_logout.
Logout(c) ==
    /\ call[c].pc = "simple" /\ logged
    /\ logged' = FALSE
    /\ Done(c, "ok")
    /\ UNCHANGED <<refs, handle, opened, crypting, finding, history>>

-----------------------------------------------------------------------------
(* _gck_session_authenticate_token and _gck_session_authenticate_key.      *)

\* C_GetTokenInfo and C_GetSessionInfo, which may fail.  The user is asked for
\* the PIN, or the reader's pad is, unless the token is logged in.
Token(c) ==
    /\ call[c].pc = "token"
    /\ \/ ~logged /\ \E p \in Paths : Goto(c, p)
       \/ logged /\ Done(c, "ok")
       \/ Done(c, "failed")
    /\ UNCHANGED <<refs, handle, token, history>>

\* g_tls_interaction_invoke_ask_password: an answer, right or wrong, or none.
Ask(c) ==
    /\ call[c].pc = "ask"
    /\ Goto(c, "right") \/ (wrong < MaxWrong /\ Goto(c, "wrong")) \/ Done(c, "notloggedin")
    /\ UNCHANGED <<refs, handle, token, history>>

\* C_Login.  Somebody else may have logged in since the token was looked at,
\* and then it fails; with a wrong PIN it is tried again, except at a pad.
Login(c) ==
    LET pc == call[c].pc IN
    /\ pc \in {"right", "wrong", "pad"}
    /\ \/ logged /\ Done(c, "alreadyloggedin") /\ UNCHANGED <<logged, wrong>>
       \/ ~logged /\ pc # "wrong" /\ logged' = TRUE /\ Done(c, "ok") /\ UNCHANGED wrong
       \/ ~logged /\ pc = "wrong" /\ Goto(c, "token") /\ wrong' = wrong + 1 /\ UNCHANGED logged
       \/ ~logged /\ pc = "pad" /\ Done(c, "failed") /\ UNCHANGED <<logged, wrong>>
    /\ UNCHANGED <<refs, handle, opened, crypting, finding, orphans, abandoned>>

-----------------------------------------------------------------------------
(* perform_crypt and perform_verify, with _gck_session_authenticate_key.   *)

\* The token begins op on the handle: a token that does not refuse gives up what
\* was active there, a search as well.
Cryptic(h, op) ==
    /\ crypting' = [crypting EXCEPT ![h] = op]
    /\ finding' = IF refusing THEN finding ELSE [finding EXCEPT ![h] = None]
Searching(h, c) ==
    /\ finding' = [finding EXCEPT ![h] = c]
    /\ crypting' = IF refusing THEN crypting ELSE [crypting EXCEPT ![h] = NoOp]

\* The call ends, and what was begun on the handle stays active.
GivingUp(c, rv) == Done(c, rv) /\ abandoned' = abandoned \cup {call[c].handle}

\* Mutant: what the init function returns is not looked at.
CryptInitIgnored(c) ==
    LET a == call[c] IN
    /\ a.pc = "init"
    /\ \/ /\ crypting[a.handle] = NoOp \/ ~refusing
          /\ Cryptic(a.handle, [key |-> a.key, by |-> c])
       \/ UNCHANGED <<crypting, finding>>
    /\ Goto(c, "key")
    /\ UNCHANGED <<refs, handle, opened, logged, history>>

\* The init function, which fails while another operation is active, or takes its
\* place.
CryptInit(c) ==
    LET a == call[c]
        free == crypting[a.handle] = NoOp \/ ~refusing
    IN
    /\ a.pc = "init"
    /\ \/ /\ free
          /\ Cryptic(a.handle, [key |-> a.key, by |-> c])
          /\ Goto(c, "key")
       \/ /\ Done(c, IF free THEN "failed" ELSE "active")
          /\ UNCHANGED <<crypting, finding>>
    /\ UNCHANGED <<refs, handle, opened, logged, history>>

\* CKA_ALWAYS_AUTHENTICATE; if it cannot be read the key is taken not to have it.
KeyInfo(c) ==
    LET a == call[c] IN
    /\ a.pc = "key"
    /\ \/ /\ a.key \in Guarded
          /\ \E p \in Paths : Goto(c, IF p = "pad" THEN "keypad" ELSE "keyask")
       \/ Goto(c, "length")
    /\ UNCHANGED <<refs, handle, token, history>>

KeyAsk(c) ==
    /\ call[c].pc = "keyask"
    /\ \/ Goto(c, "keyright") /\ UNCHANGED abandoned
       \/ wrong < MaxWrong /\ Goto(c, "keywrong") /\ UNCHANGED abandoned
       \/ GivingUp(c, "notloggedin")
    /\ UNCHANGED <<refs, handle, token, wrong, orphans>>

\* C_Login for the key.
KeyLogin(c) ==
    LET pc == call[c].pc IN
    /\ pc \in {"keyright", "keywrong", "keypad"}
    /\ \/ pc # "keywrong" /\ Goto(c, "length") /\ UNCHANGED <<wrong, abandoned>>
       \/ pc = "keywrong" /\ Goto(c, "keyask") /\ wrong' = wrong + 1 /\ UNCHANGED abandoned
       \/ pc # "keywrong" /\ GivingUp(c, "failed") /\ UNCHANGED wrong
    /\ UNCHANGED <<refs, handle, token, orphans>>

\* The complete function, called for the length of the result and then for the
\* result, which is made with the key of the active operation.  The token ends
\* the operation with the result or the first failure.
Complete(c) ==
    LET a == call[c]
        h == a.handle
    IN
    /\ a.pc \in {"length", "compute"}
    /\ \/ /\ a.pc = "length" /\ crypting[h] # NoOp
          /\ Goto(c, "compute")
          /\ UNCHANGED crypting
       \/ /\ a.pc = "compute" /\ crypting[h] # NoOp
          /\ call' = [call EXCEPT ![c] = Args("done", a.kind, a.session, h, a.key, a.login,
                                              "ok", crypting[h].key)]
          /\ crypting' = [crypting EXCEPT ![h] = NoOp]
       \/ Done(c, "failed") /\ crypting' = [crypting EXCEPT ![h] = NoOp]
    /\ UNCHANGED <<refs, handle, opened, finding, logged, history>>

-----------------------------------------------------------------------------
(* perform_find_objects.                                                   *)

FindInit(c) ==
    LET a == call[c]
        free == finding[a.handle] = None \/ ~refusing
    IN
    /\ a.pc = "findinit"
    /\ \/ /\ free
          /\ Searching(a.handle, c)
          /\ Goto(c, "findnext")
       \/ /\ Done(c, IF free THEN "failed" ELSE "active")
          /\ UNCHANGED <<crypting, finding>>
    /\ UNCHANGED <<refs, handle, opened, logged, history>>

\* C_FindObjects; after a failure the search is not ended.
FindNext(c) ==
    /\ call[c].pc = "findnext"
    /\ \/ finding[call[c].handle] # None /\ Goto(c, "findfinal") /\ UNCHANGED abandoned
       \/ GivingUp(c, "failed")
    /\ UNCHANGED <<refs, handle, token, wrong, orphans>>

FindFinal(c) ==
    /\ call[c].pc = "findfinal"
    /\ finding' = [finding EXCEPT ![call[c].handle] = None]
    /\ Done(c, "ok") \/ Done(c, "failed")
    /\ UNCHANGED <<refs, handle, opened, crypting, logged, history>>

-----------------------------------------------------------------------------
Step(c) ==
    \/ Perform(c) \/ Finish(c) \/ OpenSession(c) \/ Simple(c) \/ Logout(c)
    \/ \E rv \in {call[c].rv, "cancelled"} : FinishOpen(c, rv)
    \/ Token(c) \/ Ask(c) \/ Login(c)
    \/ CryptInit(c) \/ KeyInfo(c) \/ KeyAsk(c) \/ KeyLogin(c) \/ Complete(c)
    \/ FindInit(c) \/ FindNext(c) \/ FindFinal(c)

Next ==
    /\ \/ \E s \in Session : Unref(s)
       \/ \E c \in Call, s \in Session :
             \/ \E login \in BOOLEAN : Open(c, s, login)
             \/ \E kind \in Kind \ {"open", "crypt"} : Begin(c, s, kind, None)
             \/ \E key \in Key : Begin(c, s, "crypt", key)
       \/ \E c \in Call : Step(c)
    /\ UNCHANGED refusing

Spec == Init /\ [][Next]_vars

-----------------------------------------------------------------------------
(* Properties.                                                             *)

TypeOK ==
    /\ refs \in [Session -> 0..1 + Cardinality(Call)]
    /\ handle \in [Session -> Handle \cup {None}]
    /\ opened \subseteq Handle
    /\ crypting \in [Handle -> [key : Key \cup {None}, by : Call \cup {None}]]
    /\ finding \in [Handle -> Call \cup {None}]
    /\ logged \in BOOLEAN
    /\ \A c \in Call : /\ call[c].kind \in Kind
                       /\ call[c].session \in Session \cup {None}
                       /\ call[c].handle \in Handle \cup {None}
    /\ wrong \in 0..MaxWrong + Cardinality(Call)
    /\ refusing \in BOOLEAN

\* A session is not closed under a call: every PKCS#11 call is made on a handle
\* that is open, although the application may let the session go at any time.
NoUseAfterClose ==
    \A c \in Call : call[c].handle # None => call[c].handle \in opened

\* A result is made with the key it was asked for, although gck keeps no other
\* call from the same PKCS#11 session between the init function and the result:
\* the init function's CKR_OPERATION_ACTIVE ends the call.  This is claimed of
\* tokens that return it, as PKCS#11 says.  On one that begins the new operation
\* in place of the old, as gck-mock.c does, the call whose operation is gone goes
\* on with the key of the other.
RightKey ==
    refusing =>
        \A c \in Call : call[c].kind = "crypt" /\ call[c].pc = "done" /\ call[c].rv = "ok" =>
                            call[c].out = call[c].key

\* The calls that have an operation active on a handle.
InCrypt(c) == call[c].pc \in {"key", "keyask", "keyright", "keywrong", "keypad", "length", "compute"}
InFind(c) == call[c].pc \in {"findnext", "findfinal"}

\* No operation is left active on a session by a call that is over, on a token of
\* either kind, unless the key could not be unlocked or the search failed: then a
\* token that refuses refuses every later one on that session.
NothingLeftActive ==
    \A h \in Handle \ abandoned :
        /\ crypting[h] # NoOp =>
              \E c \in Call : crypting[h].by = c /\ InCrypt(c) /\ call[c].handle = h
        /\ finding[h] # None =>
              \E c \in Call : finding[h] = c /\ InFind(c) /\ call[c].handle = h

\* An open handle belongs to one session, or to one that is being opened,
\* unless the login failed or the opening was cancelled: then nobody closes it.
HandlesOwned ==
    \A h \in opened \ orphans :
        Cardinality({s \in Session : handle[s] = h})
        + Cardinality({c \in Call : call[c].kind = "open" /\ call[c].handle = h}) = 1

\* Calls on one session at the same time keep off each other's handles, whenever
\* the application lets the session go; each ends what it has begun; and where the
\* token refuses a second operation they keep off each other's keys.
SessionsSound == TypeOK /\ NoUseAfterClose /\ RightKey /\ NothingLeftActive /\ HandlesOwned
=============================================================================
