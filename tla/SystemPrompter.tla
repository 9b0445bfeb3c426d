---------------------------- MODULE SystemPrompter ----------------------------
(***************************************************************************)
(* The prompter service, src/gcr/gcr-system-prompter.c.                     *)
(*                                                                         *)
(* A process exports one GcrSystemPrompter on the session bus.  Clients     *)
(* call BeginPrompting, PerformPrompt and StopPrompting on it; it calls     *)
(* PromptReady and PromptDone back on the object the client exported.  A    *)
(* client object is identified by a Callback, a (bus name, object path)     *)
(* pair.  The prompter keeps                                                *)
(*   callbacks  the callbacks that have begun prompting,                    *)
(*   waiting    the queue of those that have not been given a prompt yet,   *)
(*   active     the ActivePrompt of those that have,                        *)
(* and every ActivePrompt is a reference-counted object that outlives its   *)
(* entry in the table while an asynchronous call or a prompt dialog still   *)
(* has to report back to it.                                                *)
(*                                                                         *)
(* This module is the prompter alone: the clients, the bus and the prompt   *)
(* implementation are the environment and may do anything at any time.      *)
(* What a handler sends is the value of sent after its step; a composition  *)
(* with the clients appends it to their channels.                           *)
(***************************************************************************)
EXTENDS Queues

CONSTANTS
    Name,        \* the unique bus names of the callers
    Callback,    \* the callbacks: exported prompt objects
    NameOf,      \* the bus name that owns each callback
    Object,      \* addresses of ActivePrompt structs, a bound on live ones
    NoObject,    \* a NULL ActivePrompt pointer
    Question,    \* what a prompt's properties ask the user
    NoQuestion,  \* the properties of a prompt nobody has set yet
    Mode,        \* GcrSystemPrompterMode, "single" or "multiple"
    Vanishing,   \* the bus names that may drop off the bus
    Dismissable  \* whether the prompt implementation may close by itself

ASSUME CallbackAssumption == NameOf \in [Callback -> Name]
ASSUME ObjectAssumption == NoObject \notin Object
ASSUME QuestionAssumption == NoQuestion \notin Question
ASSUME ModeAssumption == Mode \in {"single", "multiple"}
ASSUME EnvironmentAssumption == /\ Vanishing \subseteq Name
                                /\ Dismissable \in BOOLEAN

VARIABLES
    gone,        \* names that have dropped off the bus; the bus reuses none
    registered,  \* exported on a connection (pv->connection is not NULL)
    callbacks,   \* keys of pv->callbacks
    waiting,     \* pv->waiting
    active,      \* pv->active: the object of each callback, or NoObject
    obj,         \* the ActivePrompt structs, by address
    sent         \* the messages the last step sent to each callback, in order

bookkeeping == <<callbacks, waiting, active>>
vars == <<gone, registered, callbacks, waiting, active, obj, sent>>

-----------------------------------------------------------------------------
(* Messages to a callback.                                                 *)

BeginReply(ok) == [kind |-> "BeginReply", ok |-> ok]
PerformReply(ok) == [kind |-> "PerformReply", ok |-> ok]
StopReply == [kind |-> "StopReply"]
PromptDone == [kind |-> "PromptDone"]

\* PromptReady carries the answer, the properties of the prompt it answers,
\* and the call it is (its reply goes back to the ActivePrompt that made it).
PromptReady(response, question, o) ==
    [kind |-> "PromptReady", response |-> response, question |-> question,
     from |-> o]

Response == {"none", "yes", "no"}
Message == [kind : {"BeginReply", "PerformReply"}, ok : BOOLEAN]
              \cup {StopReply, PromptDone}
              \cup [kind : {"PromptReady"}, response : Response,
                    question : Question \cup {NoQuestion}, from : Object]

-----------------------------------------------------------------------------
(* ActivePrompt objects.                                                   *)

\* What an ActivePrompt waits for: nothing, the reply to a PromptReady call,
\* or the user's answer to a dialog.
Operation == {"none", "call", "confirm", "password"}

\* connection_lost is not a field of the struct: it records that
\* prompt_send_ready took a reference for a call it could not make.
ActivePrompt ==
    [callback : Callback, refs : Nat \ {0}, ready : BOOLEAN, received : BOOLEAN,
     cancelled : BOOLEAN, op : Operation, question : Question \cup {NoQuestion},
     connection_lost : BOOLEAN]

Free == [refs |-> 0]

IsLive(objs, o) == objs[o] # Free

\* active_prompt_unref: the struct is freed with its last reference.
Unref(a) == IF a.refs = 1 THEN Free ELSE [a EXCEPT !.refs = @ - 1]

\* active_prompt_create followed by the first prompt_send_ready: one
\* reference for the table, one for the call in flight.
NewActivePrompt(c) ==
    [callback |-> c, refs |-> 2, ready |-> FALSE, received |-> FALSE,
     cancelled |-> FALSE, op |-> "call", question |-> NoQuestion,
     connection_lost |-> FALSE]

Send(msgs, c, m) == With(msgs, c, Append(msgs[c], m))
Nothing == [c \in Callback |-> <<>>]

-----------------------------------------------------------------------------
(* The steps the handlers are made of.                                     *)

\* prompt_stop_prompting on the active prompt of a callback: taken out of
\* the table, cancelled if something is outstanding, closed and released.
StopObject(a) == Unref([a EXCEPT !.cancelled = @ \/ ~a.ready])

\* Mutant: the entry stays in the table.
StoppedActiveKept(S) == active

\* The tables after prompt_stop_prompting for every callback in S.
StoppedObjects(objs, S) ==
    [o \in Object |-> IF \E c \in S : active[c] = o
                      THEN StopObject(objs[o]) ELSE objs[o]]
StoppedActive(S) == [c \in Callback |-> IF c \in S THEN NoObject ELSE active[c]]

\* The PromptDone calls that prompt_stop_prompting makes on the callbacks in S.
SendDone(S) ==
    [c \in Callback |-> IF c \in S THEN <<PromptDone>> ELSE <<>>]

\* prompt_stop_prompting for every callback in S, and nothing else.
StopAll(S, msgs) ==
    /\ callbacks' = callbacks \ S
    /\ waiting' \in Removed(waiting, S)
    /\ active' = StoppedActive(S)
    /\ obj' = StoppedObjects(obj, S)
    /\ sent' = msgs

\* A single prompter shows a prompt only when its table is empty.
MayShow(act) == Mode = "single" => \A c \in Callback : act[c] = NoObject

\* prompt_next_ready, run on the state (w, act, objs, msgs) that the first
\* part of a handler has left: the head of the queue gets a prompt, and its
\* first PromptReady, unless the prompter is single and busy.
PromptNextReady(w, act, objs, msgs) ==
    \/ /\ w = <<>> \/ ~MayShow(act)
       /\ waiting' = w
       /\ active' = act
       /\ obj' = objs
       /\ sent' = msgs
    \/ /\ w # <<>> /\ MayShow(act)
       /\ \E o \in Object :
            /\ ~IsLive(objs, o)
            /\ active' = With(act, Head(w), o)
            /\ obj' = With(objs, o, NewActivePrompt(Head(w)))
            /\ sent' = Send(msgs, Head(w), PromptReady("none", NoQuestion, o))
       /\ waiting' = Tail(w)

-----------------------------------------------------------------------------
(* The handlers.                                                           *)

Init ==
    /\ gone = {}
    /\ registered = FALSE
    /\ callbacks = {}
    /\ waiting = <<>>
    /\ active = [c \in Callback |-> NoObject]
    /\ obj = [o \in Object |-> Free]
    /\ sent = Nothing

\* gcr_system_prompter_register.
Register ==
    /\ ~registered
    /\ registered' = TRUE
    /\ sent' = Nothing
    /\ UNCHANGED <<gone, bookkeeping, obj>>

\* gcr_system_prompter_unregister, and dispose which calls it: every
\* callback is stopped and told so, then the connection is dropped.  With
\* wait set the PromptDone calls block; nothing else runs in between.
Unregister ==
    /\ registered
    /\ registered' = FALSE
    /\ StopAll(callbacks, SendDone(callbacks))
    /\ UNCHANGED gone

\* prompter_method_begin_prompting.
BeginPrompting(c) ==
    /\ registered
    /\ \/ /\ c \in callbacks
          /\ sent' = Send(Nothing, c, BeginReply(FALSE))
          /\ UNCHANGED <<bookkeeping, obj>>
       \/ /\ c \notin callbacks
          /\ callbacks' = callbacks \cup {c}
          /\ PromptNextReady(Pushed(waiting, c), active, obj,
                             Send(Nothing, c, BeginReply(TRUE)))
    /\ UNCHANGED <<gone, registered>>

\* Mutant: the properties the client sent are not set on the prompt.
PerformPromptSameQuestion(c, type, question, validExchange) ==
    LET o == active[c] IN
    /\ registered
    /\ \/ /\ o # NoObject /\ obj[o].ready
          /\ obj' = With(obj, o, [obj[o] EXCEPT
                !.ready = FALSE, !.op = type, !.refs = @ + 1,
                !.question = IF @ = NoQuestion THEN question ELSE @])
          /\ sent' = Send(Nothing, c, PerformReply(TRUE))
       \/ /\ o = NoObject \/ ~obj[o].ready
          /\ UNCHANGED obj
          /\ sent' = Send(Nothing, c, PerformReply(FALSE))
    /\ UNCHANGED <<gone, registered, bookkeeping>>

\* prompter_method_perform_prompt.  The properties are set on the prompt
\* before the secret exchange and the prompt type are looked at.
PerformPrompt(c, type, question, validExchange) ==
    LET o == active[c]
        accepted == o # NoObject /\ obj[o].ready
        asked == [obj[o] EXCEPT !.question = question]
    IN
    /\ registered
    /\ \/ /\ ~accepted
          /\ UNCHANGED obj
          /\ sent' = Send(Nothing, c, PerformReply(FALSE))
       \/ /\ accepted /\ ~validExchange
          /\ obj' = [obj EXCEPT ![o] = asked]
          /\ sent' = Send(Nothing, c, PerformReply(FALSE))
       \/ /\ accepted /\ validExchange /\ type \notin {"confirm", "password"}
          /\ obj' = [obj EXCEPT ![o] = [asked EXCEPT !.received = TRUE]]
          /\ sent' = Send(Nothing, c, PerformReply(FALSE))
       \/ /\ accepted /\ validExchange /\ type \in {"confirm", "password"}
          /\ obj' = [obj EXCEPT ![o] = [asked EXCEPT !.received = TRUE,
                                                     !.ready = FALSE,
                                                     !.op = type,
                                                     !.refs = @ + 1]]
          /\ sent' = Send(Nothing, c, PerformReply(TRUE))
    /\ UNCHANGED <<gone, registered, bookkeeping>>

\* Mutant: the freed place is given to nobody.
StopPromptingNoNext(c) ==
    LET S == {c} \cap callbacks IN
    /\ registered
    /\ StopAll(S, Send(SendDone(S), c, StopReply))
    /\ UNCHANGED <<gone, registered>>

\* prompter_method_stop_prompting.
StopPrompting(c) ==
    LET S == {c} \cap callbacks IN
    /\ registered
    /\ callbacks' = callbacks \ S
    /\ \E w \in Removed(waiting, S) :
          PromptNextReady(w, StoppedActive(S), StoppedObjects(obj, S),
                          Send(SendDone(S), c, StopReply))
    /\ UNCHANGED <<gone, registered>>

\* on_caller_vanished: all callbacks of the name are stopped, without a
\* PromptDone; nobody is given the freed place.
CallerVanished(n) ==
    /\ registered
    /\ n \notin gone
    /\ gone' = gone \cup {n}
    /\ StopAll({c \in callbacks : NameOf[c] = n}, Nothing)
    /\ UNCHANGED registered

\* on_prompt_close: the prompt implementation closes its dialog.  The signal
\* is connected only while the object is in the table.
PromptClosed(c) ==
    LET S == {c} \cap callbacks IN
    /\ active[c] # NoObject
    /\ StopAll(S, SendDone(S))
    /\ UNCHANGED <<gone, registered>>

\* on_prompt_ready_complete.  GDBus reports CANCELLED for a call whose
\* cancellable is cancelled, whatever reply it got; only then is the error
\* branch skipped.
PromptReadyComplete(o, ok) ==
    LET a == [obj[o] EXCEPT !.ready = TRUE, !.op = "none"]
        S == {a.callback} \cap callbacks
        stopped == StoppedObjects([obj EXCEPT ![o] = a], S)
        released == With(stopped, o, Unref(stopped[o]))
    IN
    /\ IsLive(obj, o)
    /\ obj[o].op = "call"
    /\ \/ /\ a.cancelled \/ ok
          /\ obj' = [obj EXCEPT ![o] = Unref(a)]
          /\ sent' = Nothing
          /\ UNCHANGED bookkeeping
       \/ /\ ~a.cancelled /\ ~ok
          /\ callbacks' = callbacks \ S
          /\ \E w \in Removed(waiting, S) :
                PromptNextReady(w, StoppedActive(S), released, Nothing)
    /\ UNCHANGED <<gone, registered>>

\* Mutant: the answer is not passed on.
PromptCompleteSilent(o, response) ==
    /\ IsLive(obj, o)
    /\ obj[o].op \in {"confirm", "password"}
    /\ obj' = [obj EXCEPT ![o] = Unref([@ EXCEPT !.op = "none", !.ready = TRUE])]
    /\ sent' = Nothing
    /\ UNCHANGED <<gone, registered, bookkeeping>>

\* Mutant: the PromptReady call is made without the prompt's cancellable.
PromptCompleteAnyway(o, response) ==
    LET a == obj[o] IN
    /\ IsLive(obj, o)
    /\ a.op \in {"confirm", "password"}
    /\ registered
    /\ obj' = [obj EXCEPT ![o] = [a EXCEPT !.op = "call"]]
    /\ sent' = Send(Nothing, a.callback, PromptReady(response, a.question, o))
    /\ UNCHANGED <<gone, registered, bookkeeping>>

\* on_prompt_confirm and on_prompt_password: the dialog reports an answer,
\* which prompt_send_ready passes on.  GDBus does not send a call whose
\* cancellable is cancelled already; without a connection there is no call,
\* and the reference taken for it is never dropped.
PromptComplete(o, response) ==
    LET a == obj[o] IN
    /\ IsLive(obj, o)
    /\ a.op \in {"confirm", "password"}
    /\ \/ /\ registered
          /\ obj' = [obj EXCEPT ![o] = [a EXCEPT !.op = "call"]]
          /\ sent' = IF a.cancelled THEN Nothing
                     ELSE Send(Nothing, a.callback,
                               PromptReady(response, a.question, o))
       \/ /\ ~registered
          /\ obj' = [obj EXCEPT ![o] = [a EXCEPT !.op = "none",
                                                 !.connection_lost = TRUE]]
          /\ sent' = Nothing
    /\ UNCHANGED <<gone, registered, bookkeeping>>

-----------------------------------------------------------------------------
(* The prompter with an unconstrained environment.                         *)

MethodCall(c) ==
    /\ NameOf[c] \notin gone
    /\ \/ BeginPrompting(c)
       \/ \E type \in {"confirm", "password", "invalid"}, q \in Question,
             valid \in BOOLEAN : PerformPrompt(c, type, q, valid)
       \/ StopPrompting(c)

Next ==
    \/ Register
    \/ Unregister
    \/ \E c \in Callback : MethodCall(c)
    \/ \E n \in Vanishing : CallerVanished(n)
    \/ Dismissable /\ \E c \in Callback : PromptClosed(c)
    \/ \E o \in Object, ok \in BOOLEAN : PromptReadyComplete(o, ok)
    \/ \E o \in Object, r \in {"yes", "no"} : PromptComplete(o, r)

Spec == Init /\ [][Next]_vars

-----------------------------------------------------------------------------
(* Properties.                                                             *)

TypeOK ==
    /\ gone \subseteq Name
    /\ registered \in BOOLEAN
    /\ callbacks \subseteq Callback
    /\ waiting \in Seq(Callback)
    /\ active \in [Callback -> Object \cup {NoObject}]
    /\ obj \in [Object -> ActivePrompt \cup {Free}]
    /\ sent \in [Callback -> Seq(Message)]

\* Every callback that has begun is either waiting once or active, never
\* both, and active prompts are distinct live objects that belong to their
\* callback.  The assertions at the end of gcr_system_prompter_unregister
\* and in prompt_next_ready rest on it.
Bookkeeping ==
    /\ callbacks = Entries(waiting) \cup {c \in Callback : active[c] # NoObject}
    /\ \A i \in DOMAIN waiting : active[waiting[i]] = NoObject
    /\ \A i, j \in DOMAIN waiting : waiting[i] = waiting[j] => i = j
    /\ \A c \in Callback : active[c] # NoObject =>
          IsLive(obj, active[c]) /\ obj[active[c]].callback = c

\* The reference count of an ActivePrompt is the number of its holders: the
\* table, the dialog or call that will report back, and the call that was
\* lost with the connection.  Otherwise a callback runs on freed memory.
RefsMatchHolders ==
    \A o \in Object : IsLive(obj, o) =>
        obj[o].refs = (IF active[obj[o].callback] = o THEN 1 ELSE 0)
                        + (IF obj[o].op # "none" THEN 1 ELSE 0)
                        + (IF obj[o].connection_lost THEN 1 ELSE 0)

\* A prompt is not ready exactly while something is outstanding: the
\* assertions active->ready == FALSE in prompt_send_ready,
\* on_prompt_ready_complete, on_prompt_password and on_prompt_confirm hold,
\* and a prompt on which nothing is outstanding can be asked again.  A prompt
\* is cancelled only when it is out of the table.
ReadyDiscipline ==
    \A o \in Object : IsLive(obj, o) =>
        /\ obj[o].op # "none" => ~obj[o].ready
        /\ active[obj[o].callback] = o =>
              (obj[o].op = "none" <=> obj[o].ready) /\ ~obj[o].cancelled
        /\ active[obj[o].callback] # o => obj[o].cancelled

\* The prompter's records are consistent: its tables with each other, its prompts
\* with those that hold them, and their flags with what is outstanding.
RecordsSound == TypeOK /\ Bookkeeping /\ RefsMatchHolders /\ ReadyDiscipline

\* A single prompter shows one prompt at a time.
SingleMode ==
    Mode = "single" =>
        \A c, d \in Callback :
            active[c] # NoObject /\ active[d] # NoObject => c = d

\* PromptReady goes only to a callback that is active, from its own prompt:
\* once prompting has stopped, no answer of that prompt is sent any more,
\* even when the same callback has begun again and has a new prompt.
NoAnswerAfterStop ==
    \A c \in Callback : \A i \in DOMAIN sent[c] :
        sent[c][i].kind = "PromptReady" => active[c] = sent[c][i].from

\* A single prompter never sits idle while a callback waits for the screen.
NoIdlePrompter ==
    (Mode = "single" /\ waiting # <<>>) =>
        \E c \in Callback : active[c] # NoObject

\* Each handler that frees the place gives it to the head of the queue, but
\* for the two that do not call prompt_next_ready: a step that leaves a single
\* prompter idle while a callback waits is one of those.
HandlersWakeNext ==
    [][NoIdlePrompter => \/ NoIdlePrompter'
                         \/ \E n \in Name : CallerVanished(n)
                         \/ \E c \in Callback : PromptClosed(c)]_vars

\* The prompter is a first-come first-served queue for the screen: waiting
\* is the queue, and the callbacks with an ActivePrompt are shown.
Queue == INSTANCE PromptQueue WITH
    Client <- Callback, Limited <- Mode = "single",
    queue <- waiting, shown <- {c \in Callback : active[c] # NoObject}

ImplementsQueue == Queue!Spec

\* A callback that waits is shown only after everyone who waited before it.
FirstComeFirstServed == Queue!FirstComeFirstServed

=============================================================================
