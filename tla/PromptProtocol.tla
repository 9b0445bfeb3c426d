---------------------------- MODULE PromptProtocol ----------------------------
(***************************************************************************)
(* The clients of SystemPrompt and the prompter of SystemPrompter, joined   *)
(* by the session bus: src/gcr/gcr-system-prompt.c, gcr-system-prompter.c   *)
(* and the interface gcr-dbus-constants.h and the XML files describe.       *)
(*                                                                         *)
(* What a handler of the prompter sends to a callback is appended to the    *)
(* callback's inbox; what a client sends to the prompter waits in its       *)
(* outbox.  Messages of different clients overtake one another, those of    *)
(* one client do not.                                                       *)
(***************************************************************************)
EXTENDS SystemPrompt

CONSTANTS Name, NameOf, Object, NoObject, Mode,
          Dismissable,   \* whether the user may close dialogs
          Mortal         \* the prompter may crash

NoQuestion == 0
Question == Questions
Vanishing == {}

ASSUME NameAssumption == NameOf \in [Callback -> Name]
ASSUME PrompterAssumption == /\ NoObject \notin Object
                             /\ Mode \in {"single", "multiple"}
                             /\ Dismissable \in BOOLEAN

VARIABLES gone, registered, callbacks, waiting, active, obj, sent

Prompter == INSTANCE SystemPrompter

prompterVars == <<gone, registered, callbacks, waiting, active, obj, sent>>
protocolVars == <<clientVars, prompterVars>>

-----------------------------------------------------------------------------
Init ==
    /\ ClientInit
    /\ gone = {}
    /\ registered = TRUE
    /\ callbacks = {}
    /\ waiting = <<>>
    /\ active = [c \in Callback |-> NoObject]
    /\ obj = [o \in Object |-> Prompter!Free]
    /\ sent = Prompter!Nothing

\* A call that has finished gets no reply any more: the messages that carry
\* it or its reply refer to nothing.
Orphaned(box, S) ==
    [c \in Callback |-> [i \in DOMAIN box[c] |->
        IF "from" \in DOMAIN box[c][i] /\ box[c][i].from \in S
        THEN [box[c][i] EXCEPT !.from = NoObject] ELSE box[c][i]]]

Deliver(box) == inbox' = [c \in Callback |-> box[c] \o sent'[c]]

\* The prompter takes the next message of a client.
PrompterReceives(c) ==
    LET m == Head(outbox[c]) IN
    /\ outbox[c] # <<>> /\ registered
    /\ \/ m.kind = "Begin" /\ Prompter!BeginPrompting(c)
       \/ m.kind = "Perform" /\ Prompter!PerformPrompt(c, "confirm", m.question, TRUE)
       \/ m.kind = "Stop" /\ Prompter!StopPrompting(c)
       \/ /\ m.kind = "ReadyReply" /\ m.from # NoObject
          /\ Prompter!PromptReadyComplete(m.from, m.ok)
       \/ /\ m.kind = "ReadyReply" /\ m.from = NoObject
          /\ sent' = Prompter!Nothing
          /\ UNCHANGED <<gone, registered, callbacks, waiting, active, obj>>
    /\ outbox' = With(outbox, c, Tail(outbox[c]))
    /\ Deliver(inbox)
    /\ UNCHANGED client

InFlight(box, o) ==
    \E c \in Callback : \E i \in DOMAIN box[c] :
        "from" \in DOMAIN box[c][i] /\ box[c][i].from = o

\* GDBus finishes a PromptReady call that was cancelled, or that nobody will
\* answer: after its default timeout, which is long compared to delivery.
PromptReadyGivenUp(o) ==
    /\ obj[o] # Prompter!Free /\ obj[o].op = "call"
    /\ obj[o].cancelled \/ ~(InFlight(inbox, o) \/ InFlight(outbox, o))
    /\ Prompter!PromptReadyComplete(o, FALSE)
    /\ Deliver(Orphaned(inbox, {o}))
    /\ outbox' = Orphaned(outbox, {o})
    /\ UNCHANGED client

\* The user answers a dialog, or closes it.
UserAnswers(o) ==
    /\ \E r \in {"yes", "no"} : Prompter!PromptComplete(o, r)
    /\ Deliver(inbox)
    /\ UNCHANGED <<client, outbox>>

UserCloses(c) ==
    /\ Dismissable
    /\ Prompter!PromptClosed(c)
    /\ Deliver(inbox)
    /\ UNCHANGED <<client, outbox>>

\* The prompter's process ends: its state is gone, the bus tells everyone,
\* and answers calls with an error from then on.
PrompterDies ==
    /\ Mortal /\ registered
    /\ registered' = FALSE
    /\ callbacks' = {}
    /\ waiting' = <<>>
    /\ active' = [c \in Callback |-> NoObject]
    /\ obj' = [o \in Object |-> Prompter!Free]
    /\ sent' = [c \in Callback |-> <<Vanished>>]
    /\ Deliver(Orphaned(inbox, Object))
    /\ outbox' = Orphaned(outbox, Object)
    /\ UNCHANGED <<gone, client>>

BusAnswers(c) ==
    LET m == Head(outbox[c])
        reply == CASE m.kind = "Begin" -> <<Prompter!BeginReply(FALSE)>>
                   [] m.kind = "Perform" -> <<Vanished, Prompter!PerformReply(FALSE)>>
                   [] m.kind = "Stop" -> <<Prompter!StopReply>>
                   [] m.kind = "ReadyReply" -> <<>>
    IN
    /\ outbox[c] # <<>> /\ ~registered
    /\ inbox' = With(inbox, c, inbox[c] \o reply)
    /\ outbox' = With(outbox, c, Tail(outbox[c]))
    /\ sent' = Prompter!Nothing
    /\ UNCHANGED <<client, gone, registered, callbacks, waiting, active, obj>>

\* What the main loop of a client does by itself.
ClientReceives(c) ==
    \/ ReceiveBeginReply(c)
    \/ ReceivePerformReply(c)
    \/ ReceiveStopReply(c)
    \/ ReceivePromptReady(c)
    \/ ReceivePromptDone(c)
    \/ ReceiveVanished(c)

ClientDispatches(c) ==
    \/ \E ok \in BOOLEAN : BusConnected(c, ok, registered)
    \/ \E k \in OpIndex : CallCancelled(c, k) \/ WaitingFires(c, k) \/ IdleFires(c, k)
    \/ CloseIdleFires(c)

\* What the application does.
Application(c) ==
    \/ Open(c)
    \/ \E k \in Questions, b \in BOOLEAN : PerformPromptAsync(c, k, b)
    \/ \E k \in OpIndex : Cancel(c, k)
    \/ CloseAsync(c)
    \/ RealClose(c)

Client(c) == ClientReceives(c) \/ ClientDispatches(c) \/ Application(c) \/ TimeoutFires(c)

\* No step of a client changes the prompter.
Apart == /\ sent' = Prompter!Nothing
         /\ UNCHANGED <<gone, registered, callbacks, waiting, active, obj>>

Next ==
    \/ \E c \in Callback : PrompterReceives(c) \/ UserCloses(c) \/ BusAnswers(c)
    \/ \E o \in Object : PromptReadyGivenUp(o) \/ UserAnswers(o)
    \/ PrompterDies
    \/ \E c \in Callback : Client(c) /\ Apart

Spec == Init /\ [][Next]_protocolVars

\* The processes run, the bus delivers, and GDBus gives up calls.
SystemFairness ==
    /\ \A c \in Callback :
          /\ WF_protocolVars(PrompterReceives(c))
          /\ WF_protocolVars(BusAnswers(c))
          /\ WF_protocolVars(ClientReceives(c) /\ Apart)
          /\ WF_protocolVars(ClientDispatches(c) /\ Apart)
    /\ \A o \in Object : WF_protocolVars(PromptReadyGivenUp(o))

\* Users answer the dialogs they see, applications close their prompts.
UserFairness ==
    /\ \A c \in Callback : WF_protocolVars(RealClose(c) /\ Apart)
    /\ \A o \in Object : WF_protocolVars(UserAnswers(o))

SystemSpec == Spec /\ SystemFairness
FairSpec == Spec /\ SystemFairness /\ UserFairness

-----------------------------------------------------------------------------
(* Properties.                                                             *)

ToClient == Prompter!Message \cup {Vanished}
              \cup [kind : {"PromptReady"}, response : Prompter!Response,
                    question : OpIndex, from : Object \cup {NoObject}]

ToPrompter == {Begin, Stop} \cup [kind : {"Perform"}, question : Questions]
                \cup [kind : {"ReadyReply"}, ok : BOOLEAN, from : Object \cup {NoObject}]

TypeOK ==
    /\ client \in [Callback -> ClientState]
    /\ \A c \in Callback : inbox[c] \in Seq(ToClient) /\ outbox[c] \in Seq(ToPrompter)
    /\ obj \in [Object -> Prompter!ActivePrompt \cup {Prompter!Free}]

\* The callback of an operation is called once: a caller frees its closure in
\* it, and on_run_complete of gcr-prompt.c asserts it.
CompletedOnce ==
    \A c \in Callback, k \in OpIndex : client[c].op[k].completions <= 1

\* A question that is reported as confirmed is the question the user confirmed.
AnswerMatchesQuestion ==
    \A c \in Callback, k \in Questions :
        client[c].op[k].outcome = "continue" => client[c].op[k].answered = k

\* A closed prompt holds nothing: no operation can still be given an answer,
\* no method call reaches it, and no second StopPrompting will be sent.
ClosedIsClean ==
    \A c \in Callback : client[c].closed =>
        client[c].pending = NoOp /\ ~client[c].exported /\ ~client[c].begun

\* A prompt that believes it has begun is known to the prompter, until the
\* message that says otherwise reaches it: no prompt is dropped silently.
BegunIsKnown ==
    \A c \in Callback : client[c].begun =>
        \/ c \in callbacks
        \/ \E i \in DOMAIN inbox[c] : inbox[c][i].kind = "PromptDone"
        \/ ~registered

\* Operations complete once, and prompts are not dropped silently.
OperationsSound == TypeOK /\ CompletedOnce /\ BegunIsKnown

\* An operation of the prompt has failed and its result was not released: the
\* result lives, and its watch of the prompter's name with it.
Leaky(c) == \E k \in OpIndex : client[c].op[k].leaked

\* The news of the prompter's end has been taken by a leaked result, which
\* cancels an operation that is over: the pending one is never told, and its
\* caller waits for ever.
NewsWasLost(c) == Leaky(c) /\ ~client[c].owner

\* The pending question was cancelled, and the source that completes it is
\* due; that of a blocking call is attached to a main context which nobody
\* runs, and its caller waits for ever.
CancellationIsDue(c) ==
    LET cl == client[c] IN
    cl.op[cl.pending].cancelled /\ (WaitingDue(cl, cl.pending) \/ cl.sync)

\* A prompt whose question was accepted, and that is still to be answered, has
\* its dialog on the screen or an answer or refusal on its way; while the
\* prompter is there this has no exception, whatever was cancelled or has
\* failed before.  Once the prompter is gone, the news of it is on its way or
\* has cancelled the question, or the prompt is one of those that
\* on_prompter_vanished and on_call_cancelled really leave waiting: see
\* NewsWasLost and CancellationIsDue.
NobodyWaitsForNothing ==
    \A c \in Callback : LET k == client[c].pending IN
        (k > 0 /\ client[c].op[k].call = "none") =>
            \/ active[c] # NoObject /\ obj[active[c]].op \in {"confirm", "password"}
            \/ \E i \in DOMAIN inbox[c] :
                  inbox[c][i].kind \in {"PromptReady", "PromptDone", "Vanished"}
            \/ ~registered /\ (CancellationIsDue(c) \/ NewsWasLost(c))

\* What the properties look at: sent is not read by any step.
View == <<client, inbox, outbox, gone, registered, callbacks, waiting, active, obj>>

\* Every operation that is started completes.  Operations start and complete
\* for good, so that all have is a stable state.
OperationsComplete ==
    <>[](\A c \in Callback, k \in OpIndex :
            client[c].op[k].started => client[c].op[k].completions > 0)

\* A cancelled operation completes without waiting for the user: the caller
\* cancelled it, or the prompter it waits for is gone.
CancelledCompletes ==
    <>[](\A c \in Callback, k \in OpIndex :
            client[c].op[k].cancelled => client[c].op[k].completions > 0)

\* Closing completes too, and the prompter forgets a prompt that is closed,
\* so that the others get their turn.
ClosingCompletes ==
    <>[](\A c \in Callback :
            /\ client[c].closing # "none" => client[c].closing = "done"
            /\ client[c].closed => c \notin callbacks)

\* Everything that is started ends: operations, and closing.
EverythingEnds == OperationsComplete /\ ClosingCompletes
=============================================================================
