----------------------------- MODULE SystemPrompt -----------------------------
(***************************************************************************)
(* The client's prompt object, src/gcr/gcr-system-prompt.c.                 *)
(*                                                                         *)
(* A GcrSystemPrompt connects to the session bus, calls BeginPrompting on   *)
(* the prompter, waits for PromptReady, and then asks one question after    *)
(* another with PerformPrompt, each answered by another PromptReady.        *)
(* Operation 0 of a prompt is opening it; operation k > 0 is its k-th       *)
(* question.  Every operation is a GSimpleAsyncResult with a CallClosure:   *)
(* its own cancellable, a source that fires when that is cancelled, a       *)
(* timeout and a watch of the prompter's bus name.  Several events may      *)
(* complete an operation: an answer, the failure of its call, a timeout, a  *)
(* cancellation, PromptDone and close.                                      *)
(*                                                                         *)
(* The operators on a prompt cl are functions of its state; the actions     *)
(* apply them to client[c], take a message from inbox[c] and append what    *)
(* is sent to outbox[c].  A channel is FIFO, as a D-Bus connection is.      *)
(***************************************************************************)
EXTENDS Queues

CONSTANTS
    Callback,     \* the prompts, identified by their exported object
    MaxPerform,   \* bound: questions asked through one prompt
    Limit,        \* bound: questions asked through each prompt
    Synchronous,  \* the prompts used through the blocking calls
    Cancelling,   \* the prompts whose operations the caller may cancel
    Impatient,    \* the prompts opened with a timeout
    Hasty         \* the prompts that may be closed while a question is asked

ASSUME PerformAssumption == MaxPerform \in Nat

VARIABLES
    client,       \* the prompts
    inbox,        \* messages from the prompter and the bus to each prompt
    outbox        \* messages from each prompt to the prompter

clientVars == <<client, inbox, outbox>>

OpenOp == 0
NoOp == -1
OpIndex == 0..MaxPerform
Questions == 1..MaxPerform

-----------------------------------------------------------------------------
(* State.                                                                  *)

\* call is the D-Bus call of the operation that has not finished; idle counts
\* scheduled g_simple_async_result_complete_in_idle; leaked is a reference to
\* the result that nobody drops.  completions counts the invocations of the
\* caller's callback, and outcome and answered record what the first told.
Op == [started : BOOLEAN,
       call : {"none", "connect", "begin", "perform"},
       userCancelled : BOOLEAN, cancelled : BOOLEAN,
       waiting : BOOLEAN, timeout : BOOLEAN, idle : Nat,
       error : {"none", "cancelled", "in-progress", "failed"},
       leaked : BOOLEAN, completions : Nat,
       outcome : {"none", "error", "opened", "continue", "cancel"},
       answered : 0..MaxPerform]

ClientState ==
    [begun : BOOLEAN, closed : BOOLEAN, exported : BOOLEAN, owner : BOOLEAN,
     pending : OpIndex \cup {NoOp}, last : {"none", "yes", "no"},
     lastQuestion : 0..MaxPerform, awaited : Seq(Questions),
     closing : {"none", "called", "idle", "done"}, sync : BOOLEAN, op : [OpIndex -> Op]]

NewOp == [started |-> FALSE, call |-> "none", userCancelled |-> FALSE,
          cancelled |-> FALSE, waiting |-> FALSE, timeout |-> FALSE, idle |-> 0,
          error |-> "none", leaked |-> FALSE, completions |-> 0,
          outcome |-> "none", answered |-> 0]

NewClient(c) == [begun |-> FALSE, closed |-> FALSE, exported |-> FALSE,
                 owner |-> FALSE, pending |-> NoOp, last |-> "none",
                 lastQuestion |-> 0, awaited |-> <<>>, closing |-> "none",
                 sync |-> c \in Synchronous,
                 op |-> [k \in OpIndex |-> NewOp]]

\* A result is alive while something refers to it; with it go its sources and
\* its name watch.
Alive(cl, k) == /\ cl.op[k].started
                /\ \/ cl.pending = k
                   \/ cl.op[k].idle > 0
                   \/ cl.op[k].call # "none"
                   \/ cl.op[k].leaked

\* The caller is inside the synchronous variant of operation k.
Blocked(cl, k) == cl.sync /\ cl.op[k].started /\ cl.op[k].completions = 0

\* Whether the main loop that dispatches the events of operation k still
\* runs: the private loop of a synchronous call ends with its result.
Dispatched(cl, k) == cl.sync => Blocked(cl, k)

\* The loop that dispatches method calls on the exported object: the one
\* that was the thread's default when the object was last registered.
Serving(cl) == cl.sync => \E k \in OpIndex : Blocked(cl, k)

Put(cl, k, o) == [cl EXCEPT !.op = With(@, k, o)]

-----------------------------------------------------------------------------
(* Messages to the prompter.                                               *)

Begin == [kind |-> "Begin"]
Perform(question) == [kind |-> "Perform", question |-> question]
Stop == [kind |-> "Stop"]
ReadyReply(ok, o) == [kind |-> "ReadyReply", ok |-> ok, from |-> o]

\* From the bus: the prompter's name has lost its owner.
Vanished == [kind |-> "Vanished"]

-----------------------------------------------------------------------------
(* The steps the handlers are made of.                                     *)

\* g_simple_async_result_complete: the caller's callback runs and calls the
\* finish function, gcr_system_prompt_password_finish or _confirm_finish with
\* handle_last_response, or open_finish.  A prompt that could not be opened
\* is disposed of.
Complete(cl, k) ==
    LET o == cl.op[k]
        outcome == IF o.error # "none" THEN "error"
                   ELSE IF k = OpenOp THEN "opened"
                   ELSE IF cl.last = "yes" THEN "continue" ELSE "cancel"
        first == o.completions = 0
        told == [o EXCEPT !.completions = @ + 1,
                          !.outcome = IF first THEN outcome ELSE @,
                          !.answered = IF first /\ outcome = "continue"
                                       THEN cl.lastQuestion ELSE @]
        disposed == IF k = OpenOp /\ outcome = "error"
                    THEN [cl EXCEPT !.closed = TRUE, !.exported = FALSE] ELSE cl
    IN  Put(disposed, k, told)

\* What perform_close sends.
ClosingCalls(cl) == IF cl.begun /\ cl.owner THEN <<Stop>> ELSE <<>>

\* Mutant: the object stays exported.
PerformCloseExported(cl) ==
    LET k == cl.pending
        o == cl.op[k]
        cut == [cl EXCEPT !.closed = TRUE, !.pending = NoOp, !.begun = FALSE]
    IN  IF k = NoOp THEN cut
        ELSE Put(cut, k, [o EXCEPT !.cancelled = TRUE, !.idle = @ + 1])

\* Mutant: the pending operation is cancelled but never completed.
PerformCloseSilent(cl) ==
    LET k == cl.pending
        cut == [cl EXCEPT !.closed = TRUE, !.pending = NoOp, !.exported = FALSE,
                          !.begun = FALSE]
    IN  IF k = NoOp THEN cut ELSE Put(cut, k, [cl.op[k] EXCEPT !.cancelled = TRUE])

\* perform_close: the pending operation is cancelled and completed from an
\* idle callback, the object is no longer exported, the prompter is told.
PerformClose(cl) ==
    LET k == cl.pending
        o == cl.op[k]
        cut == [cl EXCEPT !.closed = TRUE, !.pending = NoOp, !.exported = FALSE,
                          !.begun = FALSE]
    IN  IF k = NoOp THEN cut
        ELSE Put(cut, k, [o EXCEPT !.cancelled = TRUE, !.idle = @ + 1])

\* A reference to the result of operation k, if there is one, is forgotten.
Leak(cl, k) == IF k = NoOp THEN cl
               ELSE Put(cl, k, [cl.op[k] EXCEPT !.leaked = TRUE])

\* on_perform_prompt_complete with an error: pending is cleared, whatever it
\* is, without dropping the reference it held.
FailPerform(cl, k, error) ==
    LET o == cl.op[k] IN
    Complete(Leak([Put(cl, k, [o EXCEPT !.call = "none", !.error = error])
                      EXCEPT !.pending = NoOp], cl.pending), k)

Receive(c) == inbox' = With(inbox, c, Tail(inbox[c]))
Transmit(c, msgs) == outbox' = With(outbox, c, outbox[c] \o msgs)
Become(c, cl) == client' = With(client, c, cl)
Got(c, kind) == inbox[c] # <<>> /\ Head(inbox[c]).kind = kind

-----------------------------------------------------------------------------
(* Calls of the application.                                               *)

ClientInit ==
    /\ client = [c \in Callback |-> NewClient(c)]
    /\ inbox = [c \in Callback |-> <<>>]
    /\ outbox = [c \in Callback |-> <<>>]

\* gcr_system_prompt_open_async, up to the call of g_bus_get.
Open(c) ==
    LET cl == client[c] IN
    /\ ~cl.op[OpenOp].started
    /\ Become(c, Put(cl, OpenOp, [NewOp EXCEPT !.started = TRUE,
                                               !.call = "connect"]))
    /\ UNCHANGED <<inbox, outbox>>

\* gcr_prompt_password_async and gcr_prompt_confirm_async: perform_prompt_async.
\* The caller asks its k-th question when the one before has completed; GDBus
\* does not send a call whose cancellable is cancelled already.
PerformPromptAsync(c, k, cancelledBefore) ==
    LET cl == client[c]
        o == [NewOp EXCEPT !.started = TRUE, !.userCancelled = cancelledBefore,
                           !.cancelled = cancelledBefore]
    IN
    /\ k \in 1..Limit[c] /\ ~cl.op[k].started
    /\ cl.op[k - 1].completions > 0
    /\ cl.op[OpenOp].outcome = "opened"
    /\ cl.pending = NoOp
    /\ cancelledBefore => c \in Cancelling
    /\ \/ /\ cl.closed
          /\ Become(c, [Put(cl, k, [o EXCEPT !.idle = 1]) EXCEPT !.last = "none"])
          /\ UNCHANGED outbox
       \/ /\ ~cl.closed
          /\ Become(c, [Put(cl, k, [o EXCEPT !.call = "perform"])
                           EXCEPT !.pending = k, !.exported = TRUE,
                                  !.awaited = IF cancelledBefore THEN @
                                              ELSE Append(@, k)])
          /\ Transmit(c, IF cancelledBefore THEN <<>> ELSE <<Perform(k)>>)
    /\ UNCHANGED inbox

\* g_cancellable_cancel on the cancellable given to operation k.
Cancel(c, k) ==
    LET cl == client[c]
        o == cl.op[k]
    IN
    /\ c \in Cancelling
    /\ o.started /\ o.completions = 0 /\ ~o.userCancelled
    /\ Become(c, Put(cl, k, [o EXCEPT !.userCancelled = TRUE, !.cancelled = TRUE]))
    /\ UNCHANGED <<inbox, outbox>>

MayCallClose(c) == LET cl == client[c] IN
    /\ cl.op[OpenOp].outcome = "opened"
    /\ \A k \in OpIndex : ~Blocked(cl, k)
    /\ c \in Hasty \/ \A k \in OpIndex :
                         cl.op[k].started => cl.op[k].completions > 0

\* gcr_system_prompt_close_async.
CloseAsync(c) ==
    LET cl == client[c]
        called == ClosingCalls(cl) # <<>>
    IN
    /\ MayCallClose(c) /\ cl.closing = "none"
    /\ Become(c, [PerformClose(cl) EXCEPT
                     !.closing = IF called THEN "called" ELSE "idle"])
    /\ Transmit(c, ClosingCalls(cl))
    /\ UNCHANGED inbox

\* gcr_prompt_close: gcr_system_prompt_real_close.
RealClose(c) ==
    LET cl == client[c] IN
    /\ MayCallClose(c) /\ ~cl.closed
    /\ Become(c, PerformClose(cl))
    /\ Transmit(c, ClosingCalls(cl))
    /\ UNCHANGED inbox

-----------------------------------------------------------------------------
(* Replies.                                                                *)

\* on_bus_connected: the name is watched, the object exported, and
\* perform_init_async calls BeginPrompting.  Connecting may fail.
BusConnected(c, ok, present) ==
    LET cl == client[c]
        o == cl.op[OpenOp]
    IN
    /\ o.call = "connect" /\ Dispatched(cl, OpenOp)
    /\ \/ /\ o.cancelled \/ ~ok
          /\ Become(c, Complete(Put(cl, OpenOp, [o EXCEPT !.call = "none",
                          !.error = IF o.cancelled THEN "cancelled" ELSE "failed"]),
                        OpenOp))
          /\ UNCHANGED outbox
       \/ /\ ~o.cancelled /\ ok
          /\ Become(c, [Put(cl, OpenOp, [o EXCEPT !.call = "begin"])
                           EXCEPT !.exported = TRUE, !.owner = present])
          /\ Transmit(c, <<Begin>>)
    /\ UNCHANGED inbox

\* The call of an operation finishes as soon as its cancellable is cancelled:
\* BeginPrompting is called with the closure's, PerformPrompt with the
\* caller's.  Its reply, if any, is dropped when it comes.
CallCancelled(c, k) ==
    LET cl == client[c]
        o == cl.op[k]
    IN
    /\ Dispatched(cl, k)
    /\ \/ /\ o.call = "begin" /\ o.cancelled
          /\ Become(c, Complete(Put(cl, k, [o EXCEPT !.call = "none",
                                                     !.error = "cancelled"]), k))
       \/ /\ o.call = "perform" /\ o.userCancelled
          /\ Become(c, FailPerform(cl, k, "cancelled"))
    /\ UNCHANGED <<inbox, outbox>>

\* on_prompter_begin_prompting, and perform_init_async which then waits for
\* the first PromptReady.
ReceiveBeginReply(c) ==
    LET cl == client[c]
        o == cl.op[OpenOp]
        ok == Head(inbox[c]).ok
    IN
    /\ Got(c, "BeginReply")
    /\ Receive(c)
    /\ \/ /\ o.call = "begin" /\ ~o.cancelled /\ ok
          /\ Become(c, [Put(cl, OpenOp, [o EXCEPT !.call = "none", !.waiting = TRUE,
                                                  !.timeout = c \in Impatient])
                           EXCEPT !.begun = TRUE, !.pending = OpenOp])
       \/ /\ o.call = "begin" /\ (o.cancelled \/ ~ok)
          /\ Become(c, Complete(Put(cl, OpenOp, [o EXCEPT !.call = "none",
                          !.error = IF o.cancelled THEN "cancelled" ELSE "failed"]),
                        OpenOp))
       \/ /\ o.call # "begin"
          /\ UNCHANGED client
    /\ UNCHANGED outbox

\* on_perform_prompt_complete.
ReceivePerformReply(c) ==
    LET k == Head(client[c].awaited)
        cl == [client[c] EXCEPT !.awaited = Tail(@)]
        o == cl.op[k]
    IN
    /\ Got(c, "PerformReply")
    /\ Receive(c)
    /\ \/ /\ o.call = "perform" /\ Dispatched(cl, k)
          /\ ~o.userCancelled /\ Head(inbox[c]).ok
          /\ Become(c, Put(cl, k, [o EXCEPT !.call = "none",
                        !.waiting = cl.pending = k \/ o.idle > 0]))
       \/ /\ o.call = "perform" /\ Dispatched(cl, k)
          /\ o.userCancelled \/ ~Head(inbox[c]).ok
          /\ Become(c, FailPerform(cl, k, IF o.userCancelled THEN "cancelled"
                                          ELSE "failed"))
       \/ /\ o.call # "perform" \/ ~Dispatched(cl, k)
          /\ Become(c, cl)
    /\ UNCHANGED outbox

\* on_prompter_stop_prompting.
ReceiveStopReply(c) ==
    LET cl == client[c] IN
    /\ Got(c, "StopReply")
    /\ Receive(c)
    /\ Become(c, [cl EXCEPT !.closing = IF @ = "called" THEN "done" ELSE @])
    /\ UNCHANGED outbox

-----------------------------------------------------------------------------
(* Method calls on the exported object, and the name watch.                *)

\* Mutant: the prompt stays pending when an answer arrives.
ReceivePromptReadyKeepsPending(c) ==
    LET cl == client[c]
        m == Head(inbox[c])
    IN
    /\ Got(c, "PromptReady") /\ cl.pending # NoOp
    /\ Receive(c)
    /\ Transmit(c, <<ReadyReply(cl.exported, m.from)>>)
    /\ Become(c, Complete([cl EXCEPT !.last = m.response,
                                     !.lastQuestion = m.question], cl.pending))

\* prompt_method_ready.  GDBus answers a call on an object that is not
\* exported with an error; without a pending operation the handler returns
\* without answering, as nobody does when no loop serves the object.
ReceivePromptReady(c) ==
    LET cl == client[c]
        m == Head(inbox[c])
    IN
    /\ Got(c, "PromptReady")
    /\ Receive(c)
    /\ \/ /\ ~cl.exported
          /\ Transmit(c, <<ReadyReply(FALSE, m.from)>>)
          /\ UNCHANGED client
       \/ /\ cl.exported
          /\ ~Serving(cl) \/ cl.pending = NoOp
          /\ UNCHANGED <<client, outbox>>
       \/ /\ cl.exported /\ Serving(cl)
          /\ cl.pending # NoOp
          /\ Transmit(c, <<ReadyReply(TRUE, m.from)>>)
          /\ Become(c, Complete([cl EXCEPT !.last = m.response,
                                           !.lastQuestion = m.question,
                                           !.pending = NoOp], cl.pending))

\* prompt_method_done.
ReceivePromptDone(c) ==
    LET cl == client[c] IN
    /\ Got(c, "PromptDone")
    /\ Receive(c)
    /\ \/ /\ cl.exported /\ Serving(cl)
          /\ Become(c, PerformClose([cl EXCEPT !.begun = FALSE]))
       \/ /\ ~cl.exported \/ ~Serving(cl)
          /\ UNCHANGED client
    /\ UNCHANGED outbox

\* on_prompter_vanished.  Every live result watches the name; the first to
\* hear of it clears prompt_owner and cancels its own operation, the others
\* see that there is no owner any more and do nothing.
ReceiveVanished(c) ==
    LET cl == client[c]
        watching == {k \in OpIndex : /\ Alive(cl, k) /\ Dispatched(cl, k)
                                     /\ cl.op[k].call # "connect"}
    IN
    /\ Got(c, "Vanished")
    /\ Receive(c)
    /\ \/ /\ cl.owner
          /\ \E k \in watching :
                /\ \A j \in watching : k <= j
                /\ Become(c, [Put(cl, k, [cl.op[k] EXCEPT !.cancelled = TRUE])
                                 EXCEPT !.owner = FALSE])
       \/ /\ ~cl.owner \/ watching = {}
          /\ UNCHANGED client
    /\ UNCHANGED outbox

-----------------------------------------------------------------------------
(* The sources of the main loop.                                           *)

\* The source of on_call_cancelled is due.  A synchronous question attaches this source to the
\* default main context (its CallClosure has no context), which the private
\* loop of the call does not run.
WaitingDue(cl, k) ==
    /\ Alive(cl, k) /\ cl.op[k].waiting /\ cl.op[k].cancelled
    /\ Dispatched(cl, k)
    /\ cl.sync => k = OpenOp

\* on_call_cancelled.
WaitingFires(c, k) ==
    LET cl == client[c]
        o == cl.op[k]
    IN
    /\ WaitingDue(cl, k)
    /\ Become(c, PerformClose(Put(cl, k, [o EXCEPT !.waiting = FALSE,
                                                   !.error = "cancelled"])))
    /\ Transmit(c, ClosingCalls(cl))
    /\ UNCHANGED inbox

\* on_call_timeout.  The prompt is closed, which completes the operation from
\* an idle callback, and the operation is completed at once as well.
TimeoutFires(c) ==
    LET cl == client[c]
        o == [cl.op[OpenOp] EXCEPT !.timeout = FALSE]
        closed == PerformClose(Put(cl, OpenOp, o))
    IN
    /\ o.started /\ cl.op[OpenOp].timeout
    /\ Alive(cl, OpenOp) /\ Dispatched(cl, OpenOp)
    /\ Become(c, Complete(Put(closed, OpenOp,
                    [closed.op[OpenOp] EXCEPT !.error = "in-progress"]), OpenOp))
    /\ Transmit(c, ClosingCalls(cl))
    /\ UNCHANGED inbox

\* The callback of complete_in_idle, for an operation and for closing.  The
\* source of the cancellable has the same priority and is dispatched before.
IdleFires(c, k) ==
    LET cl == client[c]
        o == cl.op[k]
    IN
    /\ o.idle > 0 /\ Dispatched(cl, k)
    /\ ~WaitingDue(cl, k)
    /\ Become(c, Complete(Put(cl, k, [o EXCEPT !.idle = @ - 1]), k))
    /\ UNCHANGED <<inbox, outbox>>

CloseIdleFires(c) ==
    LET cl == client[c] IN
    /\ cl.closing = "idle"
    /\ Become(c, [cl EXCEPT !.closing = "done"])
    /\ UNCHANGED <<inbox, outbox>>
=============================================================================
