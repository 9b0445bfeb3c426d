------------------------- MODULE PromptProtocolProofs -------------------------
(***************************************************************************)
(* A closed prompt holds nothing, for any number of prompts, questions and  *)
(* objects, whatever the prompter, the bus, the callers and the user do.    *)
(*                                                                         *)
(* perform_close leaves a prompt clean; what could spoil it afterwards is   *)
(* the part of opening that is still to come: on_bus_connected exports the  *)
(* object and on_prompter_begin_prompting makes the prompt begun.  So a     *)
(* prompt that is still being opened must not have been closed, and what    *)
(* closes a prompt from outside is PromptDone: the invariant follows the    *)
(* channels to show that none arrives before the reply to BeginPrompting.   *)
(*                                                                         *)
(* The second part shows that a prompt that waits for an answer is on the   *)
(* screen, or has a message on its way: first for prompts on which no call  *)
(* was cancelled or has failed, where the messages follow one another, then *)
(* for all.                                                                 *)
(***************************************************************************)
EXTENDS PromptProtocol, TLAPS

-----------------------------------------------------------------------------
(* One prompt.                                                             *)

ClientFields == {"begun", "closed", "exported", "owner", "pending", "last",
                 "lastQuestion", "awaited", "closing", "sync", "op"}

OpFields == {"started", "call", "userCancelled", "cancelled", "waiting", "timeout",
             "idle", "error", "leaked", "completions", "outcome", "answered"}

\* The fields of an operation and of a prompt, with the types that matter.
OpShape(o) ==
    /\ DOMAIN o = OpFields
    /\ o.started \in BOOLEAN /\ o.waiting \in BOOLEAN /\ o.timeout \in BOOLEAN

Shape(cl) ==
    /\ DOMAIN cl = ClientFields
    /\ cl.begun \in BOOLEAN /\ cl.closed \in BOOLEAN /\ cl.exported \in BOOLEAN
    /\ cl.pending \in OpIndex \cup {NoOp}
    /\ DOMAIN cl.op = OpIndex
    /\ \A k \in OpIndex : OpShape(cl.op[k])

\* What opening has come to: fresh until the bus is there, then beginning
\* until BeginPrompting has an answer.
Fresh(cl) == ~cl.op[OpenOp].started \/ cl.op[OpenOp].call = "connect"
Beginning(cl) == cl.op[OpenOp].call = "begin"

Clean(cl) == cl.closed => cl.pending = NoOp /\ ~cl.exported /\ ~cl.begun

\* A prompt that is being opened has nothing to be closed for.
Unopened(cl) ==
    LET o == cl.op[OpenOp] IN
    /\ ~cl.closed /\ ~cl.begun /\ cl.pending = NoOp
    /\ o.error = "none" /\ o.outcome = "none" /\ o.idle = 0
    /\ ~o.waiting /\ ~o.timeout
    /\ \A k \in Questions : ~cl.op[k].started

\* Opening fails, and is completed from an idle callback, only in a prompt
\* that is closed.
OpenWell(cl) ==
    LET o == cl.op[OpenOp] IN
    /\ o.error # "none" => cl.closed
    /\ o.idle # 0 => cl.closed
    /\ o.call # "perform"
    /\ o.call \in {"connect", "begin"} => o.started

ClientWell(cl) ==
    /\ Shape(cl) /\ Clean(cl) /\ OpenWell(cl)
    /\ Fresh(cl) \/ Beginning(cl) => Unopened(cl)

\* d is cl but for what does not matter here: nothing is opened or closed.
Alike(cl, d) ==
    LET o == cl.op[OpenOp]
        p == d.op[OpenOp]
    IN
    /\ d.begun = cl.begun /\ d.closed = cl.closed /\ d.exported = cl.exported
    /\ d.pending \in {cl.pending, NoOp}
    /\ p.started = o.started /\ p.call = o.call /\ p.error = o.error
    /\ p.idle = o.idle /\ p.outcome = o.outcome
    /\ p.waiting = o.waiting /\ p.timeout = o.timeout
    /\ \A k \in Questions : d.op[k].started = cl.op[k].started

LEMMA Indices == /\ OpenOp \in OpIndex /\ NoOp \notin OpIndex
                 /\ Questions = OpIndex \ {OpenOp}
BY PerformAssumption DEF OpenOp, NoOp, OpIndex, Questions

LEMMA AlikeWell ==
    ASSUME NEW cl, NEW d, ClientWell(cl), Shape(d), Alike(cl, d)
    PROVE  /\ ClientWell(d)
           /\ Fresh(d) => Fresh(cl)
           /\ Beginning(d) => Beginning(cl)
<1>1. /\ Fresh(d) <=> Fresh(cl)
      /\ Beginning(d) <=> Beginning(cl)
  BY Indices DEF Shape, OpShape, Alike, Fresh, Beginning, ClientWell
<1>2. Clean(d)
  BY DEF ClientWell, Clean, Alike, Shape
<1>3. OpenWell(d)
  BY Indices DEF ClientWell, OpenWell, Alike, Shape, OpShape
<1>4. ASSUME Fresh(d) \/ Beginning(d) PROVE Unopened(d)
  <2>1. Unopened(cl)
    BY <1>1, <1>4 DEF ClientWell
  <2>2. QED
    BY <2>1, Indices DEF Unopened, Alike, Shape, OpShape, ClientWell
<1>5. QED
  BY <1>1, <1>2, <1>3, <1>4 DEF ClientWell

LEMMA AlikeSame == ASSUME NEW cl PROVE Alike(cl, cl)
BY DEF Alike

LEMMA AlikeTrans ==
    ASSUME NEW cl, NEW d, NEW e, Alike(cl, d), Alike(d, e)
    PROVE  Alike(cl, e)
BY DEF Alike

\* What Put does.
LEMMA PutFields ==
    ASSUME NEW cl, Shape(cl), NEW k, NEW o, k \in OpIndex => OpShape(o)
    PROVE  LET d == Put(cl, k, o) IN
           /\ Shape(d)
           /\ k \in OpIndex => d.op[k] = o
           /\ \A j \in OpIndex : j # k => d.op[j] = cl.op[j]
           /\ \A n \in ClientFields : n # "op" => d[n] = cl[n]
<1> DEFINE d == Put(cl, k, o)
<1>1. /\ DOMAIN d = ClientFields
      /\ d.op = With(cl.op, k, o)
      /\ \A n \in ClientFields : n # "op" => d[n] = cl[n]
  BY DEF Put, Shape, ClientFields
<1>2. /\ DOMAIN d.op = OpIndex
      /\ k \in OpIndex => d.op[k] = o
      /\ \A j \in OpIndex : j # k => d.op[j] = cl.op[j]
  BY <1>1 DEF With, Shape
<1> HIDE DEF d
<1>3. Shape(d)
  BY <1>1, <1>2 DEF Shape, ClientFields
<1>4. QED
  BY <1>1, <1>2, <1>3 DEF d

\* A put that keeps whether the operation was started, of an operation other
\* than opening.
LEMMA PutOther ==
    ASSUME NEW cl, Shape(cl), NEW k, k # OpenOp, NEW o,
           k \in OpIndex => OpShape(o) /\ o.started = cl.op[k].started
    PROVE  Shape(Put(cl, k, o)) /\ Alike(cl, Put(cl, k, o))
<1> DEFINE d == Put(cl, k, o)
<1>1. /\ Shape(d)
      /\ k \in OpIndex => d.op[k] = o
      /\ \A j \in OpIndex : j # k => d.op[j] = cl.op[j]
      /\ \A n \in ClientFields : n # "op" => d[n] = cl[n]
  BY PutFields
<1> HIDE DEF d
<1>2. /\ d.begun = cl.begun /\ d.closed = cl.closed /\ d.exported = cl.exported
      /\ d.pending = cl.pending
  BY <1>1 DEF ClientFields
<1>3. d.op[OpenOp] = cl.op[OpenOp]
  BY <1>1, Indices
<1>4. \A j \in Questions : d.op[j].started = cl.op[j].started
  BY <1>1, Indices
<1>5. Alike(cl, d)
  BY <1>2, <1>3, <1>4 DEF Alike
<1>6. QED
  BY <1>1, <1>5 DEF d

\* The operation that told its caller.
Told(o, out, answered) ==
    [o EXCEPT !.completions = @ + 1,
              !.outcome = IF o.completions = 0 THEN out ELSE @,
              !.answered = IF o.completions = 0 /\ out = "continue" THEN answered ELSE @]

LEMMA CompleteOther ==
    ASSUME NEW cl, Shape(cl), NEW k, k # OpenOp
    PROVE  Shape(Complete(cl, k)) /\ Alike(cl, Complete(cl, k))
<1>1. PICK out : Complete(cl, k) = Put(cl, k, Told(cl.op[k], out, cl.lastQuestion))
  BY DEF Complete, Told
<1>2. ASSUME k \in OpIndex
      PROVE  LET o == Told(cl.op[k], out, cl.lastQuestion) IN
             OpShape(o) /\ o.started = cl.op[k].started
  BY <1>2 DEF Told, Shape, OpShape, OpFields
<1>3. QED
  BY <1>1, <1>2, PutOther

\* perform_close, whatever is pending.
Closed(cl) == Shape(cl) /\ cl.closed /\ cl.pending = NoOp /\ ~cl.exported /\ ~cl.begun

LEMMA PerformCloseCloses ==
    ASSUME NEW cl, Shape(cl)
    PROVE  LET d == PerformClose(cl) IN
           /\ Closed(d)
           /\ \A k \in OpIndex : /\ d.op[k].started = cl.op[k].started
                                 /\ d.op[k].call = cl.op[k].call
                                 /\ d.op[k].error = cl.op[k].error
<1> DEFINE cut == [cl EXCEPT !.closed = TRUE, !.pending = NoOp, !.exported = FALSE,
                             !.begun = FALSE]
           d == PerformClose(cl)
           p == cl.pending
           o == [cl.op[p] EXCEPT !.cancelled = TRUE, !.idle = @ + 1]
<1>1. Closed(cut) /\ cut.op = cl.op
  BY DEF Closed, Shape, ClientFields
<1> HIDE DEF cut
<1>2. CASE p = NoOp
  BY <1>1, <1>2 DEF PerformClose, cut
<1>3. CASE p # NoOp
  <2>1. p \in OpIndex
    BY <1>3 DEF Shape
  <2>2. /\ OpShape(o) /\ o.started = cl.op[p].started /\ o.call = cl.op[p].call
        /\ o.error = cl.op[p].error
    BY <2>1 DEF Shape, OpShape, OpFields
  <2>3. d = Put(cut, p, o)
    BY <1>3 DEF PerformClose, cut
  <2> HIDE DEF o, d
  <2>4. /\ Shape(d)
        /\ d.op[p] = o
        /\ \A j \in OpIndex : j # p => d.op[j] = cl.op[j]
        /\ \A n \in ClientFields : n # "op" => d[n] = cut[n]
    BY <1>1, <2>1, <2>2, <2>3, PutFields DEF Closed
  <2>5. d.closed /\ d.pending = NoOp /\ ~d.exported /\ ~d.begun
    BY <1>1, <2>4 DEF Closed, ClientFields
  <2>6. QED
    BY <2>2, <2>4, <2>5 DEF Closed, d
<1>4. QED
  BY <1>2, <1>3

\* A prompt that has got an answer to BeginPrompting may be closed.
LEMMA ClosedWell ==
    ASSUME NEW cl, Closed(cl), cl.op[OpenOp].started,
           cl.op[OpenOp].call \notin {"connect", "begin", "perform"}
    PROVE  ClientWell(cl) /\ ~Fresh(cl) /\ ~Beginning(cl)
<1>1. Shape(cl) /\ Clean(cl)
  BY DEF Closed, Clean
<1>2. OpenWell(cl)
  BY DEF Closed, OpenWell
<1>3. ~Fresh(cl) /\ ~Beginning(cl)
  BY DEF Fresh, Beginning
<1>4. QED
  BY <1>1, <1>2, <1>3 DEF ClientWell

LEMMA PerformCloseWell ==
    ASSUME NEW cl, Shape(cl), cl.op[OpenOp].started,
           cl.op[OpenOp].call \notin {"connect", "begin", "perform"}
    PROVE  /\ Closed(PerformClose(cl)) /\ ClientWell(PerformClose(cl))
           /\ ~Fresh(PerformClose(cl)) /\ ~Beginning(PerformClose(cl))
<1> DEFINE d == PerformClose(cl)
<1>1. /\ Closed(d) /\ d.op[OpenOp].started = cl.op[OpenOp].started
      /\ d.op[OpenOp].call = cl.op[OpenOp].call
  BY PerformCloseCloses, Indices
<1> HIDE DEF d
<1>2. QED
  BY <1>1, ClosedWell DEF d

\* Completing opening in a prompt that holds nothing.
LEMMA CompleteOpen ==
    ASSUME NEW cl, Shape(cl), cl.pending = NoOp, ~cl.begun, cl.op[OpenOp].started,
           cl.op[OpenOp].call \notin {"connect", "begin", "perform"},
           cl.closed \/ cl.op[OpenOp].error # "none", Clean(cl)
    PROVE  LET d == Complete(cl, OpenOp) IN
           ClientWell(d) /\ ~Fresh(d) /\ ~Beginning(d)
<1> DEFINE d == Complete(cl, OpenOp)
           cut == [cl EXCEPT !.closed = TRUE, !.exported = FALSE]
           disposed == IF cl.op[OpenOp].error # "none" THEN cut ELSE cl
<1>1. PICK out : d = Put(disposed, OpenOp, Told(cl.op[OpenOp], out, cl.lastQuestion))
  BY DEF Complete, Told
<1>2. Closed(disposed)
  <2>1. Closed(cut)
    BY DEF Closed, Shape, ClientFields
  <2>2. ASSUME cl.op[OpenOp].error = "none" PROVE Closed(cl)
    BY <2>2 DEF Closed, Clean
  <2>3. QED
    BY <2>1, <2>2
<1> DEFINE o == Told(cl.op[OpenOp], out, cl.lastQuestion)
<1>3. /\ OpShape(o) /\ o.started = cl.op[OpenOp].started
      /\ o.call = cl.op[OpenOp].call
  BY Indices DEF Told, Shape, OpShape, OpFields
<1> HIDE DEF d, disposed, o
<1>4. /\ Shape(d) /\ d.op[OpenOp] = o
      /\ \A n \in ClientFields : n # "op" => d[n] = disposed[n]
  BY <1>1, <1>2, <1>3, PutFields, Indices DEF Closed, o
<1>5. Closed(d)
  BY <1>2, <1>4 DEF Closed, ClientFields
<1>6. QED
  BY <1>3, <1>4, <1>5, ClosedWell DEF d

\* on_perform_prompt_complete with an error, which never is about opening.
LEMMA FailPerformAlike ==
    ASSUME NEW cl, Shape(cl), NEW k, NEW error, k # OpenOp
    PROVE  Shape(FailPerform(cl, k, error)) /\ Alike(cl, FailPerform(cl, k, error))
<1> DEFINE o == [cl.op[k] EXCEPT !.call = "none", !.error = error]
           d1 == Put(cl, k, o)
           d2 == [d1 EXCEPT !.pending = NoOp]
           p == cl.pending
           d3 == Leak(d2, p)
<1>1. k \in OpIndex => OpShape(o) /\ o.started = cl.op[k].started
  BY DEF Shape, OpShape, OpFields
<1>2. Shape(d1) /\ Alike(cl, d1)
  BY <1>1, PutOther
<1>3. FailPerform(cl, k, error) = Complete(d3, k)
  BY DEF FailPerform
<1> HIDE DEF o, d1
<1>4. /\ Shape(d2) /\ d2.op = d1.op /\ d2.begun = d1.begun /\ d2.closed = d1.closed
      /\ d2.exported = d1.exported /\ d2.pending = NoOp
  BY <1>2 DEF Shape, ClientFields
<1>5. Alike(d1, d2)
  BY <1>4 DEF Alike
<1> HIDE DEF d2
<1>6. Shape(d3) /\ Alike(d2, d3)
  <2>1. CASE p = NoOp
    BY <1>4, <2>1, AlikeSame DEF Leak
  <2>2. CASE p # NoOp
    <3> DEFINE q == [d2.op[p] EXCEPT !.leaked = TRUE]
    <3>1. p \in OpIndex
      BY <2>2 DEF Shape
    <3>2. /\ OpShape(q) /\ q.started = d2.op[p].started /\ q.call = d2.op[p].call
          /\ q.error = d2.op[p].error /\ q.idle = d2.op[p].idle
          /\ q.outcome = d2.op[p].outcome /\ q.waiting = d2.op[p].waiting
          /\ q.timeout = d2.op[p].timeout
      BY <1>4, <3>1 DEF Shape, OpShape, OpFields
    <3>3. d3 = Put(d2, p, q)
      BY <2>2 DEF Leak
    <3> HIDE DEF q, d3
    <3>4. /\ Shape(d3) /\ d3.op[p] = q
          /\ \A j \in OpIndex : j # p => d3.op[j] = d2.op[j]
          /\ \A n \in ClientFields : n # "op" => d3[n] = d2[n]
      BY <1>4, <3>1, <3>2, <3>3, PutFields
    <3>5. /\ d3.begun = d2.begun /\ d3.closed = d2.closed
          /\ d3.exported = d2.exported /\ d3.pending = d2.pending
      BY <3>4 DEF ClientFields
    <3>6. QED
      BY <3>1, <3>2, <3>4, <3>5, Indices DEF Alike
  <2>3. QED
    BY <2>1, <2>2
<1>7. Shape(Complete(d3, k)) /\ Alike(d3, Complete(d3, k))
  BY <1>6, CompleteOther
<1>8. QED
  BY <1>2, <1>3, <1>5, <1>6, <1>7, AlikeTrans

\* prompt_method_ready completes the pending operation.
LEMMA CompletePending ==
    ASSUME NEW cl, ClientWell(cl), cl.pending # NoOp, NEW r, NEW q
    PROVE  LET d == Complete([cl EXCEPT !.last = r, !.lastQuestion = q,
                                        !.pending = NoOp], cl.pending)
           IN  ClientWell(d) /\ ~Fresh(d) /\ ~Beginning(d)
<1> DEFINE e == [cl EXCEPT !.last = r, !.lastQuestion = q, !.pending = NoOp]
           p == cl.pending
           d == Complete(e, p)
<1>1. /\ ~Fresh(cl) /\ ~Beginning(cl)
      /\ ~cl.closed /\ cl.op[OpenOp].error = "none" /\ cl.op[OpenOp].idle = 0
      /\ cl.op[OpenOp].call # "perform" /\ cl.op[OpenOp].started
  BY Indices DEF ClientWell, Unopened, Clean, OpenWell, Shape, OpShape, Fresh
<1>2. /\ Shape(e) /\ e.op = cl.op /\ e.begun = cl.begun /\ e.closed = cl.closed
      /\ e.exported = cl.exported /\ e.pending = NoOp
  BY DEF ClientWell, Shape, ClientFields
<1>3. Alike(cl, e)
  BY <1>2 DEF Alike
<1>4. d = Complete(e, p)
  OBVIOUS
<1> HIDE DEF e, d
<1>5. CASE p # OpenOp
  <2>1. Shape(d) /\ Alike(e, d)
    BY <1>2, <1>4, <1>5, CompleteOther
  <2>2. ClientWell(d) /\ ~Fresh(d) /\ ~Beginning(d)
    BY <1>1, <1>3, <2>1, AlikeTrans, AlikeWell
  <2>3. QED
    BY <2>2 DEF d, e
<1>6. CASE p = OpenOp
  <2>1. PICK out : d = Put(e, OpenOp, Told(e.op[OpenOp], out, e.lastQuestion))
    BY <1>1, <1>2, <1>4, <1>6 DEF Complete, Told
  <2> DEFINE o == Told(e.op[OpenOp], out, e.lastQuestion)
  <2>2. /\ OpShape(o) /\ o.started = cl.op[OpenOp].started
        /\ o.call = cl.op[OpenOp].call /\ o.error = cl.op[OpenOp].error
        /\ o.idle = cl.op[OpenOp].idle
    BY <1>2, Indices DEF Told, Shape, OpShape, OpFields
  <2>3. d = Put(e, OpenOp, o)
    BY <2>1
  <2> HIDE DEF o
  <2>4. /\ Shape(d) /\ d.op[OpenOp] = o
        /\ \A n \in ClientFields : n # "op" => d[n] = e[n]
    BY <1>2, <2>2, <2>3, PutFields, Indices
  <2>5. ~d.closed
    BY <1>1, <1>2, <2>4 DEF ClientFields
  <2>6. ~Fresh(d) /\ ~Beginning(d)
    BY <1>1, <2>2, <2>4 DEF Fresh, Beginning
  <2>7. Clean(d) /\ OpenWell(d)
    BY <1>1, <2>2, <2>4, <2>5 DEF Clean, OpenWell, Fresh
  <2>8. QED
    BY <2>4, <2>6, <2>7 DEF ClientWell, d, e
<1>7. QED
  BY <1>5, <1>6

-----------------------------------------------------------------------------
(* The steps of a prompt.                                                  *)

\* What a step makes of a prompt is well, and no further from being opened.
Advances(cl, d) ==
    /\ ClientWell(d)
    /\ Fresh(d) => Fresh(cl)
    /\ Beginning(d) => Beginning(cl)

LEMMA AlikeAdvances ==
    ASSUME NEW cl, ClientWell(cl), NEW d, Shape(d), Alike(cl, d)
    PROVE  Advances(cl, d)
BY AlikeWell DEF Advances

\* Fields that do not matter here.
LEMMA MinorFields ==
    ASSUME NEW cl, ClientWell(cl), NEW d, DOMAIN d = ClientFields, d.op = cl.op,
           d.begun = cl.begun, d.closed = cl.closed, d.exported = cl.exported,
           d.pending = cl.pending
    PROVE  Shape(d) /\ Alike(cl, d) /\ Advances(cl, d)
<1>1. Shape(d)
  BY DEF ClientWell, Shape
<1>2. Alike(cl, d)
  BY DEF Alike
<1>3. QED
  BY <1>1, <1>2, AlikeAdvances

\* Puts of opening that leave what matters.
LEMMA PutOpenAlike ==
    ASSUME NEW cl, Shape(cl), NEW o, OpShape(o),
           o.started = cl.op[OpenOp].started, o.call = cl.op[OpenOp].call,
           o.error = cl.op[OpenOp].error, o.idle = cl.op[OpenOp].idle,
           o.outcome = cl.op[OpenOp].outcome, o.waiting = cl.op[OpenOp].waiting,
           o.timeout = cl.op[OpenOp].timeout
    PROVE  Shape(Put(cl, OpenOp, o)) /\ Alike(cl, Put(cl, OpenOp, o))
<1> DEFINE d == Put(cl, OpenOp, o)
<1>1. /\ Shape(d) /\ d.op[OpenOp] = o
      /\ \A j \in OpIndex : j # OpenOp => d.op[j] = cl.op[j]
      /\ \A n \in ClientFields : n # "op" => d[n] = cl[n]
  BY PutFields, Indices
<1> HIDE DEF d
<1>2. /\ d.begun = cl.begun /\ d.closed = cl.closed
      /\ d.exported = cl.exported /\ d.pending = cl.pending
  BY <1>1 DEF ClientFields
<1>3. Alike(cl, d)
  BY <1>1, <1>2, Indices DEF Alike
<1>4. QED
  BY <1>1, <1>3 DEF d

\* Cancelling an operation.
LEMMA CancelAlike ==
    ASSUME NEW cl, ClientWell(cl), NEW k \in OpIndex, NEW o,
           \/ o = [cl.op[k] EXCEPT !.cancelled = TRUE]
           \/ o = [cl.op[k] EXCEPT !.userCancelled = TRUE, !.cancelled = TRUE]
    PROVE  Shape(Put(cl, k, o)) /\ Alike(cl, Put(cl, k, o))
<1>1. Shape(cl)
  BY DEF ClientWell
<1>2. /\ OpShape(o) /\ o.started = cl.op[k].started /\ o.call = cl.op[k].call
      /\ o.error = cl.op[k].error /\ o.idle = cl.op[k].idle
      /\ o.outcome = cl.op[k].outcome /\ o.waiting = cl.op[k].waiting
      /\ o.timeout = cl.op[k].timeout
  BY <1>1 DEF Shape, OpShape, OpFields
<1>3. CASE k = OpenOp
  BY <1>1, <1>2, <1>3, PutOpenAlike
<1>4. CASE k # OpenOp
  BY <1>1, <1>2, <1>4, PutOther
<1>5. QED
  BY <1>3, <1>4

\* Opening fails while it is under way: the prompt is disposed of.
LEMMA OpeningFails ==
    ASSUME NEW cl, ClientWell(cl), cl.op[OpenOp].call \in {"connect", "begin"},
           NEW error, error # "none"
    PROVE  LET d == Complete(Put(cl, OpenOp, [cl.op[OpenOp] EXCEPT
                                !.call = "none", !.error = error]), OpenOp)
           IN  Advances(cl, d) /\ ~Fresh(d) /\ ~Beginning(d)
<1> DEFINE o == [cl.op[OpenOp] EXCEPT !.call = "none", !.error = error]
           d == Put(cl, OpenOp, o)
<1>1. /\ Shape(cl) /\ ~cl.closed /\ ~cl.begun /\ cl.pending = NoOp
      /\ cl.op[OpenOp].started
  BY DEF ClientWell, Unopened, OpenWell, Fresh, Beginning
<1>2. OpShape(o) /\ o.started = cl.op[OpenOp].started /\ o.call = "none" /\ o.error = error
  BY <1>1, Indices DEF Shape, OpShape, OpFields
<1> HIDE DEF o
<1>3. /\ Shape(d) /\ d.op[OpenOp] = o
      /\ \A n \in ClientFields : n # "op" => d[n] = cl[n]
  BY <1>1, <1>2, PutFields, Indices
<1> HIDE DEF d
<1>4. ~d.closed /\ ~d.begun /\ d.pending = NoOp
  BY <1>1, <1>3 DEF ClientFields
<1>5. Clean(d)
  BY <1>4 DEF Clean
<1>6. ClientWell(Complete(d, OpenOp)) /\ ~Fresh(Complete(d, OpenOp))
      /\ ~Beginning(Complete(d, OpenOp))
  BY <1>1, <1>2, <1>3, <1>4, <1>5, CompleteOpen
<1>7. QED
  BY <1>6 DEF Advances, d, o

\* Opening gets ahead: to a call of BeginPrompting, or to its answer.
LEMMA OpeningGoesOn ==
    ASSUME NEW cl, ClientWell(cl), cl.op[OpenOp].call \in {"connect", "begin"},
           NEW o, OpShape(o), o.started, o.error = "none", o.idle = 0,
           NEW d, DOMAIN d = ClientFields, d.op = With(cl.op, OpenOp, o),
           ~d.closed, d.begun \in BOOLEAN, d.exported \in BOOLEAN,
           d.closed \in BOOLEAN, d.pending \in OpIndex \cup {NoOp},
           \/ o.call = "none"
           \/ /\ o.call = "begin" /\ o.outcome = "none" /\ ~o.waiting /\ ~o.timeout
              /\ ~d.begun /\ d.pending = NoOp
    PROVE  ClientWell(d) /\ ~Fresh(d) /\ (Beginning(d) => o.call = "begin")
<1>1. Shape(cl) /\ Unopened(cl)
  BY DEF ClientWell, Fresh, Beginning
<1>2. /\ DOMAIN d.op = OpIndex /\ d.op[OpenOp] = o
      /\ \A j \in OpIndex : j # OpenOp => d.op[j] = cl.op[j]
  BY <1>1, Indices DEF With, Shape
<1>3. Shape(d)
  BY <1>1, <1>2 DEF Shape
<1>4. Clean(d) /\ OpenWell(d) /\ ~Fresh(d)
  BY <1>2 DEF Clean, OpenWell, Fresh
<1>5. Beginning(d) => o.call = "begin" /\ Unopened(d)
  BY <1>1, <1>2, Indices DEF Beginning, Unopened
<1>6. QED
  BY <1>3, <1>4, <1>5 DEF ClientWell

Moves(c) == \/ client' = client
            \/ \E d : client' = With(client, c, d) /\ Advances(client[c], d)

LEMMA BecomeMoves ==
    ASSUME NEW c, NEW d, Become(c, d), Advances(client[c], d)
    PROVE  Moves(c)
BY DEF Moves, Become

\* gcr_system_prompt_open_async.
LEMMA OpenMoves ==
    ASSUME NEW c, ClientWell(client[c]), Open(c)
    PROVE  Moves(c)
<1> DEFINE cl == client[c]
           o == [NewOp EXCEPT !.started = TRUE, !.call = "connect"]
           d == Put(cl, OpenOp, o)
<1>1. Become(c, d) /\ ~cl.op[OpenOp].started
  BY DEF Open
<1>2. Shape(cl) /\ Fresh(cl) /\ Unopened(cl)
  BY <1>1 DEF ClientWell, Fresh
<1>3. /\ OpShape(o) /\ o.started /\ o.call = "connect" /\ o.error = "none"
      /\ o.outcome = "none" /\ o.idle = 0 /\ ~o.waiting /\ ~o.timeout
  BY DEF NewOp, OpShape, OpFields
<1> HIDE DEF o
<1>4. /\ Shape(d) /\ d.op[OpenOp] = o
      /\ \A j \in OpIndex : j # OpenOp => d.op[j] = cl.op[j]
      /\ \A n \in ClientFields : n # "op" => d[n] = cl[n]
  BY <1>2, <1>3, PutFields, Indices
<1> HIDE DEF d
<1>5. ~d.closed /\ ~d.begun /\ d.pending = NoOp
  BY <1>2, <1>4 DEF ClientFields, Unopened
<1>6. Unopened(d)
  BY <1>2, <1>3, <1>4, <1>5, Indices DEF Unopened
<1>7. Clean(d) /\ OpenWell(d) /\ ~Beginning(d)
  BY <1>3, <1>4, <1>5 DEF Clean, OpenWell, Beginning
<1>8. Advances(cl, d)
  BY <1>2, <1>4, <1>6, <1>7 DEF Advances, ClientWell
<1> HIDE DEF cl
<1>9. QED
  BY <1>1, <1>8, BecomeMoves DEF cl

\* perform_prompt_async: the prompt is open, and the operation is new.
LEMMA PerformMoves ==
    ASSUME NEW c, ClientWell(client[c]), NEW k \in Questions, NEW b \in BOOLEAN,
           PerformPromptAsync(c, k, b)
    PROVE  Moves(c)
<1> DEFINE cl == client[c]
           o == [NewOp EXCEPT !.started = TRUE, !.userCancelled = b, !.cancelled = b]
<1>1. /\ cl.op[OpenOp].outcome = "opened" /\ cl.pending = NoOp
      /\ \/ /\ cl.closed
            /\ Become(c, [Put(cl, k, [o EXCEPT !.idle = 1]) EXCEPT !.last = "none"])
         \/ /\ ~cl.closed
            /\ Become(c, [Put(cl, k, [o EXCEPT !.call = "perform"])
                           EXCEPT !.pending = k, !.exported = TRUE,
                                  !.awaited = IF b THEN @ ELSE Append(@, k)])
  BY DEF PerformPromptAsync
<1>2. Shape(cl) /\ Clean(cl) /\ OpenWell(cl) /\ ~Fresh(cl) /\ ~Beginning(cl)
  BY <1>1 DEF ClientWell, Unopened
<1>3. k \in OpIndex /\ k # OpenOp
  BY Indices
<1>4. ASSUME NEW p, OpShape(p), NEW d, DOMAIN d = ClientFields,
             d.op = Put(cl, k, p).op, d.begun = cl.begun, d.closed = cl.closed,
             d.exported \in BOOLEAN, d.pending \in OpIndex \cup {NoOp},
             d.closed => d.exported = cl.exported /\ d.pending = cl.pending
      PROVE  Advances(cl, d)
  <2> DEFINE e == Put(cl, k, p)
  <2>1. /\ Shape(e)
        /\ \A j \in OpIndex : j # k => e.op[j] = cl.op[j]
    BY <1>2, <1>4, PutFields
  <2> HIDE DEF e
  <2>2. d.op = e.op
    BY <1>4 DEF e
  <2>3. d.op[OpenOp] = cl.op[OpenOp]
    BY <1>3, <2>1, <2>2, Indices
  <2>4. Shape(d)
    BY <1>2, <1>4, <2>1, <2>2 DEF Shape
  <2>5. Clean(d)
    BY <1>2, <1>4 DEF Clean
  <2>6. OpenWell(d) /\ ~Fresh(d) /\ ~Beginning(d)
    BY <1>2, <1>4, <2>3 DEF OpenWell, Fresh, Beginning
  <2>7. QED
    BY <2>4, <2>5, <2>6 DEF Advances, ClientWell
<1>5. CASE cl.closed
  <2> DEFINE p == [o EXCEPT !.idle = 1]
             e == Put(cl, k, p)
             d == [e EXCEPT !.last = "none"]
  <2>1. OpShape(p)
    BY DEF NewOp, OpShape, OpFields
  <2> HIDE DEF p
  <2>2. Shape(e) /\ \A n \in ClientFields : n # "op" => e[n] = cl[n]
    BY <1>2, <2>1, PutFields
  <2> HIDE DEF e
  <2>3. /\ DOMAIN d = ClientFields /\ d.op = e.op
        /\ d.begun = e.begun /\ d.closed = e.closed /\ d.exported = e.exported
        /\ d.pending = e.pending
    BY <2>2 DEF Shape, ClientFields
  <2>4. /\ e.begun = cl.begun /\ e.closed = cl.closed /\ e.exported = cl.exported
        /\ e.pending = cl.pending
    BY <2>2 DEF ClientFields
  <2>5. Become(c, d)
    BY <1>1, <1>5 DEF e, p
  <2> HIDE DEF d
  <2>6. d.exported \in BOOLEAN /\ d.pending \in OpIndex \cup {NoOp}
    BY <1>2, <2>3, <2>4 DEF Shape
  <2>7. Advances(cl, d)
    BY <1>4, <2>1, <2>3, <2>4, <2>6 DEF e
  <2> HIDE DEF cl
  <2>8. QED
    BY <2>5, <2>7, BecomeMoves DEF cl
<1>6. CASE ~cl.closed
  <2> DEFINE p == [o EXCEPT !.call = "perform"]
             e == Put(cl, k, p)
             d == [e EXCEPT !.pending = k, !.exported = TRUE,
                            !.awaited = IF b THEN @ ELSE Append(@, k)]
  <2>1. OpShape(p)
    BY DEF NewOp, OpShape, OpFields
  <2> HIDE DEF p
  <2>2. Shape(e) /\ \A n \in ClientFields : n # "op" => e[n] = cl[n]
    BY <1>2, <2>1, PutFields
  <2> HIDE DEF e
  <2>3. /\ DOMAIN d = ClientFields /\ d.op = e.op
        /\ d.begun = e.begun /\ d.closed = e.closed /\ d.exported \in BOOLEAN
        /\ d.pending = k
    BY <2>2 DEF Shape, ClientFields
  <2>4. e.begun = cl.begun /\ e.closed = cl.closed
    BY <2>2 DEF ClientFields
  <2>5. Become(c, d)
    BY <1>1, <1>6 DEF e, p
  <2> HIDE DEF d
  <2>6. Advances(cl, d)
    BY <1>3, <1>4, <1>6, <2>1, <2>3, <2>4 DEF e
  <2> HIDE DEF cl
  <2>7. QED
    BY <2>5, <2>6, BecomeMoves DEF cl
<1>7. QED
  BY <1>1, <1>5, <1>6

\* A prompt past opening, and what closing makes of it.
LEMMA PastOpening ==
    ASSUME NEW cl, ClientWell(cl), ~Fresh(cl), ~Beginning(cl)
    PROVE  /\ Shape(cl) /\ cl.op[OpenOp].started
           /\ cl.op[OpenOp].call \notin {"connect", "begin", "perform"}
BY Indices DEF ClientWell, Shape, OpShape, OpenWell, Fresh, Beginning

LEMMA CloseAdvances ==
    ASSUME NEW cl, ClientWell(cl), ~Fresh(cl), ~Beginning(cl)
    PROVE  Advances(cl, PerformClose(cl))
<1>1. /\ ClientWell(PerformClose(cl)) /\ ~Fresh(PerformClose(cl))
      /\ ~Beginning(PerformClose(cl))
  BY PastOpening, PerformCloseWell
<1>2. QED
  BY <1>1 DEF Advances

LEMMA CancelMoves ==
    ASSUME NEW c, ClientWell(client[c]), NEW k \in OpIndex, Cancel(c, k)
    PROVE  Moves(c)
<1> DEFINE cl == client[c]
           o == [cl.op[k] EXCEPT !.userCancelled = TRUE, !.cancelled = TRUE]
<1>1. Become(c, Put(cl, k, o))
  BY DEF Cancel
<1>2. Shape(Put(cl, k, o)) /\ Alike(cl, Put(cl, k, o))
  BY CancelAlike
<1> HIDE DEF o
<1>3. QED
  BY <1>1, <1>2, AlikeAdvances, BecomeMoves

\* Closing is for prompts that were opened.
LEMMA OpenedIsPast ==
    ASSUME NEW cl, ClientWell(cl), cl.op[OpenOp].outcome = "opened"
    PROVE  ~Fresh(cl) /\ ~Beginning(cl)
BY DEF ClientWell, Unopened

LEMMA CloseMoves ==
    ASSUME NEW c, ClientWell(client[c]), CloseAsync(c) \/ RealClose(c)
    PROVE  Moves(c)
<1> DEFINE cl == client[c]
           e == PerformClose(cl)
<1>1. cl.op[OpenOp].outcome = "opened"
  BY DEF CloseAsync, RealClose, MayCallClose
<1>2. Advances(cl, e)
  BY <1>1, OpenedIsPast, CloseAdvances
<1>3. CASE RealClose(c)
  <2>1. Become(c, e)
    BY <1>3 DEF RealClose
  <2>2. QED
    BY <1>2, <2>1, BecomeMoves
<1>4. CASE CloseAsync(c)
  <2>1. PICK v : Become(c, [e EXCEPT !.closing = v])
    BY <1>4 DEF CloseAsync
  <2> DEFINE d == [e EXCEPT !.closing = v]
  <2> HIDE DEF e
  <2>2. ClientWell(e)
    BY <1>2 DEF Advances
  <2>3. /\ DOMAIN d = ClientFields /\ d.op = e.op /\ d.begun = e.begun
        /\ d.closed = e.closed /\ d.exported = e.exported /\ d.pending = e.pending
    BY <2>2 DEF ClientWell, Shape, ClientFields
  <2>4. Become(c, d)
    BY <2>1
  <2> HIDE DEF d
  <2>5. Advances(e, d)
    BY <2>2, <2>3, MinorFields
  <2>6. Advances(cl, d)
    BY <1>2, <2>5 DEF Advances
  <2>7. QED
    BY <2>4, <2>6, BecomeMoves
<1>5. QED
  BY <1>3, <1>4

\* on_bus_connected.
Begins(c) == /\ Fresh(client[c])
             /\ Transmit(c, <<Begin>>)
             /\ \E d : /\ client' = With(client, c, d)
                       /\ ClientWell(d) /\ ~Fresh(d)

LEMMA BusConnectedMoves ==
    ASSUME NEW c, ClientWell(client[c]), NEW ok \in BOOLEAN, NEW present \in BOOLEAN,
           BusConnected(c, ok, present)
    PROVE  (Moves(c) /\ UNCHANGED outbox) \/ Begins(c)
<1> DEFINE cl == client[c]
           o == cl.op[OpenOp]
<1>1. o.call = "connect" /\ Fresh(cl)
  BY DEF BusConnected, Fresh
<1>2. CASE /\ Become(c, Complete(Put(cl, OpenOp, [o EXCEPT !.call = "none",
                          !.error = IF o.cancelled THEN "cancelled" ELSE "failed"]),
                        OpenOp))
           /\ UNCHANGED outbox
  <2>1. PICK error : /\ error # "none"
                     /\ Become(c, Complete(Put(cl, OpenOp, [o EXCEPT !.call = "none",
                                              !.error = error]), OpenOp))
    BY <1>2
  <2>2. Advances(cl, Complete(Put(cl, OpenOp, [o EXCEPT !.call = "none",
                                                        !.error = error]), OpenOp))
    BY <1>1, <2>1, OpeningFails
  <2>3. QED
    BY <1>2, <2>1, <2>2, BecomeMoves
<1>3. CASE /\ Become(c, [Put(cl, OpenOp, [o EXCEPT !.call = "begin"])
                           EXCEPT !.exported = TRUE, !.owner = present])
           /\ Transmit(c, <<Begin>>)
  <2> DEFINE p == [o EXCEPT !.call = "begin"]
             e == Put(cl, OpenOp, p)
             d == [e EXCEPT !.exported = TRUE, !.owner = present]
  <2>1. Shape(cl) /\ Unopened(cl) /\ o.started
    BY <1>1 DEF ClientWell, OpenWell
  <2>2. /\ OpShape(p) /\ p.started /\ p.error = "none" /\ p.idle = 0
        /\ p.call = "begin" /\ p.outcome = "none" /\ ~p.waiting /\ ~p.timeout
    BY <2>1, Indices DEF Shape, OpShape, OpFields, Unopened
  <2> HIDE DEF p
  <2>3. /\ DOMAIN d = ClientFields /\ d.op = With(cl.op, OpenOp, p)
        /\ d.closed = cl.closed /\ d.begun = cl.begun /\ d.exported = TRUE
        /\ d.pending = cl.pending
    BY <2>1 DEF Put, Shape, ClientFields
  <2>4. Become(c, d)
    BY <1>3 DEF p
  <2> HIDE DEF d
  <2>5. /\ ~d.closed /\ d.closed \in BOOLEAN /\ ~d.begun /\ d.begun \in BOOLEAN
        /\ d.exported \in BOOLEAN /\ d.pending = NoOp
        /\ d.pending \in OpIndex \cup {NoOp}
        /\ cl.op[OpenOp].call \in {"connect", "begin"}
    BY <1>1, <2>1, <2>3 DEF Unopened, Shape
  <2>6. ClientWell(d) /\ ~Fresh(d)
    <3> HIDE DEF cl, o
    <3>1. ClientWell(cl)
      BY DEF cl
    <3>2. QED
      BY <3>1, <2>2, <2>3, <2>5, OpeningGoesOn
  <2>7. QED
    BY <1>1, <1>3, <2>4, <2>6 DEF Begins, Become
<1>4. QED
  BY <1>2, <1>3 DEF BusConnected

\* A call that is cancelled.
LEMMA CallCancelledMoves ==
    ASSUME NEW c, ClientWell(client[c]), NEW k \in OpIndex, CallCancelled(c, k)
    PROVE  Moves(c)
<1> DEFINE cl == client[c]
           o == cl.op[k]
           p == [o EXCEPT !.call = "none", !.error = "cancelled"]
<1>1. Shape(cl)
  BY DEF ClientWell
<1>2. CASE k = OpenOp
  <2>1. o.call = "begin" /\ Become(c, Complete(Put(cl, k, p), k))
    BY <1>2 DEF CallCancelled, ClientWell, OpenWell
  <2>2. Advances(cl, Complete(Put(cl, k, p), k))
    BY <1>2, <2>1, OpeningFails
  <2> HIDE DEF p
  <2>3. QED
    BY <2>1, <2>2, BecomeMoves
<1>3. CASE k # OpenOp
  <2>1. \/ Become(c, Complete(Put(cl, k, p), k))
        \/ Become(c, FailPerform(cl, k, "cancelled"))
    BY DEF CallCancelled
  <2>2. OpShape(p) /\ p.started = o.started
    BY <1>1 DEF Shape, OpShape, OpFields
  <2> HIDE DEF p
  <2>3. Shape(Put(cl, k, p)) /\ Alike(cl, Put(cl, k, p))
    BY <1>1, <1>3, <2>2, PutOther
  <2>4. Advances(cl, Complete(Put(cl, k, p), k))
    BY <1>3, <2>3, CompleteOther, AlikeTrans, AlikeAdvances
  <2>5. Advances(cl, FailPerform(cl, k, "cancelled"))
    BY <1>1, <1>3, FailPerformAlike, AlikeAdvances
  <2>6. QED
    BY <2>1, <2>4, <2>5, BecomeMoves
<1>4. QED
  BY <1>2, <1>3

\* on_prompter_begin_prompting.
LEMMA BeginReplyMoves ==
    ASSUME NEW c, ClientWell(client[c]), ReceiveBeginReply(c)
    PROVE  /\ Moves(c)
           /\ \/ client' = client /\ ~Beginning(client[c])
              \/ \E d : client' = With(client, c, d) /\ ClientWell(d)
                           /\ ~Fresh(d) /\ ~Beginning(d)
<1> DEFINE cl == client[c]
           o == cl.op[OpenOp]
           p == [o EXCEPT !.call = "none", !.waiting = TRUE, !.timeout = c \in Impatient]
           d == [Put(cl, OpenOp, p) EXCEPT !.begun = TRUE, !.pending = OpenOp]
<1>1. \/ o.call = "begin" /\ Become(c, d)
      \/ \E error : /\ error # "none" /\ o.call = "begin"
                    /\ Become(c, Complete(Put(cl, OpenOp, [o EXCEPT !.call = "none",
                                             !.error = error]), OpenOp))
      \/ o.call # "begin" /\ client' = client
  BY DEF ReceiveBeginReply
<1>2. CASE o.call = "begin" /\ Become(c, d)
  <2>1. Shape(cl) /\ Unopened(cl) /\ o.started
    BY <1>2 DEF ClientWell, OpenWell, Beginning
  <2>2. OpShape(p) /\ p.started /\ p.error = "none" /\ p.idle = 0 /\ p.call = "none"
    BY <2>1, Indices DEF Shape, OpShape, OpFields, Unopened
  <2> HIDE DEF p
  <2>3. /\ DOMAIN d = ClientFields /\ d.op = With(cl.op, OpenOp, p)
        /\ d.closed = cl.closed /\ d.begun = TRUE /\ d.exported = cl.exported
        /\ d.pending = OpenOp
    BY <2>1 DEF Put, Shape, ClientFields
  <2> HIDE DEF d
  <2>4. /\ ~d.closed /\ d.closed \in BOOLEAN /\ d.begun \in BOOLEAN
        /\ d.exported \in BOOLEAN /\ d.pending \in OpIndex \cup {NoOp}
        /\ cl.op[OpenOp].call \in {"connect", "begin"}
    BY <1>2, <2>1, <2>3, Indices DEF Unopened, Shape
  <2>5. ClientWell(d) /\ ~Fresh(d) /\ ~Beginning(d)
    <3> HIDE DEF cl, o
    <3>1. ClientWell(cl)
      BY DEF cl
    <3>2. QED
      BY <3>1, <2>2, <2>3, <2>4, OpeningGoesOn
  <2>6. QED
    BY <1>2, <2>5 DEF Become, Moves, Advances
<1>3. CASE \E error : /\ error # "none" /\ o.call = "begin"
                      /\ Become(c, Complete(Put(cl, OpenOp, [o EXCEPT !.call = "none",
                                               !.error = error]), OpenOp))
  <2>1. PICK error : /\ error # "none" /\ o.call = "begin"
                     /\ Become(c, Complete(Put(cl, OpenOp, [o EXCEPT !.call = "none",
                                              !.error = error]), OpenOp))
    BY <1>3
  <2> DEFINE q == [o EXCEPT !.call = "none", !.error = error]
             e == Complete(Put(cl, OpenOp, q), OpenOp)
  <2>2. Advances(cl, e) /\ ~Fresh(e) /\ ~Beginning(e)
    BY <2>1, OpeningFails
  <2>3. Become(c, e)
    BY <2>1
  <2> HIDE DEF e
  <2>4. QED
    BY <2>2, <2>3 DEF Become, Moves, Advances
<1>4. CASE o.call # "begin" /\ client' = client
  BY <1>4 DEF Moves, Beginning
<1>5. QED
  BY <1>1, <1>2, <1>3, <1>4

\* on_perform_prompt_complete: the call it is about is never that of opening.
LEMMA PerformReplyMoves ==
    ASSUME NEW c, ClientWell(client[c]), ReceivePerformReply(c)
    PROVE  Moves(c)
<1> DEFINE k == Head(client[c].awaited)
           cl == [client[c] EXCEPT !.awaited = Tail(@)]
           o == cl.op[k]
           w == (cl.pending = k) \/ o.idle > 0
           p == [o EXCEPT !.call = "none", !.waiting = w]
<1>1. /\ DOMAIN cl = ClientFields /\ cl.op = client[c].op
      /\ cl.begun = client[c].begun /\ cl.closed = client[c].closed
      /\ cl.exported = client[c].exported /\ cl.pending = client[c].pending
  BY DEF ClientWell, Shape, ClientFields
<1>2. \/ o.call = "perform" /\ Become(c, Put(cl, k, p))
      \/ /\ o.call = "perform"
         /\ \E error : Become(c, FailPerform(cl, k, error))
      \/ Become(c, cl)
  BY DEF ReceivePerformReply
<1>3. w \in BOOLEAN
  OBVIOUS
<1> HIDE DEF cl, k, w
<1>4. Shape(cl) /\ Alike(client[c], cl)
  BY <1>1, MinorFields
<1>5. Advances(client[c], cl) /\ ClientWell(cl)
  BY <1>4, AlikeAdvances, AlikeWell
<1>6. CASE o.call = "perform"
  <2>1. k # OpenOp
    BY <1>5, <1>6 DEF ClientWell, OpenWell
  <2>2. k \in OpIndex => OpShape(p) /\ p.started = o.started
    BY <1>3, <1>4 DEF Shape, OpShape, OpFields
  <2> HIDE DEF p
  <2>3. Advances(client[c], Put(cl, k, p))
    BY <1>4, <2>1, <2>2, PutOther, AlikeTrans, AlikeAdvances
  <2>4. ASSUME NEW error PROVE Advances(client[c], FailPerform(cl, k, error))
    BY <1>4, <2>1, FailPerformAlike, AlikeTrans, AlikeAdvances
  <2> HIDE DEF o
  <2>5. QED
    BY <1>2, <1>5, <2>3, <2>4, BecomeMoves
<1>7. QED
  BY <1>2, <1>5, <1>6, BecomeMoves

LEMMA StopReplyMoves ==
    ASSUME NEW c, ClientWell(client[c]), ReceiveStopReply(c) \/ CloseIdleFires(c)
    PROVE  Moves(c)
<1> DEFINE cl == client[c]
<1>1. PICK v : Become(c, [cl EXCEPT !.closing = v])
  BY DEF ReceiveStopReply, CloseIdleFires
<1> DEFINE d == [cl EXCEPT !.closing = v]
<1>2. /\ DOMAIN d = ClientFields /\ d.op = cl.op /\ d.begun = cl.begun
      /\ d.closed = cl.closed /\ d.exported = cl.exported /\ d.pending = cl.pending
  BY DEF ClientWell, Shape, ClientFields
<1>3. Become(c, d)
  BY <1>1
<1> HIDE DEF d
<1>4. QED
  BY <1>2, <1>3, MinorFields, BecomeMoves

LEMMA PromptReadyMoves ==
    ASSUME NEW c, ClientWell(client[c]), ReceivePromptReady(c)
    PROVE  Moves(c)
<1> DEFINE cl == client[c]
<1>1. CASE client' = client
  BY <1>1 DEF Moves
<1>2. CASE client' # client
  <2>1. PICK r, q : /\ cl.pending # NoOp
                    /\ Become(c, Complete([cl EXCEPT !.last = r, !.lastQuestion = q,
                                                     !.pending = NoOp], cl.pending))
    BY <1>2 DEF ReceivePromptReady
  <2> DEFINE d == Complete([cl EXCEPT !.last = r, !.lastQuestion = q,
                                      !.pending = NoOp], cl.pending)
  <2>2. ClientWell(d) /\ ~Fresh(d) /\ ~Beginning(d)
    BY <2>1, CompletePending
  <2>3. Become(c, d)
    BY <2>1
  <2> HIDE DEF d
  <2>4. QED
    BY <2>2, <2>3, BecomeMoves DEF Advances
<1>3. QED
  BY <1>1, <1>2

\* prompt_method_done, when opening is over.
LEMMA PromptDoneMoves ==
    ASSUME NEW c, ClientWell(client[c]), ~Fresh(client[c]), ~Beginning(client[c]),
           ReceivePromptDone(c)
    PROVE  Moves(c)
<1> DEFINE cl == client[c]
           e == [cl EXCEPT !.begun = FALSE]
<1>1. CASE client' = client
  BY <1>1 DEF Moves
<1>2. CASE Become(c, PerformClose(e))
  <2>1. Shape(cl) /\ cl.op[OpenOp].started
        /\ cl.op[OpenOp].call \notin {"connect", "begin", "perform"}
    BY PastOpening
  <2>2. Shape(e) /\ e.op = cl.op
    BY <2>1 DEF Shape, ClientFields
  <2> HIDE DEF e
  <2>3. /\ ClientWell(PerformClose(e)) /\ ~Fresh(PerformClose(e))
        /\ ~Beginning(PerformClose(e))
    BY <2>1, <2>2, PerformCloseWell
  <2>4. QED
    BY <1>2, <2>3, BecomeMoves DEF Advances
<1>3. QED
  BY <1>1, <1>2 DEF ReceivePromptDone

LEMMA VanishedMoves ==
    ASSUME NEW c, ClientWell(client[c]), ReceiveVanished(c)
    PROVE  Moves(c)
<1> DEFINE cl == client[c]
<1>1. CASE client' = client
  BY <1>1 DEF Moves
<1>2. CASE client' # client
  <2>1. PICK k \in OpIndex :
           Become(c, [Put(cl, k, [cl.op[k] EXCEPT !.cancelled = TRUE])
                         EXCEPT !.owner = FALSE])
    BY <1>2 DEF ReceiveVanished
  <2> DEFINE o == [cl.op[k] EXCEPT !.cancelled = TRUE]
             e == Put(cl, k, o)
             d == [e EXCEPT !.owner = FALSE]
  <2>2. Shape(e) /\ Alike(cl, e)
    BY CancelAlike
  <2>3. Become(c, d)
    BY <2>1
  <2> HIDE DEF e
  <2>4. Advances(cl, e) /\ ClientWell(e)
    BY <2>2, AlikeAdvances, AlikeWell
  <2>5. /\ DOMAIN d = ClientFields /\ d.op = e.op /\ d.begun = e.begun
        /\ d.closed = e.closed /\ d.exported = e.exported /\ d.pending = e.pending
    BY <2>2 DEF Shape, ClientFields
  <2> HIDE DEF d
  <2>6. Advances(e, d)
    BY <2>4, <2>5, MinorFields
  <2>7. Advances(cl, d)
    BY <2>4, <2>6 DEF Advances
  <2>8. QED
    BY <2>3, <2>7, BecomeMoves
<1>3. QED
  BY <1>1, <1>2

\* on_call_cancelled: the source is set up when opening is over.
LEMMA WaitingMoves ==
    ASSUME NEW c, ClientWell(client[c]), NEW k \in OpIndex, WaitingFires(c, k)
    PROVE  Moves(c)
<1> DEFINE cl == client[c]
           o == [cl.op[k] EXCEPT !.waiting = FALSE, !.error = "cancelled"]
           e == Put(cl, k, o)
<1>1. cl.op[k].started /\ cl.op[k].waiting /\ Become(c, PerformClose(e))
  BY DEF WaitingFires, WaitingDue, Alive
<1>2. ~Fresh(cl) /\ ~Beginning(cl)
  BY <1>1, Indices DEF ClientWell, Unopened
<1>3. /\ Shape(cl) /\ cl.op[OpenOp].started
      /\ cl.op[OpenOp].call \notin {"connect", "begin", "perform"}
  BY <1>2, PastOpening
<1>4. OpShape(o) /\ o.started = cl.op[k].started /\ o.call = cl.op[k].call
  BY <1>3 DEF Shape, OpShape, OpFields
<1> HIDE DEF o
<1>5. /\ Shape(e) /\ e.op[k] = o
      /\ \A j \in OpIndex : j # k => e.op[j] = cl.op[j]
  BY <1>3, <1>4, PutFields
<1> HIDE DEF e
<1>6. /\ e.op[OpenOp].started
      /\ e.op[OpenOp].call \notin {"connect", "begin", "perform"}
  BY <1>3, <1>4, <1>5, Indices
<1>7. /\ ClientWell(PerformClose(e)) /\ ~Fresh(PerformClose(e))
      /\ ~Beginning(PerformClose(e))
  BY <1>5, <1>6, PerformCloseWell
<1>8. QED
  BY <1>1, <1>7, BecomeMoves DEF Advances

\* on_call_timeout: so is the timeout.
LEMMA TimeoutMoves ==
    ASSUME NEW c, ClientWell(client[c]), TimeoutFires(c)
    PROVE  Moves(c)
<1> DEFINE cl == client[c]
           o == [cl.op[OpenOp] EXCEPT !.timeout = FALSE]
           e == Put(cl, OpenOp, o)
           d == PerformClose(e)
           p == [d.op[OpenOp] EXCEPT !.error = "in-progress"]
           f == Put(d, OpenOp, p)
<1>1. cl.op[OpenOp].timeout /\ Become(c, Complete(f, OpenOp))
  BY DEF TimeoutFires
<1>2. ~Fresh(cl) /\ ~Beginning(cl)
  BY <1>1 DEF ClientWell, Unopened
<1>3. /\ Shape(cl) /\ cl.op[OpenOp].started
      /\ cl.op[OpenOp].call \notin {"connect", "begin", "perform"}
  BY <1>2, PastOpening
<1>4. OpShape(o) /\ o.started = cl.op[OpenOp].started /\ o.call = cl.op[OpenOp].call
  BY <1>3, Indices DEF Shape, OpShape, OpFields
<1> HIDE DEF o
<1>5. Shape(e) /\ e.op[OpenOp] = o
  BY <1>3, <1>4, PutFields, Indices
<1> HIDE DEF e
<1>6. /\ Closed(d) /\ d.op[OpenOp].started
      /\ d.op[OpenOp].call \notin {"connect", "begin", "perform"}
  BY <1>3, <1>4, <1>5, PerformCloseCloses, Indices
<1> HIDE DEF d
<1>7. /\ OpShape(p) /\ p.started = d.op[OpenOp].started /\ p.call = d.op[OpenOp].call
      /\ p.error # "none"
  BY <1>6, Indices DEF Closed, Shape, OpShape, OpFields
<1> HIDE DEF p
<1>8. /\ Shape(f) /\ f.op[OpenOp] = p
      /\ \A n \in ClientFields : n # "op" => f[n] = d[n]
  BY <1>6, <1>7, PutFields, Indices DEF Closed
<1> HIDE DEF f
<1>9. f.closed /\ ~f.begun /\ f.pending = NoOp /\ ~f.exported
  BY <1>6, <1>8 DEF Closed, ClientFields
<1>10. Clean(f)
  BY <1>9 DEF Clean
<1>11. /\ ClientWell(Complete(f, OpenOp)) /\ ~Fresh(Complete(f, OpenOp))
       /\ ~Beginning(Complete(f, OpenOp))
  BY <1>6, <1>7, <1>8, <1>9, <1>10, CompleteOpen
<1>12. QED
  BY <1>1, <1>11, BecomeMoves DEF Advances

\* complete_in_idle: of opening only in a prompt that is closed.
LEMMA IdleMoves ==
    ASSUME NEW c, ClientWell(client[c]), NEW k \in OpIndex, IdleFires(c, k)
    PROVE  Moves(c)
<1> DEFINE cl == client[c]
           o == [cl.op[k] EXCEPT !.idle = @ - 1]
           e == Put(cl, k, o)
<1>1. cl.op[k].idle > 0 /\ Become(c, Complete(e, k))
  BY DEF IdleFires
<1>2. Shape(cl)
  BY DEF ClientWell
<1>3. /\ OpShape(o) /\ o.started = cl.op[k].started /\ o.call = cl.op[k].call
      /\ o.error = cl.op[k].error
  BY <1>2 DEF Shape, OpShape, OpFields
<1> HIDE DEF o
<1>4. CASE k # OpenOp
  <2>1. Shape(e) /\ Alike(cl, e)
    BY <1>2, <1>3, <1>4, PutOther
  <2> HIDE DEF e
  <2>2. Shape(Complete(e, k)) /\ Alike(cl, Complete(e, k))
    BY <1>4, <2>1, CompleteOther, AlikeTrans
  <2>3. QED
    BY <1>1, <2>2, AlikeAdvances, BecomeMoves
<1>5. CASE k = OpenOp
  <2>1. cl.op[OpenOp].idle # 0
    BY <1>1, <1>5
  <2>2. cl.closed /\ cl.pending = NoOp /\ ~cl.exported /\ ~cl.begun
    BY <2>1 DEF ClientWell, OpenWell, Clean
  <2>3. ~Fresh(cl) /\ ~Beginning(cl)
    BY <2>2 DEF ClientWell, Unopened
  <2>4. /\ cl.op[OpenOp].started
        /\ cl.op[OpenOp].call \notin {"connect", "begin", "perform"}
    BY <2>3, PastOpening
  <2>5. /\ Shape(e) /\ e.op[OpenOp] = o
        /\ \A n \in ClientFields : n # "op" => e[n] = cl[n]
    BY <1>2, <1>3, <1>5, PutFields, Indices
  <2> HIDE DEF e
  <2>6. e.closed /\ e.pending = NoOp /\ ~e.exported /\ ~e.begun
    BY <2>2, <2>5 DEF ClientFields
  <2>7. Clean(e)
    BY <2>6 DEF Clean
  <2>8. /\ ClientWell(Complete(e, OpenOp)) /\ ~Fresh(Complete(e, OpenOp))
        /\ ~Beginning(Complete(e, OpenOp))
    BY <1>3, <1>5, <2>4, <2>5, <2>6, <2>7, CompleteOpen
  <2>9. QED
    BY <1>1, <1>5, <2>8, BecomeMoves DEF Advances
<1>6. QED
  BY <1>4, <1>5

-----------------------------------------------------------------------------
(* The channels.                                                           *)

\* A sequence of messages, of whatever contents.
IsBox(s) == (\E S : s \in Seq(S)) /\ \A i \in DOMAIN s : "kind" \in DOMAIN s[i]

Lacks(s, kind) == \A i \in DOMAIN s : s[i].kind # kind

\* The answer to BeginPrompting comes before any PromptDone.
Announced(s) ==
    \E i \in DOMAIN s : /\ s[i].kind = "BeginReply"
                        /\ \A j \in DOMAIN s : j < i => s[j].kind # "PromptDone"

LEMMA BoxConcat ==
    ASSUME NEW s, NEW t, IsBox(s), IsBox(t)
    PROVE  /\ IsBox(s \o t)
           /\ \A kind : Lacks(s, kind) /\ Lacks(t, kind) => Lacks(s \o t, kind)
           /\ Announced(s) => Announced(s \o t)
           /\ Lacks(s, "PromptDone") /\ Announced(t) => Announced(s \o t)
<1>1. PICK S : s \in Seq(S)
  BY DEF IsBox
<1>2. PICK T : t \in Seq(T)
  BY DEF IsBox
<1>3. s \in Seq(S \cup T) /\ t \in Seq(S \cup T)
  BY <1>1, <1>2
<1> DEFINE u == s \o t
<1>4. /\ u \in Seq(S \cup T) /\ Len(u) = Len(s) + Len(t)
      /\ DOMAIN u = 1..(Len(s) + Len(t)) /\ DOMAIN s = 1..Len(s) /\ DOMAIN t = 1..Len(t)
      /\ Len(s) \in Nat /\ Len(t) \in Nat
      /\ \A i \in DOMAIN s : u[i] = s[i]
      /\ \A i \in DOMAIN t : u[Len(s) + i] = t[i]
  BY <1>3
<1> HIDE DEF u
<1>5. \A i \in DOMAIN u : \/ i \in DOMAIN s /\ u[i] = s[i]
                          \/ \E j \in DOMAIN t : i = Len(s) + j /\ u[i] = t[j]
  <2> TAKE i \in DOMAIN u
  <2>1. CASE i <= Len(s)
    BY <1>4, <2>1
  <2>2. CASE ~(i <= Len(s))
    <3>1. i - Len(s) \in DOMAIN t /\ i = Len(s) + (i - Len(s))
      BY <1>4, <2>2
    <3>2. QED
      BY <1>4, <3>1
  <2>3. QED
    BY <2>1, <2>2
<1>6. IsBox(u)
  BY <1>4, <1>5 DEF IsBox
<1>7. ASSUME NEW kind, Lacks(s, kind), Lacks(t, kind) PROVE Lacks(u, kind)
  BY <1>5, <1>7 DEF Lacks
<1>8. ASSUME Announced(s) PROVE Announced(u)
  <2>1. PICK i \in DOMAIN s : /\ s[i].kind = "BeginReply"
                              /\ \A j \in DOMAIN s : j < i => s[j].kind # "PromptDone"
    BY <1>8 DEF Announced
  <2>2. i \in DOMAIN u /\ u[i].kind = "BeginReply"
    BY <1>4, <2>1
  <2>3. \A j \in DOMAIN u : j < i => u[j].kind # "PromptDone"
    BY <1>4, <2>1
  <2>4. QED
    BY <2>2, <2>3 DEF Announced
<1>9. ASSUME Lacks(s, "PromptDone"), Announced(t) PROVE Announced(u)
  <2>1. PICK i \in DOMAIN t : /\ t[i].kind = "BeginReply"
                              /\ \A j \in DOMAIN t : j < i => t[j].kind # "PromptDone"
    BY <1>9 DEF Announced
  <2>2. Len(s) + i \in DOMAIN u /\ u[Len(s) + i].kind = "BeginReply"
    BY <1>4, <2>1
  <2>3. ASSUME NEW j \in DOMAIN u, j < Len(s) + i PROVE u[j].kind # "PromptDone"
    <3>1. CASE j \in DOMAIN s /\ u[j] = s[j]
      BY <1>9, <3>1 DEF Lacks
    <3>2. CASE \E l \in DOMAIN t : j = Len(s) + l /\ u[j] = t[l]
      <4>1. PICK l \in DOMAIN t : j = Len(s) + l /\ u[j] = t[l]
        BY <3>2
      <4>2. l < i
        BY <1>4, <2>1, <2>3, <4>1
      <4>3. QED
        BY <2>1, <4>1, <4>2
    <3>3. QED
      BY <1>5, <3>1, <3>2
  <2>4. QED
    BY <2>2, <2>3 DEF Announced
<1>10. QED
  BY <1>6, <1>7, <1>8, <1>9 DEF u

LEMMA BoxTail ==
    ASSUME NEW s, IsBox(s), s # <<>>
    PROVE  /\ IsBox(Tail(s))
           /\ \A kind : Lacks(s, kind) => Lacks(Tail(s), kind) /\ Head(s).kind # kind
           /\ Announced(s) => \/ Head(s).kind = "BeginReply"
                              \/ Head(s).kind # "PromptDone" /\ Announced(Tail(s))
<1>1. PICK S : s \in Seq(S)
  BY DEF IsBox
<1> DEFINE u == Tail(s)
<1>2. /\ u \in Seq(S) /\ Len(s) \in Nat /\ Len(s) # 0 /\ DOMAIN s = 1..Len(s)
      /\ DOMAIN u = 1..(Len(s) - 1) /\ Head(s) = s[1]
      /\ \A i \in DOMAIN u : u[i] = s[i + 1]
  BY <1>1
<1> HIDE DEF u
<1>3. \A i \in DOMAIN u : i + 1 \in DOMAIN s /\ u[i] = s[i + 1]
  BY <1>2
<1>4. 1 \in DOMAIN s
  BY <1>2
<1>5. IsBox(u)
  BY <1>2, <1>3 DEF IsBox
<1>6. ASSUME NEW kind, Lacks(s, kind) PROVE Lacks(u, kind) /\ Head(s).kind # kind
  BY <1>2, <1>3, <1>4, <1>6 DEF Lacks
<1>7. ASSUME Announced(s), Head(s).kind # "BeginReply"
      PROVE  Head(s).kind # "PromptDone" /\ Announced(u)
  <2>1. PICK i \in DOMAIN s : /\ s[i].kind = "BeginReply"
                              /\ \A j \in DOMAIN s : j < i => s[j].kind # "PromptDone"
    BY <1>7 DEF Announced
  <2>2. i # 1
    BY <1>2, <1>7, <2>1
  <2>3. 1 < i /\ i - 1 \in DOMAIN u /\ i = (i - 1) + 1
    BY <1>2, <2>2
  <2>4. u[i - 1].kind = "BeginReply"
    BY <1>3, <2>1, <2>3
  <2>5. ASSUME NEW j \in DOMAIN u, j < i - 1 PROVE u[j].kind # "PromptDone"
    <3>1. j + 1 \in DOMAIN s /\ j + 1 < i
      BY <1>2, <2>5
    <3>2. QED
      BY <1>3, <2>1, <3>1
  <2>6. Announced(u)
    BY <2>3, <2>4, <2>5 DEF Announced
  <2>7. QED
    BY <1>2, <1>4, <2>1, <2>3, <2>6
<1>8. QED
  BY <1>5, <1>6, <1>7 DEF u

LEMMA BoxSingle ==
    /\ IsBox(<<>>) /\ \A kind : Lacks(<<>>, kind)
    /\ \A m : "kind" \in DOMAIN m =>
          /\ IsBox(<<m>>)
          /\ \A kind : m.kind # kind => Lacks(<<m>>, kind)
          /\ m.kind = "BeginReply" => Announced(<<m>>)
<1>1. IsBox(<<>>) /\ \A kind : Lacks(<<>>, kind)
  <2>1. <<>> \in Seq({})
    OBVIOUS
  <2>2. QED
    BY <2>1 DEF IsBox, Lacks
<1>2. ASSUME NEW m, "kind" \in DOMAIN m
      PROVE  /\ IsBox(<<m>>)
             /\ \A kind : m.kind # kind => Lacks(<<m>>, kind)
             /\ m.kind = "BeginReply" => Announced(<<m>>)
  <2> DEFINE s == <<m>>
  <2>1. s \in Seq({m}) /\ DOMAIN s = {1} /\ s[1] = m
    OBVIOUS
  <2> HIDE DEF s
  <2>2. IsBox(s) /\ \A kind : m.kind # kind => Lacks(s, kind)
    BY <1>2, <2>1 DEF IsBox, Lacks
  <2>3. m.kind = "BeginReply" => Announced(s)
    BY <2>1 DEF Announced
  <2>4. QED
    BY <2>2, <2>3 DEF s
<1>3. QED
  BY <1>1, <1>2

LEMMA BoxAppend ==
    ASSUME NEW s, IsBox(s), NEW m, "kind" \in DOMAIN m
    PROVE  /\ IsBox(Append(s, m))
           /\ \A kind : Lacks(s, kind) /\ m.kind # kind => Lacks(Append(s, m), kind)
           /\ Announced(s) => Announced(Append(s, m))
           /\ Lacks(s, "PromptDone") /\ m.kind = "BeginReply" => Announced(Append(s, m))
<1>1. PICK S : s \in Seq(S)
  BY DEF IsBox
<1>2. s \in Seq(S \cup {m}) /\ <<m>> \in Seq(S \cup {m})
  BY <1>1
<1>3. Append(s, m) = s \o <<m>>
  BY <1>2
<1>4. /\ IsBox(<<m>>)
      /\ \A kind : m.kind # kind => Lacks(<<m>>, kind)
      /\ m.kind = "BeginReply" => Announced(<<m>>)
  BY BoxSingle
<1>5. QED
  BY <1>3, <1>4, BoxConcat

\* What the prompter sends in a step.
Sendable(f) == DOMAIN f = Callback /\ \A d \in Callback : IsBox(f[d])

LEMMA NothingSent ==
    /\ Sendable(Prompter!Nothing)
    /\ \A d \in Callback : \A kind : Lacks(Prompter!Nothing[d], kind)
BY BoxSingle DEF Sendable, Prompter!Nothing

LEMMA SendKeeps ==
    ASSUME NEW f, Sendable(f), NEW x, NEW m, "kind" \in DOMAIN m
    PROVE  LET g == Prompter!Send(f, x, m) IN
           /\ Sendable(g)
           /\ \A d \in Callback :
                /\ Lacks(f[d], "PromptDone") /\ m.kind # "PromptDone" =>
                      Lacks(g[d], "PromptDone")
                /\ Announced(f[d]) => Announced(g[d])
                /\ d = x /\ Lacks(f[d], "PromptDone") /\ m.kind = "BeginReply" =>
                      Announced(g[d])
<1> DEFINE g == Prompter!Send(f, x, m)
<1>1. /\ DOMAIN g = Callback
      /\ \A d \in Callback : g[d] = IF d = x THEN Append(f[d], m) ELSE f[d]
  BY DEF Prompter!Send, Prompter!With, Sendable
<1> HIDE DEF g
<1>2. \A d \in Callback :
         /\ IsBox(Append(f[d], m))
         /\ Lacks(f[d], "PromptDone") /\ m.kind # "PromptDone" =>
               Lacks(Append(f[d], m), "PromptDone")
         /\ Announced(f[d]) => Announced(Append(f[d], m))
         /\ Lacks(f[d], "PromptDone") /\ m.kind = "BeginReply" =>
               Announced(Append(f[d], m))
  BY BoxAppend DEF Sendable
<1>3. Sendable(g)
  BY <1>1, <1>2 DEF Sendable
<1>4. QED
  BY <1>1, <1>2, <1>3 DEF g

\* The messages of the prompter are messages, and of these kinds.
LEMMA Kinds ==
    /\ \A ok : /\ "kind" \in DOMAIN Prompter!BeginReply(ok)
               /\ Prompter!BeginReply(ok).kind = "BeginReply"
               /\ "kind" \in DOMAIN Prompter!PerformReply(ok)
               /\ Prompter!PerformReply(ok).kind = "PerformReply"
    /\ "kind" \in DOMAIN Prompter!StopReply /\ Prompter!StopReply.kind = "StopReply"
    /\ "kind" \in DOMAIN Prompter!PromptDone
    /\ "kind" \in DOMAIN Vanished /\ Vanished.kind = "Vanished"
    /\ \A r, q, o : /\ "kind" \in DOMAIN Prompter!PromptReady(r, q, o)
                    /\ Prompter!PromptReady(r, q, o).kind = "PromptReady"
BY DEF Prompter!BeginReply, Prompter!PerformReply, Prompter!StopReply,
       Prompter!PromptDone, Prompter!PromptReady, Vanished

\* PromptDone goes only to those that have begun.
Polite(f) == \A d \in Callback : Lacks(f[d], "PromptDone") \/ d \in callbacks

LEMMA NextReadySends ==
    ASSUME NEW w, NEW act, NEW objs, NEW msgs, Sendable(msgs), Polite(msgs),
           Prompter!PromptNextReady(w, act, objs, msgs)
    PROVE  /\ Sendable(sent') /\ Polite(sent')
           /\ \A d \in Callback : Announced(msgs[d]) => Announced(sent'[d])
<1>1. CASE sent' = msgs
  BY <1>1
<1>2. CASE \E o \in Object : sent' = Prompter!Send(msgs, Head(w),
                                        Prompter!PromptReady("none", NoQuestion, o))
  <2>1. PICK o \in Object : sent' = Prompter!Send(msgs, Head(w),
                                        Prompter!PromptReady("none", NoQuestion, o))
    BY <1>2
  <2> DEFINE m == Prompter!PromptReady("none", NoQuestion, o)
  <2>2. "kind" \in DOMAIN m /\ m.kind = "PromptReady"
    BY Kinds
  <2>3. sent' = Prompter!Send(msgs, Head(w), m)
    BY <2>1
  <2> HIDE DEF m
  <2>4. /\ Sendable(sent')
        /\ \A d \in Callback :
              /\ Lacks(msgs[d], "PromptDone") => Lacks(sent'[d], "PromptDone")
              /\ Announced(msgs[d]) => Announced(sent'[d])
    BY <2>2, <2>3, SendKeeps
  <2>5. QED
    BY <2>4 DEF Polite
<1>3. QED
  BY <1>1, <1>2 DEF Prompter!PromptNextReady

\* What a step of the prompter does to the channels: a callback that is taken
\* in has been sent its answer.
PrompterSends(c) ==
    /\ Sendable(sent') /\ Polite(sent')
    /\ callbacks' \subseteq callbacks \cup {c}
    /\ c \in callbacks' => c \in callbacks \/ Announced(sent'[c])

LEMMA DoneSends ==
    ASSUME NEW c, NEW S, S = {c} \cap callbacks
    PROVE  Sendable(Prompter!SendDone(S)) /\ Polite(Prompter!SendDone(S))
<1>1. /\ IsBox(<<Prompter!PromptDone>>) /\ IsBox(<<>>)
      /\ Lacks(<<>>, "PromptDone")
  BY BoxSingle, Kinds
<1>2. QED
  BY <1>1 DEF Sendable, Polite, Prompter!SendDone

LEMMA BeginSends ==
    ASSUME NEW c \in Callback, Prompter!BeginPrompting(c)
    PROVE  PrompterSends(c)
<1>1. ASSUME NEW ok
      PROVE  LET f == Prompter!Send(Prompter!Nothing, c, Prompter!BeginReply(ok)) IN
             Sendable(f) /\ Polite(f) /\ Announced(f[c])
  <2> DEFINE m == Prompter!BeginReply(ok)
             f == Prompter!Send(Prompter!Nothing, c, m)
  <2>1. "kind" \in DOMAIN m /\ m.kind = "BeginReply"
    BY Kinds
  <2> HIDE DEF m
  <2>2. /\ Sendable(f) /\ Announced(f[c])
        /\ \A d \in Callback : Lacks(f[d], "PromptDone")
    BY <2>1, NothingSent, SendKeeps
  <2>3. QED
    BY <2>2 DEF Polite, m
<1>2. CASE /\ sent' = Prompter!Send(Prompter!Nothing, c, Prompter!BeginReply(FALSE))
           /\ callbacks' = callbacks
  BY <1>1, <1>2 DEF PrompterSends
<1>3. CASE /\ callbacks' = callbacks \cup {c}
           /\ \E w : Prompter!PromptNextReady(w, active, obj,
                  Prompter!Send(Prompter!Nothing, c, Prompter!BeginReply(TRUE)))
  <2> DEFINE f == Prompter!Send(Prompter!Nothing, c, Prompter!BeginReply(TRUE))
  <2>1. Sendable(f) /\ Polite(f) /\ Announced(f[c])
    BY <1>1
  <2>2. PICK w : Prompter!PromptNextReady(w, active, obj, f)
    BY <1>3
  <2> HIDE DEF f
  <2>3. Sendable(sent') /\ Polite(sent') /\ Announced(sent'[c])
    BY <2>1, <2>2, NextReadySends
  <2>4. QED
    BY <1>3, <2>3 DEF PrompterSends
<1>4. QED
  BY <1>2, <1>3 DEF Prompter!BeginPrompting, Prompter!bookkeeping

LEMMA PerformSends ==
    ASSUME NEW c \in Callback, NEW q, Prompter!PerformPrompt(c, "confirm", q, TRUE)
    PROVE  PrompterSends(c) /\ callbacks' \subseteq callbacks
<1>1. PICK ok : /\ sent' = Prompter!Send(Prompter!Nothing, c, Prompter!PerformReply(ok))
                /\ callbacks' = callbacks
  BY DEF Prompter!PerformPrompt, Prompter!bookkeeping
<1> DEFINE m == Prompter!PerformReply(ok)
           f == Prompter!Send(Prompter!Nothing, c, m)
<1>2. "kind" \in DOMAIN m /\ m.kind = "PerformReply"
  BY Kinds
<1> HIDE DEF m
<1>3. Sendable(f) /\ \A d \in Callback : Lacks(f[d], "PromptDone")
  BY <1>2, NothingSent, SendKeeps
<1>4. sent' = f
  BY <1>1 DEF m
<1> HIDE DEF f
<1>5. QED
  BY <1>1, <1>3, <1>4 DEF PrompterSends, Polite

LEMMA StopSends ==
    ASSUME NEW c \in Callback, Prompter!StopPrompting(c)
    PROVE  PrompterSends(c) /\ callbacks' \subseteq callbacks
<1> DEFINE S == {c} \cap callbacks
           f == Prompter!SendDone(S)
           m == Prompter!StopReply
           g == Prompter!Send(f, c, m)
<1>1. PICK w : Prompter!PromptNextReady(w, Prompter!StoppedActive(S),
                                        Prompter!StoppedObjects(obj, S), g)
  BY DEF Prompter!StopPrompting
<1>2. callbacks' \subseteq callbacks
  BY DEF Prompter!StopPrompting
<1>3. Sendable(f) /\ Polite(f)
  BY DoneSends
<1>4. "kind" \in DOMAIN m /\ m.kind = "StopReply"
  BY Kinds
<1> HIDE DEF m, f
<1>5. /\ Sendable(g)
      /\ \A d \in Callback : Lacks(f[d], "PromptDone") => Lacks(g[d], "PromptDone")
  BY <1>3, <1>4, SendKeeps
<1>6. Polite(g)
  BY <1>3, <1>5 DEF Polite
<1> HIDE DEF g, S
<1>7. Sendable(sent') /\ Polite(sent')
  BY <1>1, <1>5, <1>6, NextReadySends
<1>8. QED
  BY <1>2, <1>7 DEF PrompterSends

LEMMA ClosedSends ==
    ASSUME NEW c \in Callback, Prompter!PromptClosed(c)
    PROVE  PrompterSends(c) /\ callbacks' \subseteq callbacks
<1> DEFINE S == {c} \cap callbacks
<1>1. sent' = Prompter!SendDone(S) /\ callbacks' \subseteq callbacks
  BY DEF Prompter!PromptClosed, Prompter!StopAll
<1>2. Sendable(Prompter!SendDone(S)) /\ Polite(Prompter!SendDone(S))
  BY DoneSends
<1>3. QED
  BY <1>1, <1>2 DEF PrompterSends

LEMMA QuietSends ==
    ASSUME NEW c, sent' = Prompter!Nothing, callbacks' \subseteq callbacks
    PROVE  PrompterSends(c) /\ callbacks' \subseteq callbacks
BY NothingSent DEF PrompterSends, Polite

LEMMA ReadySends ==
    ASSUME NEW c, NEW o, NEW ok, Prompter!PromptReadyComplete(o, ok)
    PROVE  PrompterSends(c) /\ callbacks' \subseteq callbacks
<1>1. CASE sent' = Prompter!Nothing /\ callbacks' = callbacks
  BY <1>1, QuietSends
<1>2. CASE /\ callbacks' \subseteq callbacks
           /\ \E w, a, b : Prompter!PromptNextReady(w, a, b, Prompter!Nothing)
  <2>1. PICK w, a, b : Prompter!PromptNextReady(w, a, b, Prompter!Nothing)
    BY <1>2
  <2>2. Polite(Prompter!Nothing)
    BY NothingSent DEF Polite
  <2>3. Sendable(sent') /\ Polite(sent')
    BY <2>1, <2>2, NothingSent, NextReadySends
  <2>4. QED
    BY <1>2, <2>3 DEF PrompterSends
<1>3. QED
  BY <1>1, <1>2 DEF Prompter!PromptReadyComplete, Prompter!bookkeeping

LEMMA CompleteSends ==
    ASSUME NEW c, NEW o, NEW r, Prompter!PromptComplete(o, r)
    PROVE  PrompterSends(c) /\ callbacks' \subseteq callbacks
<1>1. callbacks' = callbacks
  BY DEF Prompter!PromptComplete, Prompter!bookkeeping
<1>2. CASE sent' = Prompter!Nothing
  BY <1>1, <1>2, QuietSends
<1>3. CASE sent' # Prompter!Nothing
  <2>1. PICK x, q : sent' = Prompter!Send(Prompter!Nothing, x, Prompter!PromptReady(r, q, o))
    BY <1>3 DEF Prompter!PromptComplete
  <2> DEFINE m == Prompter!PromptReady(r, q, o)
             f == Prompter!Send(Prompter!Nothing, x, m)
  <2>2. "kind" \in DOMAIN m /\ m.kind = "PromptReady"
    BY Kinds
  <2> HIDE DEF m
  <2>3. Sendable(f) /\ \A d \in Callback : Lacks(f[d], "PromptDone")
    BY <2>2, NothingSent, SendKeeps
  <2>4. sent' = f
    BY <2>1 DEF m
  <2> HIDE DEF f
  <2>5. QED
    BY <1>1, <2>3, <2>4 DEF PrompterSends, Polite
<1>4. QED
  BY <1>2, <1>3

-----------------------------------------------------------------------------
(* The invariant.                                                          *)

\* A prompt is not known to the prompter before it asks to begin, and until
\* the answer no PromptDone can be first in its channel.
ChannelWell(c, cl, in, out, known) ==
    /\ Fresh(cl) => /\ c \notin known
                    /\ Lacks(in, "PromptDone") /\ Lacks(out, "Begin")
    /\ Beginning(cl) => Announced(in) \/ (c \notin known /\ Lacks(in, "PromptDone"))

\* The messages to the prompter are calls and replies.
Requests(s) == \A kind : kind \notin {"Begin", "Perform", "Stop", "ReadyReply"} =>
                  Lacks(s, kind)

Tables == /\ DOMAIN client = Callback /\ Sendable(inbox) /\ Sendable(outbox)
          /\ \A c \in Callback : Requests(outbox[c])

ProtocolInv ==
    /\ Tables
    /\ \A c \in Callback : /\ ClientWell(client[c])
                           /\ ChannelWell(c, client[c], inbox[c], outbox[c], callbacks)

LEMMA InitEstablishes == Init => ProtocolInv
<1> SUFFICES ASSUME Init PROVE ProtocolInv
  OBVIOUS
<1>1. Tables
  BY BoxSingle DEF Init, ClientInit, Tables, Sendable, Requests
<1>2. ASSUME NEW c \in Callback
      PROVE  /\ ClientWell(client[c])
             /\ ChannelWell(c, client[c], inbox[c], outbox[c], callbacks)
  <2> DEFINE cl == client[c]
  <2>1. cl = NewClient(c)
    BY DEF Init, ClientInit
  <2>2. /\ DOMAIN cl = ClientFields /\ cl.begun = FALSE /\ cl.closed = FALSE
        /\ cl.exported = FALSE /\ cl.pending = NoOp /\ cl.op = [k \in OpIndex |-> NewOp]
    BY <2>1 DEF NewClient, ClientFields
  <2> HIDE DEF cl
  <2>3. /\ DOMAIN cl.op = OpIndex /\ \A k \in OpIndex : cl.op[k] = NewOp
    BY <2>2
  <2>4. /\ OpShape(NewOp) /\ ~NewOp.started /\ NewOp.call = "none" /\ NewOp.error = "none"
        /\ NewOp.outcome = "none" /\ NewOp.idle = 0 /\ ~NewOp.waiting /\ ~NewOp.timeout
    BY DEF NewOp, OpShape, OpFields
  <2>5. Shape(cl)
    BY <2>2, <2>3, <2>4 DEF Shape
  <2>6. Unopened(cl) /\ OpenWell(cl) /\ Clean(cl) /\ ~Beginning(cl)
    BY <2>2, <2>3, <2>4, Indices DEF Unopened, OpenWell, Clean, Beginning
  <2>7. ClientWell(cl)
    BY <2>5, <2>6 DEF ClientWell
  <2>8. ChannelWell(c, cl, inbox[c], outbox[c], callbacks)
    BY <2>6, BoxSingle DEF ChannelWell, Init, ClientInit
  <2>9. QED
    BY <2>7, <2>8 DEF cl
<1>3. QED
  BY <1>1, <1>2 DEF ProtocolInv

\* A step of the prompter or of the bus: messages are added to the inboxes,
\* and taken from the outboxes.
KeepsKinds(box, was) ==
    /\ Sendable(box)
    /\ \A d \in Callback : /\ \A kind : Lacks(was[d], kind) => Lacks(box[d], kind)
                           /\ Announced(was[d]) => Announced(box[d])

LEMMA PrompterKeeps ==
    ASSUME ProtocolInv, NEW c \in Callback, PrompterSends(c), client' = client,
           callbacks' \subseteq callbacks \/ ~Fresh(client[c]),
           NEW box, KeepsKinds(box, inbox), Deliver(box),
           Sendable(outbox)',
           \A d \in Callback : \A kind : Lacks(outbox[d], kind) => Lacks(outbox'[d], kind)
    PROVE  ProtocolInv'
<1>1. Sendable(sent')
  BY DEF PrompterSends
<1>2. DOMAIN inbox' = Callback /\ \A d \in Callback : inbox'[d] = box[d] \o sent'[d]
  BY DEF Deliver
<1>3. ASSUME NEW d \in Callback
      PROVE  /\ IsBox(inbox'[d])
             /\ \A kind : Lacks(inbox[d], kind) /\ Lacks(sent'[d], kind) =>
                             Lacks(inbox'[d], kind)
             /\ Announced(inbox[d]) => Announced(inbox'[d])
             /\ Lacks(inbox[d], "PromptDone") /\ Announced(sent'[d]) =>
                   Announced(inbox'[d])
  <2>1. /\ IsBox(box[d]) /\ IsBox(sent'[d]) /\ inbox'[d] = box[d] \o sent'[d]
        /\ \A kind : Lacks(inbox[d], kind) => Lacks(box[d], kind)
        /\ Announced(inbox[d]) => Announced(box[d])
    BY <1>1, <1>2 DEF KeepsKinds, Sendable
  <2>2. QED
    BY <2>1, BoxConcat
<1>4. Tables'
  BY <1>2, <1>3 DEF ProtocolInv, Tables, Sendable, Requests
<1>5. ASSUME NEW d \in Callback
      PROVE  ChannelWell(d, client[d], inbox'[d], outbox'[d], callbacks')
  <2>1. ChannelWell(d, client[d], inbox[d], outbox[d], callbacks)
    BY DEF ProtocolInv
  <2>2. Lacks(sent'[d], "PromptDone") \/ d \in callbacks
    BY DEF PrompterSends, Polite
  <2>3. ASSUME Fresh(client[d])
        PROVE  /\ d \notin callbacks' /\ Lacks(inbox'[d], "PromptDone")
               /\ Lacks(outbox'[d], "Begin")
    <3>1. /\ d \notin callbacks /\ Lacks(inbox[d], "PromptDone")
          /\ Lacks(outbox[d], "Begin")
      BY <2>1, <2>3 DEF ChannelWell
    <3>2. d \notin callbacks'
      BY <2>3, <3>1 DEF PrompterSends
    <3>3. QED
      BY <1>3, <2>2, <3>1, <3>2
  <2>4. ASSUME Beginning(client[d])
        PROVE  \/ Announced(inbox'[d])
               \/ d \notin callbacks' /\ Lacks(inbox'[d], "PromptDone")
    <3>1. CASE Announced(inbox[d])
      BY <1>3, <3>1
    <3>2. CASE d \notin callbacks /\ Lacks(inbox[d], "PromptDone")
      <4>1. d \in callbacks' => Announced(sent'[d])
        BY <3>2 DEF PrompterSends
      <4>2. QED
        BY <1>3, <2>2, <3>2, <4>1
    <3>3. QED
      BY <2>1, <2>4, <3>1, <3>2 DEF ChannelWell
  <2>5. QED
    BY <2>3, <2>4 DEF ChannelWell
<1>6. QED
  BY <1>4, <1>5 DEF ProtocolInv

LEMMA SameKinds == ASSUME NEW f, Sendable(f) PROVE KeepsKinds(f, f)
BY DEF KeepsKinds

\* Calls that are over are not answered any more; nothing else is forgotten.
LEMMA OrphanedKinds ==
    ASSUME NEW f, Sendable(f), NEW S
    PROVE  KeepsKinds(Orphaned(f, S), f)
<1> DEFINE g == Orphaned(f, S)
<1>1. ASSUME NEW d \in Callback
      PROVE  /\ DOMAIN g[d] = DOMAIN f[d]
             /\ \A i \in DOMAIN f[d] : "kind" \in DOMAIN g[d][i]
                                       /\ g[d][i].kind = f[d][i].kind
             /\ g[d] = [i \in DOMAIN f[d] |-> g[d][i]]
  <2>1. \A i \in DOMAIN f[d] : "kind" \in DOMAIN f[d][i]
    BY DEF Sendable, IsBox
  <2>2. g[d] = [i \in DOMAIN f[d] |->
                  IF "from" \in DOMAIN f[d][i] /\ f[d][i].from \in S
                  THEN [f[d][i] EXCEPT !.from = NoObject] ELSE f[d][i]]
    BY DEF Orphaned
  <2>3. \A i \in DOMAIN f[d] :
           g[d][i] = IF "from" \in DOMAIN f[d][i] /\ f[d][i].from \in S
                     THEN [f[d][i] EXCEPT !.from = NoObject] ELSE f[d][i]
    BY <2>2
  <2>4. DOMAIN g[d] = DOMAIN f[d] /\ g[d] = [i \in DOMAIN f[d] |-> g[d][i]]
    BY <2>2
  <2> HIDE DEF g
  <2>5. QED
    BY <2>1, <2>3, <2>4
<1>2. DOMAIN g = Callback
  BY DEF Orphaned
<1> HIDE DEF g
<1>3. ASSUME NEW d \in Callback PROVE IsBox(g[d])
  <2>1. PICK T : f[d] \in Seq(T)
    BY DEF Sendable, IsBox
  <2>2. Len(f[d]) \in Nat /\ DOMAIN f[d] = 1..Len(f[d])
    BY <2>1
  <2> DEFINE U == {g[d][i] : i \in DOMAIN f[d]}
  <2>3. g[d] \in [1..Len(f[d]) -> U]
    BY <1>1, <2>2
  <2>4. g[d] \in Seq(U)
    BY <2>2, <2>3
  <2>5. QED
    BY <1>1, <2>4 DEF IsBox
<1>4. \A d \in Callback : /\ \A kind : Lacks(f[d], kind) => Lacks(g[d], kind)
                          /\ Announced(f[d]) => Announced(g[d])
  BY <1>1 DEF Lacks, Announced
<1>5. QED
  BY <1>2, <1>3, <1>4 DEF KeepsKinds, Sendable, g

\* A box whose first message is taken.
LEMMA TakenKinds ==
    ASSUME NEW f, Sendable(f), NEW c \in Callback, f[c] # <<>>
    PROVE  /\ Sendable(With(f, c, Tail(f[c])))
           /\ \A d \in Callback : \A kind :
                 Lacks(f[d], kind) => Lacks(With(f, c, Tail(f[c]))[d], kind)
<1> DEFINE g == With(f, c, Tail(f[c]))
<1>1. /\ DOMAIN g = Callback
      /\ \A d \in Callback : g[d] = IF d = c THEN Tail(f[c]) ELSE f[d]
  BY DEF With, Sendable
<1>2. /\ IsBox(Tail(f[c]))
      /\ \A kind : Lacks(f[c], kind) => Lacks(Tail(f[c]), kind)
  BY BoxTail DEF Sendable
<1> HIDE DEF g
<1>3. QED
  BY <1>1, <1>2 DEF Sendable, g

LEMMA PrompterReceivesKeeps ==
    ASSUME ProtocolInv, NEW c \in Callback, PrompterReceives(c)
    PROVE  ProtocolInv'
<1> DEFINE m == Head(outbox[c])
<1>1. /\ outbox[c] # <<>> /\ outbox' = With(outbox, c, Tail(outbox[c]))
      /\ Deliver(inbox) /\ client' = client
  BY DEF PrompterReceives
<1>2. Sendable(inbox) /\ Sendable(outbox)
  BY DEF ProtocolInv, Tables
<1>3. /\ Sendable(outbox')
      /\ \A d \in Callback : \A kind : Lacks(outbox[d], kind) => Lacks(outbox'[d], kind)
  BY <1>1, <1>2, TakenKinds
<1>4. m.kind = "Begin" => ~Fresh(client[c])
  <2>1. Lacks(outbox[c], "Begin") => m.kind # "Begin"
    BY <1>1, <1>2, BoxTail DEF Sendable
  <2>2. QED
    BY <2>1 DEF ProtocolInv, ChannelWell
<1> HIDE DEF m
<1>5. /\ PrompterSends(c)
      /\ callbacks' \subseteq callbacks \/ ~Fresh(client[c])
  <2>1. CASE m.kind = "Begin" /\ Prompter!BeginPrompting(c)
    BY <1>4, <2>1, BeginSends
  <2>2. CASE Prompter!PerformPrompt(c, "confirm", m.question, TRUE)
    BY <2>2, PerformSends
  <2>3. CASE Prompter!StopPrompting(c)
    BY <2>3, StopSends
  <2>4. CASE Prompter!PromptReadyComplete(m.from, m.ok)
    BY <2>4, ReadySends
  <2>5. CASE sent' = Prompter!Nothing /\ callbacks' = callbacks
    BY <2>5, QuietSends
  <2>6. QED
    BY <2>1, <2>2, <2>3, <2>4, <2>5 DEF PrompterReceives, m
<1>6. KeepsKinds(inbox, inbox)
  BY <1>2, SameKinds
<1>7. QED
  BY <1>1, <1>3, <1>5, <1>6, PrompterKeeps

LEMMA DialogKeeps ==
    ASSUME ProtocolInv, NEW c \in Callback, PrompterSends(c),
           callbacks' \subseteq callbacks, Deliver(inbox), UNCHANGED <<client, outbox>>
    PROVE  ProtocolInv'
<1>1. Sendable(inbox) /\ Sendable(outbox)
  BY DEF ProtocolInv, Tables
<1>2. KeepsKinds(inbox, inbox)
  BY <1>1, SameKinds
<1>3. QED
  BY <1>1, <1>2, PrompterKeeps

LEMMA OrphansKeep ==
    ASSUME ProtocolInv, NEW c \in Callback, PrompterSends(c), NEW S,
           callbacks' \subseteq callbacks, Deliver(Orphaned(inbox, S)),
           outbox' = Orphaned(outbox, S), client' = client
    PROVE  ProtocolInv'
<1>1. Sendable(inbox) /\ Sendable(outbox)
  BY DEF ProtocolInv, Tables
<1>2. KeepsKinds(Orphaned(inbox, S), inbox) /\ KeepsKinds(Orphaned(outbox, S), outbox)
  BY <1>1, OrphanedKinds
<1>3. /\ Sendable(outbox')
      /\ \A d \in Callback : \A kind : Lacks(outbox[d], kind) => Lacks(outbox'[d], kind)
  BY <1>2 DEF KeepsKinds
<1>4. QED
  BY <1>2, <1>3, PrompterKeeps

LEMMA DiesSends ==
    ASSUME NEW c, PrompterDies
    PROVE  PrompterSends(c) /\ callbacks' \subseteq callbacks
<1>1. sent' = [d \in Callback |-> <<Vanished>>] /\ callbacks' = {}
  BY DEF PrompterDies
<1>2. IsBox(<<Vanished>>) /\ Lacks(<<Vanished>>, "PromptDone")
  BY BoxSingle, Kinds
<1>3. QED
  BY <1>1, <1>2 DEF PrompterSends, Sendable, Polite

\* The bus answers for a prompter that is gone.
LEMMA BusAnswersKeeps ==
    ASSUME ProtocolInv, NEW c \in Callback, BusAnswers(c)
    PROVE  ProtocolInv'
<1> DEFINE m == Head(outbox[c])
           reply == CASE m.kind = "Begin" -> <<Prompter!BeginReply(FALSE)>>
                      [] m.kind = "Perform" -> <<Vanished, Prompter!PerformReply(FALSE)>>
                      [] m.kind = "Stop" -> <<Prompter!StopReply>>
                      [] m.kind = "ReadyReply" -> <<>>
<1>1. /\ outbox[c] # <<>> /\ outbox' = With(outbox, c, Tail(outbox[c]))
      /\ inbox' = With(inbox, c, inbox[c] \o reply) /\ client' = client
      /\ callbacks' = callbacks
  BY DEF BusAnswers
<1>2. Sendable(inbox) /\ Sendable(outbox)
  BY DEF ProtocolInv, Tables
<1>3. /\ Sendable(outbox')
      /\ \A d \in Callback : \A kind : Lacks(outbox[d], kind) => Lacks(outbox'[d], kind)
  BY <1>1, <1>2, TakenKinds
<1>4. IsBox(reply) /\ Lacks(reply, "PromptDone")
  <2>1. m.kind \in {"Begin", "Perform", "Stop", "ReadyReply"}
    <3>1. \A kind : Lacks(outbox[c], kind) => m.kind # kind
      BY <1>1, <1>2, BoxTail DEF Sendable
    <3>2. QED
      BY <3>1 DEF ProtocolInv, Tables, Requests
  <2>2. \/ reply = <<>>
        \/ reply = <<Prompter!BeginReply(FALSE)>>
        \/ reply = <<Vanished, Prompter!PerformReply(FALSE)>>
        \/ reply = <<Prompter!StopReply>>
    BY <2>1
  <2> HIDE DEF reply
  <2>3. CASE reply = <<Vanished, Prompter!PerformReply(FALSE)>>
    <3> DEFINE p == Prompter!PerformReply(FALSE)
               v == Vanished
    <3>1. /\ "kind" \in DOMAIN v /\ v.kind # "PromptDone"
          /\ "kind" \in DOMAIN p /\ p.kind # "PromptDone"
      BY Kinds
    <3>2. reply = <<v, p>>
      BY <2>3
    <3> HIDE DEF p, v
    <3>3. <<v, p>> = <<v>> \o <<p>>
      OBVIOUS
    <3>4. /\ IsBox(<<v>>) /\ Lacks(<<v>>, "PromptDone")
          /\ IsBox(<<p>>) /\ Lacks(<<p>>, "PromptDone")
      BY <3>1, BoxSingle
    <3>5. QED
      BY <3>2, <3>3, <3>4, BoxConcat
  <2>4. CASE reply # <<Vanished, Prompter!PerformReply(FALSE)>>
    <3> DEFINE p == Prompter!BeginReply(FALSE)
               v == Prompter!StopReply
    <3>1. /\ "kind" \in DOMAIN v /\ v.kind # "PromptDone"
          /\ "kind" \in DOMAIN p /\ p.kind # "PromptDone"
      BY Kinds
    <3>2. reply \in {<<>>, <<p>>, <<v>>}
      BY <2>2, <2>4
    <3> HIDE DEF p, v
    <3>3. /\ IsBox(<<v>>) /\ Lacks(<<v>>, "PromptDone")
          /\ IsBox(<<p>>) /\ Lacks(<<p>>, "PromptDone")
          /\ IsBox(<<>>) /\ Lacks(<<>>, "PromptDone")
      BY <3>1, BoxSingle
    <3>4. QED
      BY <3>2, <3>3
  <2>5. QED
    BY <2>3, <2>4
<1> HIDE DEF reply, m
<1>5. /\ DOMAIN inbox' = Callback
      /\ \A d \in Callback : inbox'[d] = IF d = c THEN inbox[d] \o reply ELSE inbox[d]
  BY <1>1, <1>2 DEF With, Sendable
<1>6. \A d \in Callback :
         /\ IsBox(inbox'[d])
         /\ Lacks(inbox[d], "PromptDone") => Lacks(inbox'[d], "PromptDone")
         /\ Announced(inbox[d]) => Announced(inbox'[d])
  BY <1>2, <1>4, <1>5, BoxConcat DEF Sendable
<1>7. Tables'
  BY <1>1, <1>3, <1>5, <1>6 DEF ProtocolInv, Tables, Sendable, Requests
<1>8. \A d \in Callback : ChannelWell(d, client[d], inbox'[d], outbox'[d], callbacks)
  BY <1>3, <1>6 DEF ProtocolInv, ChannelWell
<1>9. QED
  BY <1>1, <1>7, <1>8 DEF ProtocolInv

\* A step of a prompt: it takes at most one message, and asks to begin only
\* when the bus is there.
LEMMA ClientKeeps ==
    ASSUME ProtocolInv, NEW c \in Callback, Moves(c), callbacks' = callbacks,
           \/ inbox' = inbox
           \/ inbox[c] # <<>> /\ Receive(c) /\ Head(inbox[c]).kind # "BeginReply",
           \/ outbox' = outbox
           \/ \E msgs : /\ IsBox(msgs) /\ Requests(msgs) /\ Lacks(msgs, "Begin")
                        /\ Transmit(c, msgs)
    PROVE  ProtocolInv'
<1>1. Sendable(inbox) /\ Sendable(outbox) /\ DOMAIN client = Callback
  BY DEF ProtocolInv, Tables
<1>2. /\ Sendable(inbox')
      /\ \A d \in Callback :
            /\ Lacks(inbox[d], "PromptDone") => Lacks(inbox'[d], "PromptDone")
            /\ Announced(inbox[d]) => Announced(inbox'[d])
  <2>1. CASE inbox' = inbox
    BY <1>1, <2>1
  <2>2. CASE inbox[c] # <<>> /\ Receive(c) /\ Head(inbox[c]).kind # "BeginReply"
    <3>1. /\ Sendable(inbox')
          /\ \A d \in Callback : \A kind : Lacks(inbox[d], kind) => Lacks(inbox'[d], kind)
      BY <1>1, <2>2, TakenKinds DEF Receive
    <3>2. Announced(inbox[c]) => Announced(Tail(inbox[c]))
      BY <1>1, <2>2, BoxTail DEF Sendable
    <3>3. \A d \in Callback : inbox'[d] = IF d = c THEN Tail(inbox[c]) ELSE inbox[d]
      BY <1>1, <2>2 DEF Receive, With, Sendable
    <3>4. QED
      BY <3>1, <3>2, <3>3
  <2>3. QED
    BY <2>1, <2>2
<1>3. /\ Sendable(outbox') /\ \A d \in Callback : Requests(outbox'[d])
      /\ \A d \in Callback : Lacks(outbox[d], "Begin") => Lacks(outbox'[d], "Begin")
  <2>1. CASE outbox' = outbox
    BY <1>1, <2>1 DEF ProtocolInv, Tables
  <2>2. ASSUME NEW msgs, IsBox(msgs), Requests(msgs), Lacks(msgs, "Begin"),
               Transmit(c, msgs)
        PROVE  <1>3
    <3>1. /\ DOMAIN outbox' = Callback
          /\ \A d \in Callback :
                outbox'[d] = IF d = c THEN outbox[c] \o msgs ELSE outbox[d]
      BY <1>1, <2>2 DEF Transmit, With, Sendable
    <3>2. /\ IsBox(outbox[c] \o msgs)
          /\ \A kind : Lacks(outbox[c], kind) /\ Lacks(msgs, kind) =>
                          Lacks(outbox[c] \o msgs, kind)
      BY <1>1, <2>2, BoxConcat DEF Sendable
    <3>3. Requests(outbox[c] \o msgs)
      BY <2>2, <3>2 DEF Requests, ProtocolInv, Tables
    <3>4. QED
      BY <1>1, <2>2, <3>1, <3>2, <3>3 DEF Sendable, ProtocolInv, Tables
  <2>3. QED
    BY <2>1, <2>2
<1>4. /\ DOMAIN client' = Callback
      /\ \A d \in Callback : Advances(client[d], client'[d])
  <2>1. \A d \in Callback : Advances(client[d], client[d])
    BY DEF Advances, ProtocolInv
  <2>2. CASE client' = client
    BY <1>1, <2>1, <2>2
  <2>3. CASE \E e : client' = With(client, c, e) /\ Advances(client[c], e)
    <3>1. PICK e : client' = With(client, c, e) /\ Advances(client[c], e)
      BY <2>3
    <3>2. /\ DOMAIN client' = Callback
          /\ \A d \in Callback : client'[d] = IF d = c THEN e ELSE client[d]
      BY <1>1, <3>1 DEF With
    <3>3. QED
      BY <2>1, <3>1, <3>2
  <2>4. QED
    BY <2>2, <2>3 DEF Moves
<1>5. Tables'
  BY <1>2, <1>3, <1>4 DEF Tables
<1>6. \A d \in Callback : /\ ClientWell(client'[d])
                          /\ ChannelWell(d, client'[d], inbox'[d], outbox'[d], callbacks')
  BY <1>2, <1>3, <1>4 DEF ProtocolInv, ChannelWell, Advances
<1>7. QED
  BY <1>5, <1>6 DEF ProtocolInv

\* on_bus_connected asks to begin.
LEMMA BeginsKeeps ==
    ASSUME ProtocolInv, NEW c \in Callback, Begins(c), inbox' = inbox,
           callbacks' = callbacks
    PROVE  ProtocolInv'
<1>1. Sendable(inbox) /\ Sendable(outbox) /\ DOMAIN client = Callback
  BY DEF ProtocolInv, Tables
<1>2. PICK e : client' = With(client, c, e) /\ ClientWell(e) /\ ~Fresh(e)
  BY DEF Begins
<1>3. /\ DOMAIN client' = Callback
      /\ \A d \in Callback : client'[d] = IF d = c THEN e ELSE client[d]
  BY <1>1, <1>2 DEF With
<1>4. /\ DOMAIN outbox' = Callback
      /\ \A d \in Callback :
            outbox'[d] = IF d = c THEN outbox[c] \o <<Begin>> ELSE outbox[d]
  BY <1>1 DEF Begins, Transmit, With, Sendable
<1>5. IsBox(outbox[c] \o <<Begin>>) /\ Requests(outbox[c] \o <<Begin>>)
  <2> DEFINE m == Begin
  <2>1. "kind" \in DOMAIN m /\ m.kind = "Begin"
    BY DEF Begin
  <2> HIDE DEF m
  <2>2. IsBox(<<m>>) /\ \A kind : m.kind # kind => Lacks(<<m>>, kind)
    BY <2>1, BoxSingle
  <2>3. /\ IsBox(outbox[c] \o <<m>>)
        /\ \A kind : Lacks(outbox[c], kind) /\ Lacks(<<m>>, kind) =>
                        Lacks(outbox[c] \o <<m>>, kind)
    BY <1>1, <2>2, BoxConcat DEF Sendable
  <2>4. Requests(outbox[c] \o <<m>>)
    BY <2>1, <2>2, <2>3 DEF Requests, ProtocolInv, Tables
  <2>5. QED
    BY <2>3, <2>4 DEF m
<1>6. Tables'
  BY <1>1, <1>3, <1>4, <1>5 DEF Tables, Sendable, ProtocolInv
<1>7. c \notin callbacks /\ Lacks(inbox[c], "PromptDone")
  BY DEF Begins, ProtocolInv, ChannelWell
<1>8. \A d \in Callback : /\ ClientWell(client'[d])
                          /\ ChannelWell(d, client'[d], inbox'[d], outbox'[d], callbacks')
  BY <1>2, <1>3, <1>4, <1>7 DEF ProtocolInv, ChannelWell
<1>9. QED
  BY <1>6, <1>8 DEF ProtocolInv

\* on_prompter_begin_prompting ends the beginning.
LEMMA BeginReplyKeeps ==
    ASSUME ProtocolInv, NEW c \in Callback, ReceiveBeginReply(c), callbacks' = callbacks
    PROVE  ProtocolInv'
<1>1. Sendable(inbox) /\ Sendable(outbox) /\ DOMAIN client = Callback
  BY DEF ProtocolInv, Tables
<1>2. inbox[c] # <<>> /\ Receive(c) /\ outbox' = outbox
  BY DEF ReceiveBeginReply, Got
<1>3. /\ Sendable(inbox')
      /\ \A d \in Callback : \A kind : Lacks(inbox[d], kind) => Lacks(inbox'[d], kind)
  BY <1>1, <1>2, TakenKinds DEF Receive
<1>4. \A d \in Callback : d # c => inbox'[d] = inbox[d]
  BY <1>1, <1>2 DEF Receive, With, Sendable
<1>5. /\ DOMAIN client' = Callback
      /\ \A d \in Callback : d # c => client'[d] = client[d]
      /\ ClientWell(client'[c]) /\ ~Beginning(client'[c])
      /\ Fresh(client'[c]) => Fresh(client[c])
  <2>1. ClientWell(client[c])
    BY DEF ProtocolInv
  <2>2. CASE client' = client /\ ~Beginning(client[c])
    BY <1>1, <2>1, <2>2
  <2>3. CASE \E e : client' = With(client, c, e) /\ ClientWell(e)
                       /\ ~Fresh(e) /\ ~Beginning(e)
    <3>1. PICK e : client' = With(client, c, e) /\ ClientWell(e)
                      /\ ~Fresh(e) /\ ~Beginning(e)
      BY <2>3
    <3>2. /\ DOMAIN client' = Callback
          /\ \A d \in Callback : client'[d] = IF d = c THEN e ELSE client[d]
      BY <1>1, <3>1 DEF With
    <3>3. QED
      BY <3>1, <3>2
  <2>4. QED
    BY <2>1, <2>2, <2>3, BeginReplyMoves
<1>6. Tables'
  BY <1>1, <1>2, <1>3, <1>5 DEF Tables, ProtocolInv
<1>7. ASSUME NEW d \in Callback
      PROVE  /\ ClientWell(client'[d])
             /\ ChannelWell(d, client'[d], inbox'[d], outbox'[d], callbacks')
  <2>1. /\ ClientWell(client[d])
        /\ ChannelWell(d, client[d], inbox[d], outbox[d], callbacks)
    BY DEF ProtocolInv
  <2>2. CASE d = c
    BY <1>2, <1>3, <1>5, <2>1, <2>2 DEF ChannelWell
  <2>3. CASE d # c
    BY <1>2, <1>4, <1>5, <2>1, <2>3
  <2>4. QED
    BY <2>2, <2>3
<1>8. QED
  BY <1>6, <1>7 DEF ProtocolInv

\* What a prompt sends besides Begin.
Ordinary(msgs) == IsBox(msgs) /\ Requests(msgs) /\ Lacks(msgs, "Begin")

LEMMA OrdinaryMessages ==
    /\ Ordinary(<<>>) /\ Ordinary(<<Stop>>)
    /\ \A q : Ordinary(<<Perform(q)>>)
    /\ \A ok, o : Ordinary(<<ReadyReply(ok, o)>>)
<1>1. ASSUME NEW m, "kind" \in DOMAIN m, m.kind \in {"Perform", "Stop", "ReadyReply"}
      PROVE  Ordinary(<<m>>)
  BY <1>1, BoxSingle DEF Ordinary, Requests
<1>2. /\ "kind" \in DOMAIN Stop /\ Stop.kind = "Stop"
      /\ \A q : "kind" \in DOMAIN Perform(q) /\ Perform(q).kind = "Perform"
      /\ \A ok, o : /\ "kind" \in DOMAIN ReadyReply(ok, o)
                    /\ ReadyReply(ok, o).kind = "ReadyReply"
  BY DEF Stop, Perform, ReadyReply
<1>3. Ordinary(<<>>)
  BY BoxSingle DEF Ordinary, Requests
<1>4. QED
  BY <1>1, <1>2, <1>3

\* A step that takes nothing.
LEMMA CallKeeps ==
    ASSUME ProtocolInv, NEW c \in Callback, Moves(c), callbacks' = callbacks,
           inbox' = inbox,
           outbox' = outbox \/ \E msgs : Ordinary(msgs) /\ Transmit(c, msgs)
    PROVE  ProtocolInv'
BY ClientKeeps DEF Ordinary

\* A step that takes a message other than the answer to BeginPrompting.
LEMMA ReceiptKeeps ==
    ASSUME ProtocolInv, NEW c \in Callback, Moves(c), callbacks' = callbacks,
           NEW kind, Got(c, kind), kind # "BeginReply", Receive(c),
           outbox' = outbox \/ \E msgs : Ordinary(msgs) /\ Transmit(c, msgs)
    PROVE  ProtocolInv'
BY ClientKeeps DEF Ordinary, Got

LEMMA DoneIsLate ==
    ASSUME ProtocolInv, NEW c \in Callback, Got(c, "PromptDone")
    PROVE  ~Fresh(client[c]) /\ ~Beginning(client[c])
<1>1. IsBox(inbox[c]) /\ inbox[c] # <<>> /\ Head(inbox[c]).kind = "PromptDone"
  BY DEF ProtocolInv, Tables, Sendable, Got
<1>2. ~Lacks(inbox[c], "PromptDone") /\ ~Announced(inbox[c])
  BY <1>1, BoxTail
<1>3. QED
  BY <1>2 DEF ProtocolInv, ChannelWell

LEMMA ClosingCallsOrdinary == ASSUME NEW cl PROVE Ordinary(ClosingCalls(cl))
BY OrdinaryMessages DEF ClosingCalls

LEMMA ReceivesKeeps ==
    ASSUME ProtocolInv, NEW c \in Callback, ClientReceives(c), callbacks' = callbacks
    PROVE  ProtocolInv'
<1>1. ClientWell(client[c])
  BY DEF ProtocolInv
<1>2. CASE ReceiveBeginReply(c)
  BY <1>2, BeginReplyKeeps
<1>3. CASE ReceivePerformReply(c)
  <2>1. Got(c, "PerformReply") /\ Receive(c) /\ outbox' = outbox
    BY <1>3 DEF ReceivePerformReply
  <2>2. QED
    BY <1>1, <1>3, <2>1, PerformReplyMoves, ReceiptKeeps
<1>4. CASE ReceiveStopReply(c)
  <2>1. Got(c, "StopReply") /\ Receive(c) /\ outbox' = outbox
    BY <1>4 DEF ReceiveStopReply
  <2>2. QED
    BY <1>1, <1>4, <2>1, StopReplyMoves, ReceiptKeeps
<1>5. CASE ReceivePromptReady(c)
  <2>1. /\ Got(c, "PromptReady") /\ Receive(c)
        /\ outbox' = outbox \/ \E ok, o : Transmit(c, <<ReadyReply(ok, o)>>)
    BY <1>5 DEF ReceivePromptReady
  <2>2. outbox' = outbox \/ \E msgs : Ordinary(msgs) /\ Transmit(c, msgs)
    BY <2>1, OrdinaryMessages
  <2>3. QED
    BY <1>1, <1>5, <2>1, <2>2, PromptReadyMoves, ReceiptKeeps
<1>6. CASE ReceivePromptDone(c)
  <2>1. Got(c, "PromptDone") /\ Receive(c) /\ outbox' = outbox
    BY <1>6 DEF ReceivePromptDone
  <2>2. Moves(c)
    BY <1>1, <1>6, <2>1, DoneIsLate, PromptDoneMoves
  <2>3. QED
    BY <2>1, <2>2, ReceiptKeeps
<1>7. CASE ReceiveVanished(c)
  <2>1. Got(c, "Vanished") /\ Receive(c) /\ outbox' = outbox
    BY <1>7 DEF ReceiveVanished
  <2>2. QED
    BY <1>1, <1>7, <2>1, VanishedMoves, ReceiptKeeps
<1>8. QED
  BY <1>2, <1>3, <1>4, <1>5, <1>6, <1>7 DEF ClientReceives

LEMMA DispatchesKeeps ==
    ASSUME ProtocolInv, NEW c \in Callback, ClientDispatches(c) \/ TimeoutFires(c),
           callbacks' = callbacks, registered \in BOOLEAN
    PROVE  ProtocolInv'
<1>1. ClientWell(client[c])
  BY DEF ProtocolInv
<1>2. ASSUME NEW ok \in BOOLEAN, BusConnected(c, ok, registered) PROVE ProtocolInv'
  <2>1. inbox' = inbox
    BY <1>2 DEF BusConnected
  <2>2. CASE Begins(c)
    BY <2>1, <2>2, BeginsKeeps
  <2>3. CASE Moves(c) /\ UNCHANGED outbox
    BY <2>1, <2>3, CallKeeps
  <2>4. QED
    BY <1>1, <1>2, <2>2, <2>3, BusConnectedMoves
<1>3. ASSUME NEW k \in OpIndex, CallCancelled(c, k) PROVE ProtocolInv'
  <2>1. inbox' = inbox /\ outbox' = outbox
    BY <1>3 DEF CallCancelled
  <2>2. QED
    BY <1>1, <1>3, <2>1, CallCancelledMoves, CallKeeps
<1>4. ASSUME NEW k \in OpIndex, WaitingFires(c, k) PROVE ProtocolInv'
  <2>1. inbox' = inbox /\ Transmit(c, ClosingCalls(client[c]))
    BY <1>4 DEF WaitingFires
  <2>2. QED
    BY <1>1, <1>4, <2>1, WaitingMoves, ClosingCallsOrdinary, CallKeeps
<1>5. ASSUME NEW k \in OpIndex, IdleFires(c, k) PROVE ProtocolInv'
  <2>1. inbox' = inbox /\ outbox' = outbox
    BY <1>5 DEF IdleFires
  <2>2. QED
    BY <1>1, <1>5, <2>1, IdleMoves, CallKeeps
<1>6. CASE CloseIdleFires(c)
  <2>1. inbox' = inbox /\ outbox' = outbox
    BY <1>6 DEF CloseIdleFires
  <2>2. QED
    BY <1>1, <1>6, <2>1, StopReplyMoves, CallKeeps
<1>7. CASE TimeoutFires(c)
  <2>1. inbox' = inbox /\ Transmit(c, ClosingCalls(client[c]))
    BY <1>7 DEF TimeoutFires
  <2>2. QED
    BY <1>1, <1>7, <2>1, TimeoutMoves, ClosingCallsOrdinary, CallKeeps
<1>8. QED
  BY <1>2, <1>3, <1>4, <1>5, <1>6, <1>7 DEF ClientDispatches

LEMMA ApplicationKeeps ==
    ASSUME ProtocolInv, NEW c \in Callback, Application(c), callbacks' = callbacks
    PROVE  ProtocolInv'
<1>1. ClientWell(client[c])
  BY DEF ProtocolInv
<1>2. CASE Open(c)
  <2>1. inbox' = inbox /\ outbox' = outbox
    BY <1>2 DEF Open
  <2>2. QED
    BY <1>1, <1>2, <2>1, OpenMoves, CallKeeps
<1>3. ASSUME NEW k \in Questions, NEW b \in BOOLEAN, PerformPromptAsync(c, k, b)
      PROVE  ProtocolInv'
  <2>1. /\ inbox' = inbox
        /\ \/ outbox' = outbox
           \/ Transmit(c, <<>>) \/ Transmit(c, <<Perform(k)>>)
    BY <1>3 DEF PerformPromptAsync
  <2>2. outbox' = outbox \/ \E msgs : Ordinary(msgs) /\ Transmit(c, msgs)
    BY <2>1, OrdinaryMessages
  <2>3. QED
    BY <1>1, <1>3, <2>1, <2>2, PerformMoves, CallKeeps
<1>4. ASSUME NEW k \in OpIndex, Cancel(c, k) PROVE ProtocolInv'
  <2>1. inbox' = inbox /\ outbox' = outbox
    BY <1>4 DEF Cancel
  <2>2. QED
    BY <1>1, <1>4, <2>1, CancelMoves, CallKeeps
<1>5. CASE CloseAsync(c) \/ RealClose(c)
  <2>1. inbox' = inbox /\ Transmit(c, ClosingCalls(client[c]))
    BY <1>5 DEF CloseAsync, RealClose
  <2>2. QED
    BY <1>1, <1>5, <2>1, CloseMoves, ClosingCallsOrdinary, CallKeeps
<1>6. QED
  BY <1>2, <1>3, <1>4, <1>5 DEF Application

Registered == registered \in BOOLEAN

LEMMA StepKeeps ==
    ProtocolInv /\ Registered /\ [Next]_protocolVars => ProtocolInv' /\ Registered'
<1> SUFFICES ASSUME ProtocolInv, Registered, [Next]_protocolVars
             PROVE  ProtocolInv' /\ Registered'
  OBVIOUS
<1>1. ASSUME NEW c \in Callback, PrompterReceives(c) PROVE ProtocolInv' /\ Registered'
  <2>1. registered' = registered
    BY <1>1 DEF PrompterReceives, Prompter!BeginPrompting, Prompter!PerformPrompt,
                Prompter!StopPrompting, Prompter!PromptReadyComplete
  <2>2. QED
    BY <1>1, <2>1, PrompterReceivesKeeps DEF Registered
<1>2. ASSUME NEW c \in Callback, UserCloses(c) PROVE ProtocolInv' /\ Registered'
  <2>1. /\ Prompter!PromptClosed(c) /\ Deliver(inbox) /\ UNCHANGED <<client, outbox>>
        /\ registered' = registered
    BY <1>2 DEF UserCloses, Prompter!PromptClosed
  <2>2. QED
    BY <2>1, ClosedSends, DialogKeeps DEF Registered
<1>3. ASSUME NEW c \in Callback, BusAnswers(c) PROVE ProtocolInv' /\ Registered'
  BY <1>3, BusAnswersKeeps DEF BusAnswers, Registered
<1>4. ASSUME NEW o \in Object, PromptReadyGivenUp(o), NEW c \in Callback
      PROVE  ProtocolInv' /\ Registered'
  <2>1. /\ Prompter!PromptReadyComplete(o, FALSE) /\ Deliver(Orphaned(inbox, {o}))
        /\ outbox' = Orphaned(outbox, {o}) /\ client' = client
        /\ registered' = registered
    BY <1>4 DEF PromptReadyGivenUp, Prompter!PromptReadyComplete
  <2>2. QED
    BY <2>1, ReadySends, OrphansKeep DEF Registered
<1>5. ASSUME NEW o \in Object, UserAnswers(o), NEW c \in Callback
      PROVE  ProtocolInv' /\ Registered'
  <2>1. PICK r : Prompter!PromptComplete(o, r)
    BY <1>5 DEF UserAnswers
  <2>2. /\ Deliver(inbox) /\ UNCHANGED <<client, outbox>> /\ registered' = registered
    BY <1>5, <2>1 DEF UserAnswers, Prompter!PromptComplete
  <2>3. QED
    BY <2>1, <2>2, CompleteSends, DialogKeeps DEF Registered
<1>6. ASSUME PrompterDies, NEW c \in Callback PROVE ProtocolInv' /\ Registered'
  <2>1. /\ Deliver(Orphaned(inbox, Object)) /\ outbox' = Orphaned(outbox, Object)
        /\ client' = client /\ registered' = FALSE
    BY <1>6 DEF PrompterDies
  <2>2. QED
    BY <1>6, <2>1, DiesSends, OrphansKeep DEF Registered
<1>7. ASSUME NEW c \in Callback, Client(c), Apart PROVE ProtocolInv' /\ Registered'
  <2>1. callbacks' = callbacks /\ registered' = registered
    BY <1>7 DEF Apart
  <2>2. QED
    BY <1>7, <2>1, ReceivesKeeps, DispatchesKeeps, ApplicationKeeps DEF Client, Registered
<1>8. CASE UNCHANGED protocolVars
  BY <1>8 DEF protocolVars, clientVars, prompterVars, ProtocolInv, Tables, Sendable,
              Registered
<1>9. CASE Callback = {}
  <2>1. Registered'
    BY <1>8, <1>9 DEF Next, PromptReadyGivenUp, UserAnswers, PrompterDies,
          Prompter!PromptReadyComplete, Prompter!PromptComplete, Registered
  <2>2. DOMAIN client' = Callback /\ Sendable(inbox') /\ Sendable(outbox')
    BY <1>8, <1>9 DEF Next, PromptReadyGivenUp, UserAnswers, PrompterDies, Deliver,
          Orphaned, ProtocolInv, Tables, Sendable
  <2>3. QED
    BY <1>9, <2>1, <2>2 DEF ProtocolInv, Tables
<1>10. CASE Callback # {}
  BY <1>1, <1>2, <1>3, <1>4, <1>5, <1>6, <1>7, <1>8, <1>10 DEF Next
<1>11. QED
  BY <1>9, <1>10

\* Whatever the prompter, the bus, the callers and the user do, a prompt that
\* perform_close has closed, or that could not be opened, has no pending
\* operation, is not exported and will not call StopPrompting again.
THEOREM ClosedStaysClean == Spec => []ClosedIsClean
<1>1. Init => ProtocolInv /\ Registered
  BY InitEstablishes DEF Init, Registered
<1>2. ProtocolInv => ClosedIsClean
  BY DEF ProtocolInv, ClientWell, Clean, ClosedIsClean
<1>3. QED
  BY <1>1, <1>2, StepKeeps, PTL DEF Spec

-----------------------------------------------------------------------------
(* Nobody waits for nothing: prompts on which no PerformPrompt failed.      *)
(*                                                                         *)
(* What a prompt waits for is in one place at a time: its call on the way   *)
(* to the prompter, its place in the queue, the dialog, or the PromptReady  *)
(* on its way back; and the reply to PerformPrompt comes before the         *)
(* PromptReady that answers it.  InStep says so for one prompt, in terms of *)
(* its state cl, its channels in and out, and the three facts the prompter  *)
(* keeps about it: whether it is queued, whether it has a dialog, and what  *)
(* that dialog asks.                                                       *)

Ready == {"PromptReady"}
Answer == {"PerformReply"}
Calls == {"Begin", "Perform"}
Opening == {"Begin"}
Request == {"Perform"}
Relief == {"PromptReady", "PromptDone", "Vanished"}

None(s, K) == \A i \in DOMAIN s : s[i].kind \notin K
Few(s, K) == \A i, j \in DOMAIN s : s[i].kind \in K /\ s[j].kind \in K => i = j
Ordered(s) == \A i, j \in DOMAIN s :
    s[i].kind = "PromptReady" /\ s[j].kind = "PerformReply" => j < i
Says(m, ok) == m.kind = "PerformReply" /\ (m.ok <=> ok)
Replied(s, ok) == \E i \in DOMAIN s : Says(s[i], ok)
Concerns(s, K, Q) == \A i \in DOMAIN s : s[i].kind \in K => s[i].question \in Q
Proper(s) == \A i \in DOMAIN s :
    /\ s[i].kind \in {"PromptReady", "Perform"} => "question" \in DOMAIN s[i]
    /\ s[i].kind = "PerformReply" => "ok" \in DOMAIN s[i]

\* u is s with the messages t behind it.
Joined(s, t, u) ==
    /\ \A K : None(u, K) <=> None(s, K) /\ None(t, K)
    /\ \A K : Few(s, K) /\ None(t, K) => Few(u, K)
    /\ \A K : None(s, K) /\ Few(t, K) => Few(u, K)
    /\ Ordered(s) /\ Ordered(t) /\ (None(s, Ready) \/ None(t, Answer)) => Ordered(u)
    /\ \A ok : Replied(u, ok) <=> Replied(s, ok) \/ Replied(t, ok)
    /\ \A K, Q : Concerns(u, K, Q) <=> Concerns(s, K, Q) /\ Concerns(t, K, Q)
    /\ Proper(u) <=> Proper(s) /\ Proper(t)

LEMMA JoinedBoxes ==
    ASSUME NEW s, NEW t, IsBox(s), IsBox(t)
    PROVE  IsBox(s \o t) /\ Joined(s, t, s \o t)
<1>0. IsBox(s \o t)
  BY BoxConcat
<1>1. PICK S : s \in Seq(S)
  BY DEF IsBox
<1>2. PICK T : t \in Seq(T)
  BY DEF IsBox
<1>3. s \in Seq(S \cup T) /\ t \in Seq(S \cup T)
  BY <1>1, <1>2
<1> DEFINE u == s \o t
<1>4. /\ Len(s) \in Nat /\ Len(t) \in Nat
      /\ DOMAIN s = 1..Len(s) /\ DOMAIN t = 1..Len(t)
      /\ DOMAIN u = 1..(Len(s) + Len(t))
      /\ \A i \in DOMAIN u : u[i] = IF i <= Len(s) THEN s[i] ELSE t[i - Len(s)]
  BY <1>3
<1> HIDE DEF u
<1>5. \A i \in DOMAIN u : \/ i \in DOMAIN s /\ u[i] = s[i]
                          \/ \E j \in DOMAIN t : i = j + Len(s) /\ u[i] = t[j]
  <2> SUFFICES ASSUME NEW i \in DOMAIN u, i \notin DOMAIN s
               PROVE  \E j \in DOMAIN t : i = j + Len(s) /\ u[i] = t[j]
    BY <1>4
  <2>1. i - Len(s) \in DOMAIN t /\ i = (i - Len(s)) + Len(s) /\ u[i] = t[i - Len(s)]
    BY <1>4
  <2>2. QED
    BY <2>1
<1>6. /\ \A i \in DOMAIN s : i \in DOMAIN u /\ u[i] = s[i]
      /\ \A j \in DOMAIN t : j + Len(s) \in DOMAIN u /\ u[j + Len(s)] = t[j]
  BY <1>4
<1>7. \A K : None(u, K) <=> None(s, K) /\ None(t, K)
  <2> TAKE K
  <2>1. ASSUME None(s, K), None(t, K) PROVE None(u, K)
    BY <2>1, <1>5 DEF None
  <2>2. ASSUME None(u, K) PROVE None(s, K)
    BY <2>2, <1>6 DEF None
  <2>3. ASSUME None(u, K) PROVE None(t, K)
    <3> SUFFICES ASSUME NEW j \in DOMAIN t PROVE t[j].kind \notin K
      BY DEF None
    <3>1. j + Len(s) \in DOMAIN u /\ u[j + Len(s)] = t[j]
      BY <1>6
    <3>2. QED
      BY <2>3, <3>1 DEF None
  <2>4. QED
    BY <2>1, <2>2, <2>3
<1>8. \A K : Few(s, K) /\ None(t, K) => Few(u, K)
  BY <1>5 DEF Few, None
<1>9. ASSUME NEW K, None(s, K), Few(t, K) PROVE Few(u, K)
  <2> SUFFICES ASSUME NEW i \in DOMAIN u, NEW j \in DOMAIN u,
                      u[i].kind \in K, u[j].kind \in K
               PROVE  i = j
    BY DEF Few
  <2>1. PICK a \in DOMAIN t : i = a + Len(s) /\ u[i] = t[a]
    BY <1>5, <1>9 DEF None
  <2>2. PICK b \in DOMAIN t : j = b + Len(s) /\ u[j] = t[b]
    BY <1>5, <1>9 DEF None
  <2>3. a = b
    BY <1>9, <2>1, <2>2 DEF Few
  <2>4. QED
    BY <2>1, <2>2, <2>3
<1>10. ASSUME Ordered(s), Ordered(t), None(s, Ready) \/ None(t, Answer)
       PROVE  Ordered(u)
  <2> SUFFICES ASSUME NEW i \in DOMAIN u, NEW j \in DOMAIN u,
                      u[i].kind = "PromptReady", u[j].kind = "PerformReply"
               PROVE  j < i
    BY DEF Ordered
  <2>1. CASE i \in DOMAIN s /\ u[i] = s[i]
    <3>1. j \in DOMAIN s /\ u[j] = s[j]
      BY <1>5, <1>10, <2>1 DEF None, Ready, Answer
    <3>2. QED
      BY <1>10, <2>1, <3>1 DEF Ordered
  <2>2. CASE \E a \in DOMAIN t : i = a + Len(s) /\ u[i] = t[a]
    <3>1. PICK a \in DOMAIN t : i = a + Len(s) /\ u[i] = t[a]
      BY <2>2
    <3>2. CASE j \in DOMAIN s
      BY <1>4, <3>1, <3>2
    <3>3. CASE \E b \in DOMAIN t : j = b + Len(s) /\ u[j] = t[b]
      <4>1. PICK b \in DOMAIN t : j = b + Len(s) /\ u[j] = t[b]
        BY <3>3
      <4>2. b < a
        BY <1>10, <3>1, <4>1 DEF Ordered
      <4>3. QED
        BY <1>4, <3>1, <4>1, <4>2
    <3>4. QED
      BY <1>5, <3>2, <3>3
  <2>3. QED
    BY <1>5, <2>1, <2>2
<1>11. ASSUME NEW ok PROVE Replied(u, ok) <=> Replied(s, ok) \/ Replied(t, ok)
  <2>1. ASSUME Replied(u, ok) PROVE Replied(s, ok) \/ Replied(t, ok)
    BY <2>1, <1>5 DEF Replied
  <2>2. ASSUME Replied(s, ok) PROVE Replied(u, ok)
    BY <2>2, <1>6 DEF Replied
  <2>3. ASSUME Replied(t, ok) PROVE Replied(u, ok)
    <3>1. PICK j \in DOMAIN t : Says(t[j], ok)
      BY <2>3 DEF Replied
    <3>2. j + Len(s) \in DOMAIN u /\ u[j + Len(s)] = t[j]
      BY <1>6
    <3>3. QED
      BY <3>1, <3>2 DEF Replied
  <2>4. QED
    BY <2>1, <2>2, <2>3
<1>12. ASSUME NEW K, NEW Q
       PROVE  Concerns(u, K, Q) <=> Concerns(s, K, Q) /\ Concerns(t, K, Q)
  <2>1. ASSUME Concerns(s, K, Q), Concerns(t, K, Q) PROVE Concerns(u, K, Q)
    BY <2>1, <1>5 DEF Concerns
  <2>2. ASSUME Concerns(u, K, Q) PROVE Concerns(s, K, Q)
    BY <2>2, <1>6 DEF Concerns
  <2>3. ASSUME Concerns(u, K, Q) PROVE Concerns(t, K, Q)
    <3> SUFFICES ASSUME NEW j \in DOMAIN t, t[j].kind \in K PROVE t[j].question \in Q
      BY DEF Concerns
    <3>1. j + Len(s) \in DOMAIN u /\ u[j + Len(s)] = t[j]
      BY <1>6
    <3>2. QED
      BY <2>3, <3>1 DEF Concerns
  <2>4. QED
    BY <2>1, <2>2, <2>3
<1>13. Proper(u) <=> Proper(s) /\ Proper(t)
  <2>1. ASSUME Proper(s), Proper(t) PROVE Proper(u)
    BY <2>1, <1>5 DEF Proper
  <2>2. ASSUME Proper(u) PROVE Proper(s)
    BY <2>2, <1>6 DEF Proper
  <2>3. ASSUME Proper(u), NEW j \in DOMAIN t
        PROVE  /\ t[j].kind \in {"PromptReady", "Perform"} => "question" \in DOMAIN t[j]
               /\ t[j].kind = "PerformReply" => "ok" \in DOMAIN t[j]
    <3>1. j + Len(s) \in DOMAIN u /\ u[j + Len(s)] = t[j]
      BY <1>6
    <3>2. QED
      BY <2>3, <3>1 DEF Proper
  <2>4. QED
    BY <2>1, <2>2, <2>3 DEF Proper
<1>14. QED
  BY <1>0, <1>7, <1>8, <1>9, <1>10, <1>11, <1>12, <1>13 DEF Joined, u

\* t is s without its head m.
Taken(s, m, t) ==
    /\ \A K : None(s, K) <=> None(t, K) /\ m.kind \notin K
    /\ \A K : Few(s, K) => Few(t, K) /\ (m.kind \in K => None(t, K))
    /\ Ordered(s) => Ordered(t) /\ (m.kind = "PromptReady" => None(t, Answer))
    /\ \A ok : Replied(s, ok) <=> \/ Replied(t, ok)
                                  \/ Says(m, ok)
    /\ \A K, Q : Concerns(s, K, Q) => Concerns(t, K, Q) /\ (m.kind \in K => m.question \in Q)
    /\ Proper(s) => Proper(t)

LEMMA TakenBoxes ==
    ASSUME NEW s, IsBox(s), s # <<>>
    PROVE  IsBox(Tail(s)) /\ Taken(s, Head(s), Tail(s))
<1>0. IsBox(Tail(s))
  BY BoxTail
<1>1. PICK S : s \in Seq(S)
  BY DEF IsBox
<1> DEFINE t == Tail(s)
           m == Head(s)
<1>2. /\ Len(s) \in Nat /\ Len(s) # 0 /\ DOMAIN s = 1..Len(s)
      /\ DOMAIN t = 1..(Len(s) - 1) /\ m = s[1]
      /\ \A i \in DOMAIN t : t[i] = s[i + 1]
  BY <1>1
<1> HIDE DEF t, m
<1>3. \A i \in DOMAIN t : i \in Nat /\ i + 1 \in DOMAIN s /\ t[i] = s[i + 1]
  BY <1>2
<1>4. \A i \in DOMAIN s : \/ i = 1 /\ s[i] = m
                          \/ \E j \in DOMAIN t : i = j + 1 /\ s[i] = t[j]
  <2> SUFFICES ASSUME NEW i \in DOMAIN s, i # 1
               PROVE  \E j \in DOMAIN t : i = j + 1 /\ s[i] = t[j]
    BY <1>2
  <2>1. i - 1 \in DOMAIN t /\ i = (i - 1) + 1
    BY <1>2
  <2>2. QED
    BY <1>3, <2>1
<1>5. 1 \in DOMAIN s /\ s[1] = m
  BY <1>2
<1>6. ASSUME NEW K PROVE None(s, K) <=> None(t, K) /\ m.kind \notin K
  <2>1. ASSUME None(t, K), m.kind \notin K PROVE None(s, K)
    BY <2>1, <1>4 DEF None
  <2>2. ASSUME None(s, K) PROVE None(t, K) /\ m.kind \notin K
    BY <2>2, <1>3, <1>5 DEF None
  <2>3. QED
    BY <2>1, <2>2
<1>7. ASSUME NEW K, Few(s, K) PROVE Few(t, K) /\ (m.kind \in K => None(t, K))
  <2>1. ASSUME NEW i \in DOMAIN t, NEW j \in DOMAIN t, t[i].kind \in K, t[j].kind \in K
        PROVE  i = j
    <3>1. i + 1 = j + 1
      BY <1>3, <1>7, <2>1 DEF Few
    <3>2. QED
      BY <1>3, <3>1
  <2>2. ASSUME m.kind \in K, NEW i \in DOMAIN t, t[i].kind \in K PROVE FALSE
    <3>1. i + 1 = 1
      BY <1>3, <1>5, <1>7, <2>2 DEF Few
    <3>2. QED
      BY <1>2, <2>2, <3>1
  <2>3. QED
    BY <2>1, <2>2 DEF Few, None
<1>8. ASSUME Ordered(s) PROVE Ordered(t) /\ (m.kind = "PromptReady" => None(t, Answer))
  <2>1. ASSUME NEW i \in DOMAIN t, NEW j \in DOMAIN t,
               t[i].kind = "PromptReady", t[j].kind = "PerformReply"
        PROVE  j < i
    <3>1. j + 1 < i + 1
      BY <1>3, <1>8, <2>1 DEF Ordered
    <3>2. QED
      BY <1>3, <3>1
  <2>2. ASSUME m.kind = "PromptReady", NEW j \in DOMAIN t, t[j].kind = "PerformReply"
        PROVE  FALSE
    <3>1. j + 1 < 1
      BY <1>3, <1>5, <1>8, <2>2 DEF Ordered
    <3>2. QED
      BY <1>3, <2>2, <3>1
  <2>3. QED
    BY <2>1, <2>2 DEF Ordered, None, Answer
<1>9. ASSUME NEW ok
      PROVE  Replied(s, ok) <=> Replied(t, ok) \/ Says(m, ok)
  <2>1. ASSUME Replied(s, ok)
        PROVE  Replied(t, ok) \/ Says(m, ok)
    BY <2>1, <1>4 DEF Replied
  <2>2. ASSUME Replied(t, ok) PROVE Replied(s, ok)
    BY <2>2, <1>3 DEF Replied
  <2>3. ASSUME Says(m, ok) PROVE Replied(s, ok)
    BY <2>3, <1>5 DEF Replied
  <2>4. QED
    BY <2>1, <2>2, <2>3
<1>10. ASSUME NEW K, NEW Q, Concerns(s, K, Q)
       PROVE  Concerns(t, K, Q) /\ (m.kind \in K => m.question \in Q)
  BY <1>3, <1>5, <1>10 DEF Concerns
<1>11. Proper(s) => Proper(t)
  BY <1>3 DEF Proper
<1>12. QED
  BY <1>0, <1>6, <1>7, <1>8, <1>9, <1>10, <1>11 DEF Taken, t, m

\* t says the same as s.
Same(s, t) ==
    /\ \A K : None(s, K) <=> None(t, K)
    /\ \A K : Few(s, K) <=> Few(t, K)
    /\ Ordered(s) <=> Ordered(t)
    /\ \A ok : Replied(s, ok) <=> Replied(t, ok)
    /\ \A K, Q : K \subseteq {"PromptReady", "Perform"} =>
                    (Concerns(s, K, Q) <=> Concerns(t, K, Q))
    /\ Proper(t)

LEMMA OrphanedSame ==
    ASSUME NEW f, Sendable(f), NEW S, NEW d \in Callback, Proper(f[d])
    PROVE  Same(f[d], Orphaned(f, S)[d])
<1> DEFINE s == f[d]
           t == Orphaned(f, S)[d]
<1>1. /\ DOMAIN t = DOMAIN s
      /\ \A i \in DOMAIN s : t[i] = IF "from" \in DOMAIN s[i] /\ s[i].from \in S
                                    THEN [s[i] EXCEPT !.from = NoObject] ELSE s[i]
  BY DEF Orphaned
<1>2. \A i \in DOMAIN s : "kind" \in DOMAIN s[i]
  BY DEF Sendable, IsBox
<1> HIDE DEF s, t
<1>3. \A i \in DOMAIN s :
        /\ t[i].kind = s[i].kind
        /\ DOMAIN t[i] = DOMAIN s[i]
        /\ "question" \in DOMAIN s[i] => t[i].question = s[i].question
        /\ "ok" \in DOMAIN s[i] => t[i].ok = s[i].ok
  BY <1>1, <1>2
<1>4. Proper(s)
  BY DEF s
<1>5. \A K : None(s, K) <=> None(t, K)
  BY <1>1, <1>3 DEF None
<1>6. \A K : Few(s, K) <=> Few(t, K)
  BY <1>1, <1>3 DEF Few
<1>7. Ordered(s) <=> Ordered(t)
  BY <1>1, <1>3 DEF Ordered
<1>8. \A ok : Replied(s, ok) <=> Replied(t, ok)
  <2>1. \A i \in DOMAIN s : \A ok : Says(t[i], ok) <=> Says(s[i], ok)
    BY <1>3, <1>4 DEF Says, Proper
  <2>2. QED
    BY <1>1, <2>1 DEF Replied
<1>9. ASSUME NEW K \in SUBSET {"PromptReady", "Perform"}, NEW Q
      PROVE  Concerns(s, K, Q) <=> Concerns(t, K, Q)
  <2>1. \A i \in DOMAIN s : s[i].kind \in K => t[i].question = s[i].question
    BY <1>3, <1>4 DEF Proper
  <2>2. QED
    BY <1>1, <1>3, <2>1 DEF Concerns
<1>10. Proper(t)
  BY <1>1, <1>3, <1>4 DEF Proper
<1>11. QED
  BY <1>5, <1>6, <1>7, <1>8, <1>9, <1>10 DEF Same, s, t

\* One message, or none.
LEMMA SingleContents ==
    /\ IsBox(<<>>) /\ Ordered(<<>>) /\ Proper(<<>>)
    /\ \A K : None(<<>>, K) /\ Few(<<>>, K)
    /\ \A ok : ~Replied(<<>>, ok)
    /\ \A K, Q : Concerns(<<>>, K, Q)
    /\ \A m : "kind" \in DOMAIN m =>
          /\ IsBox(<<m>>) /\ Ordered(<<m>>)
          /\ \A K : (None(<<m>>, K) <=> m.kind \notin K) /\ Few(<<m>>, K)
          /\ \A ok : Replied(<<m>>, ok) <=> Says(m, ok)
          /\ \A K, Q : Concerns(<<m>>, K, Q) <=> (m.kind \in K => m.question \in Q)
          /\ Proper(<<m>>) <=>
                /\ m.kind \in {"PromptReady", "Perform"} => "question" \in DOMAIN m
                /\ m.kind = "PerformReply" => "ok" \in DOMAIN m
<1>1. IsBox(<<>>) /\ \A m : "kind" \in DOMAIN m => IsBox(<<m>>)
  BY BoxSingle
<1>2. /\ Ordered(<<>>) /\ Proper(<<>>)
      /\ \A K : None(<<>>, K) /\ Few(<<>>, K)
      /\ \A ok : ~Replied(<<>>, ok)
      /\ \A K, Q : Concerns(<<>>, K, Q)
  BY DEF Ordered, Proper, None, Few, Replied, Concerns
<1>3. ASSUME NEW m, "kind" \in DOMAIN m
      PROVE  /\ Ordered(<<m>>)
             /\ \A K : (None(<<m>>, K) <=> m.kind \notin K) /\ Few(<<m>>, K)
             /\ \A ok : Replied(<<m>>, ok) <=> Says(m, ok)
             /\ \A K, Q : Concerns(<<m>>, K, Q) <=> (m.kind \in K => m.question \in Q)
             /\ Proper(<<m>>) <=>
                   /\ m.kind \in {"PromptReady", "Perform"} => "question" \in DOMAIN m
                   /\ m.kind = "PerformReply" => "ok" \in DOMAIN m
  <2> DEFINE s == <<m>>
  <2>1. DOMAIN s = {1} /\ s[1] = m
    OBVIOUS
  <2> HIDE DEF s
  <2>2. QED
    BY <2>1 DEF Ordered, None, Few, Replied, Concerns, Proper, s
<1>4. QED
  BY <1>1, <1>2, <1>3

\* Nothing is under way that will end in a PromptReady.
Silence(in, out, wait, ask) == ~wait /\ ~ask /\ None(out, Calls) /\ None(in, Ready)

OneAnswer(in, out, wait, ask) ==
    /\ Few(in, Ready) /\ Few(out, Calls) /\ Few(in, Answer) /\ Ordered(in)
    /\ ~(wait /\ ask)
    /\ wait \/ ask => None(out, Calls) /\ None(in, Ready)
    /\ None(out, Calls) \/ None(in, Ready)
    /\ None(out, Request) \/ None(in, Answer)
    /\ None(out, Calls) <=> None(out, Opening) /\ None(out, Request)
    /\ Replied(in, FALSE) => Silence(in, out, wait, ask)

\* PerformPrompt has no reply yet.
Outstanding(in, out) == ~None(out, Request) \/ ~None(in, Answer)

\* The pending question is the one everything is about.
Asked(cl, in, out, wait, ask, about) ==
    LET k == cl.pending
        o == cl.op[k]
    IN
    /\ cl.exported /\ o.started /\ o.completions = 0
    /\ ~wait /\ None(out, Opening)
    /\ o.call = "perform" => Outstanding(in, out) \/ Silence(in, out, wait, ask)
    /\ Outstanding(in, out) => o.call = "perform" /\ cl.awaited = <<k>>
    /\ ask => about = k
    /\ Concerns(out, Request, {k}) /\ Concerns(in, Ready, {k})

\* A question whose dialog was accepted has the dialog or its end to come.
Served(cl, in, ask) ==
    LET o == cl.op[cl.pending] IN
    (o.call = "none" \/ Replied(in, TRUE)) /\ ~o.cancelled =>
        cl.owner /\ (ask \/ ~None(in, Relief))

Leaked(cl) == \E k \in OpIndex : cl.op[k].leaked

\* A prompt of which nothing can be said: it is closed, or a call of it was
\* cancelled while it was on its way, so that what comes back may be stale.
Spoiled(cl) == cl.closed \/ \E k \in OpIndex : cl.op[k].leaked /\ cl.op[k].userCancelled

\* What refers to an operation refers to one that was started.
Sane(cl) ==
    /\ \A k \in OpIndex : /\ cl.op[k].leaked \/ cl.pending = k => cl.op[k].started
                          /\ cl.op[k].call \in {"none", "connect", "begin", "perform"}
    /\ \A k \in Questions : cl.op[k].call \in {"none", "perform"}

InStep(cl, in, out, wait, ask, about) ==
    /\ OneAnswer(in, out, wait, ask)
    /\ cl.pending = NoOp /\ ~Beginning(cl) => Silence(in, out, wait, ask)
    /\ Outstanding(in, out) => cl.pending \in Questions
    /\ ~Outstanding(in, out) => cl.awaited = <<>>
    /\ \A k \in Questions : cl.op[k].call # "none" => cl.pending = k
    /\ \A k \in OpIndex : cl.op[k].idle = 0
    /\ cl.pending \in Questions => Asked(cl, in, out, wait, ask, about)
    /\ cl.pending \in Questions /\ ~Leaked(cl) => Served(cl, in, ask)

\* t is s but for messages that ask or answer nothing.
Keeps(s, t) ==
    /\ \A K \in {Ready, Answer, Calls, Opening, Request} :
          (None(s, K) <=> None(t, K)) /\ (Few(s, K) => Few(t, K))
    /\ Ordered(s) => Ordered(t)
    /\ \A ok : Replied(s, ok) <=> Replied(t, ok)
    /\ \A K \in {Ready, Request} : \A Q : Concerns(s, K, Q) => Concerns(t, K, Q)

LEMMA KeepsItself == ASSUME NEW s PROVE Keeps(s, s)
BY DEF Keeps

LEMMA KeepsTrans == ASSUME NEW s, NEW t, NEW u, Keeps(s, t), Keeps(t, u) PROVE Keeps(s, u)
BY DEF Keeps

LEMMA SameKeeps == ASSUME NEW s, NEW t, Same(s, t) PROVE Keeps(s, t)
<1>1. Ready \subseteq {"PromptReady", "Perform"} /\ Request \subseteq {"PromptReady", "Perform"}
  BY DEF Ready, Request
<1>2. QED
  BY <1>1 DEF Same, Keeps

\* What asks or answers.
Plain(kind) == kind \notin {"Begin", "Perform", "PromptReady", "PerformReply"}

LEMMA TakenKeeps ==
    ASSUME NEW s, NEW m, NEW t, Taken(s, m, t), Plain(m.kind) PROVE Keeps(s, t)
<1>1. /\ m.kind \notin Ready /\ m.kind \notin Answer /\ m.kind \notin Calls
      /\ m.kind \notin Opening /\ m.kind \notin Request /\ \A ok : ~Says(m, ok)
  BY DEF Says, Plain, Ready, Answer, Calls, Opening, Request
<1>2. QED
  BY <1>1 DEF Taken, Keeps

LEMMA JoinedKeeps ==
    ASSUME NEW s, NEW h, NEW t, Joined(s, h, t),
           None(h, Ready), None(h, Answer), None(h, Calls)
    PROVE  Keeps(s, t)
<1>1. None(h, Opening) /\ None(h, Request)
  BY DEF None, Calls, Opening, Request
<1>2. Ordered(h) /\ \A ok : ~Replied(h, ok)
  BY DEF None, Answer, Ordered, Replied, Says
<1>3. \A K \in {Ready, Request} : \A Q : Concerns(h, K, Q)
  BY <1>1 DEF None, Concerns
<1>4. QED
  BY <1>1, <1>2, <1>3 DEF Joined, Keeps

\* d is cl, or cl with less to expect.
Resembles(cl, d) ==
    /\ d.pending = cl.pending /\ d.awaited = cl.awaited /\ d.owner = cl.owner
    /\ d.exported = cl.exported
    /\ Beginning(cl) => Beginning(d)
    /\ \A k \in OpIndex : d.op[k].idle = cl.op[k].idle
                          /\ (cl.op[k].leaked => d.op[k].leaked)
    /\ \A k \in Questions :
          /\ d.op[k].call = cl.op[k].call /\ d.op[k].started = cl.op[k].started
          /\ d.op[k].completions = cl.op[k].completions
          /\ cl.op[k].cancelled => d.op[k].cancelled

LEMMA ResemblesItself == ASSUME NEW cl PROVE Resembles(cl, cl)
BY DEF Resembles

\* A step at which nothing is asked or answered.
LEMMA StaysInStep ==
    ASSUME NEW cl, NEW d, Resembles(cl, d),
           NEW in, NEW in2, NEW out, NEW out2, Keeps(in, in2), Keeps(out, out2),
           NEW wait \in BOOLEAN, NEW wait2 \in BOOLEAN, wait2 => wait,
           NEW ask \in BOOLEAN, NEW ask2 \in BOOLEAN, NEW about, NEW about2,
           ask2 => ask /\ about2 = about,
           cl.pending \in Questions =>
              (ask \/ ~None(in, Relief) => ask2 \/ ~None(in2, Relief)),
           InStep(cl, in, out, wait, ask, about)
    PROVE  InStep(d, in2, out2, wait2, ask2, about2)
<1>1. OneAnswer(in2, out2, wait2, ask2)
  BY DEF InStep, OneAnswer, Silence, Keeps
<1>2. Silence(in, out, wait, ask) => Silence(in2, out2, wait2, ask2)
  BY DEF Silence, Keeps
<1>3. Outstanding(in, out) <=> Outstanding(in2, out2)
  BY DEF Outstanding, Keeps
<1>4. \A Q : /\ Concerns(out, Request, Q) => Concerns(out2, Request, Q)
             /\ Concerns(in, Ready, Q) => Concerns(in2, Ready, Q)
  BY DEF Keeps
<1>5. None(out2, Opening) <=> None(out, Opening)
  BY DEF Keeps
<1>6. ASSUME d.pending \in Questions PROVE Asked(d, in2, out2, wait2, ask2, about2)
  BY <1>2, <1>3, <1>4, <1>5, <1>6 DEF Resembles, InStep, Asked
<1>7. ASSUME d.pending \in Questions, ~Leaked(d) PROVE Served(d, in2, ask2)
  <2>1. ~Leaked(cl) /\ cl.pending \in Questions
    BY <1>7 DEF Leaked, Resembles
  <2>2. Replied(in, TRUE) <=> Replied(in2, TRUE)
    BY DEF Keeps
  <2>3. Served(cl, in, ask)
    BY <2>1 DEF InStep
  <2>4. QED
    BY <2>1, <2>2, <2>3 DEF Served, Resembles
<1>8. QED
  BY <1>1, <1>2, <1>3, <1>6, <1>7 DEF InStep, Resembles

LEMMA NoAnswerNoReply ==
    ASSUME NEW s, None(s, Answer) PROVE Ordered(s) /\ \A ok : ~Replied(s, ok)
BY DEF None, Answer, Ordered, Replied, Says

\* PromptReady is sent to a prompt that is queued, or that has a dialog.
LEMMA TurnInStep ==
    ASSUME NEW cl, NEW in, NEW in2, NEW out, NEW out2, NEW wait \in BOOLEAN,
           NEW ask \in BOOLEAN, NEW about, NEW about2, wait \/ ask,
           InStep(cl, in, out, wait, ask, about), Keeps(out, out2),
           NEW h, Joined(in, h, in2), None(h, Answer), Few(h, Ready),
           ask => Concerns(h, Ready, {about}) /\ ~None(h, Relief)
    PROVE  InStep(cl, in2, out2, FALSE, FALSE, about2)
<1>0. Ordered(h) /\ \A ok : ~Replied(h, ok)
  BY NoAnswerNoReply
<1>1. /\ None(out, Calls) /\ None(in, Ready) /\ ~Replied(in, FALSE)
      /\ ~Silence(in, out, wait, ask)
  BY DEF InStep, OneAnswer, Silence
<1>2. /\ None(out2, Calls) /\ None(out2, Opening) /\ None(out2, Request)
      /\ None(out, Opening) /\ None(out, Request)
      /\ Few(out2, Calls) /\ Few(in2, Ready) /\ Ordered(in2) /\ ~Replied(in2, FALSE)
      /\ Few(in2, Answer) /\ (None(in, Answer) <=> None(in2, Answer))
  BY <1>0, <1>1 DEF InStep, OneAnswer, Keeps, Joined
<1>3. OneAnswer(in2, out2, FALSE, FALSE)
  BY <1>2 DEF OneAnswer, Silence
<1>4. Outstanding(in, out) <=> Outstanding(in2, out2)
  BY <1>2 DEF Outstanding
<1>5. ASSUME cl.pending \in Questions
      PROVE  Asked(cl, in2, out2, FALSE, FALSE, about2) /\ (~Leaked(cl) => Served(cl, in2, FALSE))
  <2>1. Asked(cl, in, out, wait, ask, about) /\ (~Leaked(cl) => Served(cl, in, ask))
    BY <1>5 DEF InStep
  <2>2. ~wait /\ ask /\ about = cl.pending
    BY <2>1 DEF Asked
  <2>3. Concerns(in2, Ready, {cl.pending}) /\ Concerns(out2, Request, {cl.pending})
    BY <2>1, <2>2 DEF Asked, Joined, Keeps
  <2>4. Asked(cl, in2, out2, FALSE, FALSE, about2)
    BY <1>1, <1>2, <1>4, <2>1, <2>3 DEF Asked
  <2>5. ~None(in2, Relief) /\ (Replied(in2, TRUE) <=> Replied(in, TRUE))
    BY <1>0, <2>2 DEF Joined
  <2>6. QED
    BY <2>1, <2>2, <2>4, <2>5 DEF Served
<1>6. QED
  BY <1>1, <1>3, <1>4, <1>5 DEF InStep

\* The prompter, or the bus, replies to PerformPrompt.
PerformHandled(cl, in, h, in2, m, out, out2, ask, ask2, about2) ==
    /\ Taken(out, m, out2) /\ m.kind = "Perform"
    /\ Joined(in, h, in2) /\ None(h, Ready) /\ Few(h, Answer) /\ ~None(h, Answer)
    /\ Ordered(h)
    /\ \/ ask2 /\ about2 = m.question /\ cl.owner /\ ~Replied(h, FALSE)
       \/ (ask2 => ask) /\ ~Replied(h, TRUE)

LEMMA PerformedInStep ==
    ASSUME NEW cl, NEW in, NEW in2, NEW out, NEW out2, NEW wait \in BOOLEAN,
           NEW wait2 \in BOOLEAN, wait2 => wait,
           NEW ask \in BOOLEAN, NEW ask2 \in BOOLEAN, NEW about, NEW about2,
           InStep(cl, in, out, wait, ask, about),
           NEW m, NEW h, PerformHandled(cl, in, h, in2, m, out, out2, ask, ask2, about2)
    PROVE  InStep(cl, in2, out2, wait2, ask2, about2)
<1>0. /\ Taken(out, m, out2) /\ m.kind = "Perform"
      /\ Joined(in, h, in2) /\ None(h, Ready) /\ Few(h, Answer) /\ ~None(h, Answer)
      /\ Ordered(h)
      /\ \/ ask2 /\ about2 = m.question /\ cl.owner /\ ~Replied(h, FALSE)
         \/ (ask2 => ask) /\ ~Replied(h, TRUE)
  BY DEF PerformHandled
<1>1. m.kind \in Request /\ m.kind \in Calls /\ m.kind \notin Opening
  BY <1>0 DEF Request, Calls, Opening
<1>2. ~None(out, Request) /\ ~None(out, Calls) /\ Few(out, Calls)
  BY <1>0, <1>1 DEF InStep, OneAnswer, Taken
<1>3. /\ ~wait /\ ~wait2 /\ ~ask /\ None(in, Ready) /\ None(in, Answer)
      /\ ~Silence(in, out, wait, ask)
  BY <1>2 DEF InStep, OneAnswer, Silence
<1>4. Ordered(in) /\ \A ok : ~Replied(in, ok)
  BY <1>3, NoAnswerNoReply
<1>5. /\ None(out2, Calls) /\ Few(out2, Calls)
  BY <1>0, <1>1, <1>2 DEF Taken
<1>6. None(out2, Opening) /\ None(out2, Request)
  BY <1>5 DEF None, Calls, Opening, Request
<1>7. /\ None(in2, Ready) /\ Few(in2, Answer) /\ ~None(in2, Answer) /\ Ordered(in2)
      /\ \A ok : Replied(in2, ok) <=> Replied(h, ok)
      /\ Few(in2, Ready)
  <2>1. None(in2, Ready) /\ Few(in2, Answer) /\ ~None(in2, Answer) /\ Ordered(in2)
        /\ \A ok : Replied(in2, ok) <=> Replied(h, ok)
    BY <1>0, <1>3, <1>4 DEF Joined
  <2>2. Few(in2, Ready)
    BY <2>1 DEF None, Few
  <2>3. QED
    BY <2>1, <2>2
<1>8. Replied(h, FALSE) => ~ask2
  BY <1>0, <1>3
<1>9. OneAnswer(in2, out2, wait2, ask2)
  BY <1>3, <1>5, <1>6, <1>7, <1>8 DEF OneAnswer, Silence
<1>10. Outstanding(in, out) /\ Outstanding(in2, out2)
  BY <1>2, <1>7 DEF Outstanding
<1>11. cl.pending \in Questions
  BY <1>10 DEF InStep
<1>12. Asked(cl, in, out, wait, ask, about) /\ (~Leaked(cl) => Served(cl, in, ask))
  BY <1>11 DEF InStep
<1>13. m.question = cl.pending /\ Concerns(out2, Request, {cl.pending})
  BY <1>0, <1>1, <1>12 DEF Asked, Taken
<1>14. Concerns(in2, Ready, {cl.pending})
  BY <1>7 DEF None, Concerns
<1>15. Asked(cl, in2, out2, wait2, ask2, about2)
  BY <1>0, <1>3, <1>6, <1>10, <1>12, <1>13, <1>14 DEF Asked
<1>16. Served(cl, in2, ask2)
  <2>1. cl.op[cl.pending].call = "perform"
    BY <1>10, <1>12 DEF Asked
  <2>2. Replied(in2, TRUE) => ask2 /\ cl.owner
    BY <1>0, <1>7
  <2>3. QED
    BY <2>1, <2>2 DEF Served
<1>17. cl.pending # NoOp
  BY <1>11, Indices
<1>18. QED
  BY <1>9, <1>10, <1>11, <1>12, <1>15, <1>16, <1>17 DEF InStep

\* The prompter, or the bus, replies to BeginPrompting.
BeginHandled(in, h, in2, m, out, out2, wait2) ==
    /\ Taken(out, m, out2) /\ m.kind = "Begin"
    /\ Joined(in, h, in2) /\ None(h, Answer) /\ Few(h, Ready)
    /\ wait2 => None(h, Ready)

LEMMA BegunInStep ==
    ASSUME NEW cl, NEW in, NEW in2, NEW out, NEW out2, NEW wait \in BOOLEAN,
           NEW wait2 \in BOOLEAN, NEW ask \in BOOLEAN, NEW ask2 \in BOOLEAN,
           ask2 => ask, NEW about, NEW about2,
           InStep(cl, in, out, wait, ask, about),
           NEW m, NEW h, BeginHandled(in, h, in2, m, out, out2, wait2)
    PROVE  InStep(cl, in2, out2, wait2, ask2, about2)
<1>0. /\ Taken(out, m, out2) /\ m.kind = "Begin"
      /\ Joined(in, h, in2) /\ None(h, Answer) /\ Few(h, Ready)
      /\ wait2 => None(h, Ready)
  BY DEF BeginHandled
<1>1. m.kind \in Opening /\ m.kind \in Calls
  BY <1>0 DEF Calls, Opening
<1>2. ~None(out, Opening) /\ ~None(out, Calls) /\ Few(out, Calls)
  BY <1>0, <1>1 DEF InStep, OneAnswer, Taken
<1>3. ~wait /\ ~ask /\ ~ask2 /\ None(in, Ready) /\ ~Silence(in, out, wait, ask)
  BY <1>2 DEF InStep, OneAnswer, Silence
<1>4. cl.pending \notin Questions
  BY <1>2 DEF InStep, Asked
<1>5. ~Outstanding(in, out) /\ None(in, Answer)
  BY <1>4 DEF InStep, Outstanding
<1>6. Ordered(h) /\ \A ok : ~Replied(h, ok) /\ ~Replied(in, ok)
  BY <1>0, <1>5, NoAnswerNoReply
<1>7. None(out2, Calls) /\ Few(out2, Calls)
  BY <1>0, <1>1, <1>2 DEF Taken
<1>8. None(out2, Opening) /\ None(out2, Request)
  BY <1>7 DEF None, Calls, Opening, Request
<1>9. /\ None(in2, Answer) /\ Few(in2, Ready) /\ Ordered(in2)
      /\ \A ok : ~Replied(in2, ok)
      /\ None(h, Ready) => None(in2, Ready)
      /\ Few(in2, Answer)
  <2>1. None(in2, Answer) /\ Few(in2, Ready) /\ (None(h, Ready) => None(in2, Ready))
    BY <1>0, <1>3, <1>5 DEF Joined
  <2>2. Few(in2, Answer)
    BY <2>1 DEF None, Few
  <2>3. QED
    BY <2>1, <2>2, NoAnswerNoReply
<1>10. OneAnswer(in2, out2, wait2, ask2)
  BY <1>0, <1>3, <1>7, <1>8, <1>9 DEF OneAnswer, Silence
<1>11. ~Outstanding(in2, out2)
  BY <1>8, <1>9 DEF Outstanding
<1>12. QED
  BY <1>3, <1>4, <1>5, <1>10, <1>11 DEF InStep

\* Operation k alone is changed.
Only(cl, d, k) == \A j \in OpIndex : j # k => d.op[j] = cl.op[j]

\* What holds of a prompt that waits for no answer.
LEMMA IdleInStep ==
    ASSUME NEW cl, NEW in, NEW out, NEW wait \in BOOLEAN, NEW ask \in BOOLEAN, NEW about,
           InStep(cl, in, out, wait, ask, about), cl.pending = NoOp, ~Beginning(cl)
    PROVE  /\ ~wait /\ ~ask /\ None(out, Calls) /\ None(in, Ready)
           /\ None(out, Opening) /\ None(out, Request) /\ None(in, Answer)
           /\ \A ok : ~Replied(in, ok)
           /\ cl.awaited = <<>>
           /\ \A k \in Questions : cl.op[k].call = "none"
           /\ Few(in, Ready) /\ Few(out, Calls) /\ Few(in, Answer) /\ Ordered(in)
<1>1. ~wait /\ ~ask /\ None(out, Calls) /\ None(in, Ready)
  BY DEF InStep, Silence
<1>2. cl.pending \notin Questions /\ \A k \in Questions : cl.pending # k
  BY Indices
<1>3. ~Outstanding(in, out) /\ cl.awaited = <<>>
  BY <1>2 DEF InStep
<1>4. None(in, Answer) /\ None(out, Request) /\ None(out, Opening)
  BY <1>1, <1>3 DEF Outstanding, InStep, OneAnswer
<1>5. \A k \in Questions : cl.op[k].call = "none"
  BY <1>2 DEF InStep
<1>6. QED
  BY <1>1, <1>3, <1>4, <1>5, NoAnswerNoReply DEF InStep, OneAnswer

\* The application asks a question, by a call whose cancellable may have been
\* cancelled before.
Asks(cl, d, k, out, out2) ==
    /\ Only(cl, d, k) /\ d.pending = k /\ d.exported
    /\ d.op[k].started /\ d.op[k].completions = 0 /\ d.op[k].call = "perform"
    /\ d.op[k].idle = 0
    /\ \/ d.op[k].cancelled /\ d.awaited = cl.awaited /\ out2 = out
       \/ /\ d.awaited = Append(cl.awaited, k)
          /\ Joined(out, <<Perform(k)>>, out2)

LEMMA AskInStep ==
    ASSUME NEW cl, NEW in, NEW out, NEW wait \in BOOLEAN, NEW ask \in BOOLEAN, NEW about,
           InStep(cl, in, out, wait, ask, about), cl.pending = NoOp, ~Beginning(cl),
           NEW k \in Questions, NEW d, NEW out2, Asks(cl, d, k, out, out2)
    PROVE  InStep(d, in, out2, wait, ask, about)
<1> /\ Only(cl, d, k) /\ d.pending = k /\ d.exported
    /\ d.op[k].started /\ d.op[k].completions = 0 /\ d.op[k].call = "perform"
    /\ d.op[k].idle = 0
    /\ \/ d.op[k].cancelled /\ d.awaited = cl.awaited /\ out2 = out
       \/ /\ d.awaited = Append(cl.awaited, k)
          /\ Joined(out, <<Perform(k)>>, out2)
  BY DEF Asks
<1>0. k \in OpIndex /\ k # NoOp /\ k # OpenOp
  BY Indices
<1>1. /\ ~wait /\ ~ask /\ None(out, Calls) /\ None(in, Ready)
      /\ None(out, Opening) /\ None(out, Request) /\ None(in, Answer)
      /\ \A ok : ~Replied(in, ok)
      /\ cl.awaited = <<>>
      /\ \A j \in Questions : cl.op[j].call = "none"
      /\ Few(in, Ready) /\ Few(out, Calls) /\ Few(in, Answer) /\ Ordered(in)
  BY IdleInStep
<1>2. \A j \in Questions : d.op[j].call # "none" => j = k
  BY <1>1, Indices DEF Only
<1>3. \A j \in OpIndex : d.op[j].idle = 0
  BY DEF Only, InStep
<1>4. Concerns(in, Ready, {k}) /\ Concerns(out, Request, {k})
  BY <1>1 DEF None, Concerns
<1>5. CASE d.op[k].cancelled /\ d.awaited = cl.awaited /\ out2 = out
  <2>1. OneAnswer(in, out2, wait, ask) /\ Silence(in, out2, wait, ask)
    BY <1>1, <1>5 DEF OneAnswer, Silence
  <2>2. ~Outstanding(in, out2)
    BY <1>1, <1>5 DEF Outstanding
  <2>3. Asked(d, in, out2, wait, ask, about)
    BY <1>1, <1>4, <1>5, <2>1, <2>2 DEF Asked
  <2>4. Served(d, in, ask)
    BY <1>5 DEF Served
  <2>5. QED
    BY <1>0, <1>1, <1>2, <1>3, <1>5, <2>1, <2>2, <2>3, <2>4 DEF InStep
<1>6. CASE d.awaited = Append(cl.awaited, k) /\ Joined(out, <<Perform(k)>>, out2)
  <2> DEFINE m == Perform(k)
             h == <<m>>
  <2>1. "kind" \in DOMAIN m /\ m.kind = "Perform" /\ m.question = k
    BY DEF Perform
  <2> HIDE DEF m
  <2>2. /\ ~None(h, Calls) /\ ~None(h, Request) /\ None(h, Opening)
        /\ Few(h, Calls) /\ Concerns(h, Request, {k})
    BY <2>1, SingleContents DEF Calls, Request, Opening
  <2>3. Joined(out, h, out2)
    BY <1>6 DEF m
  <2> HIDE DEF h
  <2>4. /\ Few(out2, Calls) /\ ~None(out2, Calls) /\ ~None(out2, Request)
        /\ None(out2, Opening) /\ Concerns(out2, Request, {k})
    BY <1>1, <1>4, <2>2, <2>3 DEF Joined
  <2>5. OneAnswer(in, out2, wait, ask)
    BY <1>1, <2>4 DEF OneAnswer
  <2>6. Outstanding(in, out2) /\ d.awaited = <<k>>
    BY <1>1, <1>6, <2>4 DEF Outstanding
  <2>7. Asked(d, in, out2, wait, ask, about)
    BY <1>1, <1>4, <2>4, <2>6 DEF Asked
  <2>8. Served(d, in, ask)
    BY <1>1 DEF Served
  <2>9. QED
    BY <1>0, <1>2, <1>3, <2>5, <2>6, <2>7, <2>8 DEF InStep
<1>7. QED
  BY <1>5, <1>6

\* on_bus_connected calls BeginPrompting.
LEMMA BeginInStep ==
    ASSUME NEW cl, NEW in, NEW out, NEW wait \in BOOLEAN, NEW ask \in BOOLEAN, NEW about,
           InStep(cl, in, out, wait, ask, about), cl.pending = NoOp, ~Beginning(cl),
           NEW d, Only(cl, d, OpenOp), d.pending = NoOp, Beginning(d), d.awaited = cl.awaited,
           d.op[OpenOp].idle = 0,
           NEW out2, Joined(out, <<Begin>>, out2)
    PROVE  InStep(d, in, out2, wait, ask, about)
<1>1. /\ ~wait /\ ~ask /\ None(out, Calls) /\ None(in, Ready)
      /\ None(out, Opening) /\ None(out, Request) /\ None(in, Answer)
      /\ \A ok : ~Replied(in, ok)
      /\ cl.awaited = <<>>
      /\ \A j \in Questions : cl.op[j].call = "none"
      /\ Few(in, Ready) /\ Few(out, Calls) /\ Few(in, Answer) /\ Ordered(in)
  BY IdleInStep
<1>2. \A j \in Questions : d.op[j].call = "none"
  BY <1>1, Indices DEF Only
<1>3. \A j \in OpIndex : d.op[j].idle = 0
  BY DEF Only, InStep
<1> DEFINE m == Begin
           h == <<m>>
<1>4. "kind" \in DOMAIN m /\ m.kind = "Begin"
  BY DEF Begin
<1> HIDE DEF m
<1>5. ~None(h, Calls) /\ None(h, Request) /\ ~None(h, Opening) /\ Few(h, Calls)
  BY <1>4, SingleContents DEF Calls, Request, Opening
<1>6. Joined(out, h, out2)
  BY DEF m
<1> HIDE DEF h
<1>7. Few(out2, Calls) /\ ~None(out2, Calls) /\ None(out2, Request) /\ ~None(out2, Opening)
  BY <1>1, <1>5, <1>6 DEF Joined
<1>8. OneAnswer(in, out2, wait, ask)
  BY <1>1, <1>7 DEF OneAnswer
<1>9. ~Outstanding(in, out2)
  BY <1>1, <1>7 DEF Outstanding
<1>10. d.pending \notin Questions
  BY Indices
<1>11. QED
  BY <1>1, <1>2, <1>3, <1>8, <1>9, <1>10 DEF InStep

\* on_prompter_begin_prompting: opening waits for the first PromptReady.
LEMMA OpenInStep ==
    ASSUME NEW cl, NEW in, NEW in2, NEW out, NEW wait \in BOOLEAN, NEW ask \in BOOLEAN,
           NEW about, InStep(cl, in, out, wait, ask, about), cl.pending = NoOp,
           Keeps(in, in2),
           NEW d, Only(cl, d, OpenOp), d.pending = OpenOp, d.awaited = cl.awaited,
           d.op[OpenOp].idle = 0
    PROVE  InStep(d, in2, out, wait, ask, about)
<1>1. cl.pending \notin Questions /\ d.pending \notin Questions /\ d.pending # NoOp
  BY Indices
<1>2. ~Outstanding(in, out) /\ cl.awaited = <<>>
  BY <1>1 DEF InStep
<1>3. ~Outstanding(in2, out)
  BY <1>2 DEF Outstanding, Keeps
<1>4. OneAnswer(in2, out, wait, ask)
  BY DEF InStep, OneAnswer, Silence, Keeps
<1>5. \A j \in Questions : d.op[j].call = "none"
  <2>1. \A j \in Questions : j \in OpIndex /\ j # OpenOp /\ cl.op[j].call = "none"
    BY Indices, <1>1 DEF InStep
  <2>2. QED
    BY <2>1 DEF Only
<1>6. \A j \in OpIndex : d.op[j].idle = 0
  BY DEF Only, InStep
<1>7. QED
  BY <1>1, <1>2, <1>3, <1>4, <1>5, <1>6 DEF InStep

\* What holds of a prompt that is given the reply to PerformPrompt.
AtReply(cl, in, in2, m, out, wait, ask, about) ==
    /\ cl.pending \in Questions /\ cl.awaited = <<cl.pending>>
    /\ cl.op[cl.pending].call = "perform"
    /\ cl.op[cl.pending].started /\ cl.op[cl.pending].completions = 0
    /\ ~Outstanding(in2, out)
    /\ None(in, Ready) <=> None(in2, Ready)
    /\ OneAnswer(in2, out, wait, ask)
    /\ Says(m, FALSE) => Silence(in, out, wait, ask) /\ Silence(in2, out, wait, ask)
    /\ Says(m, TRUE) => Replied(in, TRUE)
    /\ ~None(in, Relief) => ~None(in2, Relief)
    /\ \A Q : Concerns(in, Ready, Q) => Concerns(in2, Ready, Q)

LEMMA ReplyInStep ==
    ASSUME NEW cl, NEW in, NEW in2, NEW m, Taken(in, m, in2), m.kind = "PerformReply",
           NEW out, NEW wait \in BOOLEAN, NEW ask \in BOOLEAN, NEW about,
           InStep(cl, in, out, wait, ask, about)
    PROVE  AtReply(cl, in, in2, m, out, wait, ask, about)
<1>1. m.kind \in Answer /\ m.kind \notin Ready /\ m.kind \notin Relief
  BY DEF Answer, Ready, Relief
<1>2. ~None(in, Answer) /\ None(in2, Answer) /\ None(out, Request)
  BY <1>1 DEF InStep, OneAnswer, Taken
<1>3. Outstanding(in, out) /\ ~Outstanding(in2, out)
  BY <1>2 DEF Outstanding
<1>4. cl.pending \in Questions /\ Asked(cl, in, out, wait, ask, about)
  BY <1>3 DEF InStep
<1>5. /\ None(in, Ready) <=> None(in2, Ready)
      /\ ~None(in, Relief) => ~None(in2, Relief)
      /\ \A Q : Concerns(in, Ready, Q) => Concerns(in2, Ready, Q)
      /\ \A ok : Says(m, ok) => Replied(in, ok)
      /\ \A ok : Replied(in2, ok) => Replied(in, ok)
  BY <1>1 DEF Taken
<1>6. Says(m, FALSE) => Silence(in, out, wait, ask) /\ Silence(in2, out, wait, ask)
  BY <1>5 DEF InStep, OneAnswer, Silence
<1>7. OneAnswer(in2, out, wait, ask)
  BY <1>2, <1>5 DEF InStep, OneAnswer, Silence, Taken
<1>8. QED
  BY <1>3, <1>4, <1>5, <1>6, <1>7 DEF Asked, AtReply

\* on_perform_prompt_complete: the dialog is up.
Accepts(cl, d) ==
    LET k == cl.pending
        o == cl.op[k]
        p == d.op[k]
    IN
    /\ Only(cl, d, k) /\ d.pending = k /\ d.awaited = <<>>
    /\ d.exported = cl.exported /\ d.owner = cl.owner
    /\ p.call = "none" /\ p.started = o.started /\ p.idle = o.idle
    /\ p.completions = o.completions /\ p.cancelled = o.cancelled
    /\ o.leaked => p.leaked

LEMMA AcceptedInStep ==
    ASSUME NEW cl, NEW in, NEW in2, NEW m, NEW out, NEW wait \in BOOLEAN,
           NEW ask \in BOOLEAN, NEW about, InStep(cl, in, out, wait, ask, about),
           AtReply(cl, in, in2, m, out, wait, ask, about), Says(m, TRUE),
           NEW d, Accepts(cl, d)
    PROVE  InStep(d, in2, out, wait, ask, about)
<1> DEFINE k == cl.pending
<1>1. /\ k \in Questions
      /\ cl.op[k].call = "perform"
      /\ ~Outstanding(in2, out)
      /\ OneAnswer(in2, out, wait, ask)
      /\ ~None(in, Relief) => ~None(in2, Relief)
  BY DEF AtReply
<1>9. /\ Replied(in, TRUE)
      /\ \A Q : Concerns(in, Ready, Q) => Concerns(in2, Ready, Q)
  BY DEF AtReply
<1>2. k \in OpIndex /\ k # NoOp
  BY <1>1, Indices
<1>3. Asked(cl, in, out, wait, ask, about) /\ (~Leaked(cl) => Served(cl, in, ask))
  BY <1>1 DEF InStep
<1>4. Asked(d, in2, out, wait, ask, about)
  BY <1>1, <1>3, <1>9 DEF Asked, Accepts
<1>5. ASSUME ~Leaked(d) PROVE Served(d, in2, ask)
  <2>1. ~Leaked(cl)
    BY <1>2, <1>5 DEF Leaked, Only, Accepts
  <2>2. QED
    BY <1>1, <1>3, <1>9, <2>1 DEF Served, Accepts
<1>6. \A j \in Questions : d.op[j].call = "none"
  BY <1>1, Indices DEF Only, Accepts, InStep
<1>7. \A j \in OpIndex : d.op[j].idle = 0
  BY <1>2 DEF Only, Accepts, InStep
<1>8. QED
  BY <1>1, <1>2, <1>4, <1>5, <1>6, <1>7 DEF InStep, Accepts

\* on_perform_prompt_complete: the prompter refused the question.
Refuses(cl, d) ==
    LET k == cl.pending IN
    /\ Only(cl, d, k) /\ d.pending = NoOp /\ d.awaited = <<>>
    /\ d.op[k].call = "none" /\ d.op[k].idle = cl.op[k].idle

LEMMA RefusedInStep ==
    ASSUME NEW cl, NEW in, NEW in2, NEW m, NEW out, NEW wait \in BOOLEAN,
           NEW ask \in BOOLEAN, NEW about, InStep(cl, in, out, wait, ask, about),
           AtReply(cl, in, in2, m, out, wait, ask, about), Says(m, FALSE),
           NEW d, Refuses(cl, d)
    PROVE  InStep(d, in2, out, wait, ask, about)
<1> DEFINE k == cl.pending
<1>1. /\ k \in Questions
      /\ ~Outstanding(in2, out)
      /\ OneAnswer(in2, out, wait, ask)
      /\ Silence(in2, out, wait, ask)
  BY DEF AtReply
<1>2. k \in OpIndex /\ d.pending \notin Questions
  BY <1>1, Indices DEF Refuses
<1>3. \A j \in Questions : d.op[j].call = "none"
  BY <1>1, Indices DEF Refuses, Only, InStep
<1>4. \A j \in OpIndex : d.op[j].idle = 0
  BY <1>2 DEF Refuses, Only, InStep
<1>5. QED
  BY <1>1, <1>2, <1>3, <1>4 DEF InStep, Refuses

\* What holds of a prompt that is given a PromptReady.
LEMMA ReadyInStep ==
    ASSUME NEW cl, NEW in, NEW in2, NEW m, Taken(in, m, in2), m.kind = "PromptReady",
           NEW out, NEW wait \in BOOLEAN, NEW ask \in BOOLEAN, NEW about,
           InStep(cl, in, out, wait, ask, about)
    PROVE  /\ Silence(in2, out, wait, ask) /\ OneAnswer(in2, out, wait, ask)
           /\ Outstanding(in2, out) <=> Outstanding(in, out)
           /\ cl.pending \in Questions =>
                 /\ ~Outstanding(in, out) /\ cl.op[cl.pending].call # "perform"
                 /\ m.question = cl.pending
<1>1. /\ m.kind \in Ready /\ m.kind \notin Answer /\ m.kind # "PerformReply"
  BY DEF Ready, Answer
<1>2. ~None(in, Ready) /\ None(in2, Ready) /\ None(in2, Answer)
  BY <1>1 DEF InStep, OneAnswer, Taken
<1>3. None(out, Calls) /\ ~wait /\ ~ask /\ ~Silence(in, out, wait, ask)
  BY <1>2 DEF InStep, OneAnswer, Silence
<1>4. None(in, Answer) /\ None(out, Request)
  BY <1>1, <1>2, <1>3 DEF InStep, OneAnswer, Taken
<1>5. Silence(in2, out, wait, ask)
  BY <1>2, <1>3 DEF Silence
<1>6. OneAnswer(in2, out, wait, ask)
  BY <1>2, <1>3, <1>5 DEF InStep, OneAnswer, Taken
<1>7. ~Outstanding(in2, out) /\ ~Outstanding(in, out)
  BY <1>2, <1>4 DEF Outstanding
<1>8. ASSUME cl.pending \in Questions
      PROVE  cl.op[cl.pending].call # "perform" /\ m.question = cl.pending
  <2>1. Asked(cl, in, out, wait, ask, about)
    BY <1>8 DEF InStep
  <2>2. m.question \in {cl.pending}
    BY <1>1, <2>1 DEF Asked, Taken
  <2>3. QED
    BY <1>3, <1>7, <2>1, <2>2 DEF Asked
<1>9. QED
  BY <1>5, <1>6, <1>7, <1>8

\* The prompt sends what asks nothing.
LEMMA SendsInStep ==
    ASSUME NEW cl, NEW in, NEW out, NEW out2, Keeps(out, out2), NEW wait \in BOOLEAN,
           NEW ask \in BOOLEAN, NEW about, InStep(cl, in, out, wait, ask, about)
    PROVE  InStep(cl, in, out2, wait, ask, about)
<1>1. Resembles(cl, cl) /\ Keeps(in, in)
  BY ResemblesItself, KeepsItself
<1>2. QED
  BY <1>1, StaysInStep

\* A PromptReady that nobody waits for is forgotten.
LEMMA ForgottenInStep ==
    ASSUME NEW cl, NEW in, NEW in2, NEW m, Taken(in, m, in2), m.kind = "PromptReady",
           NEW out, NEW wait \in BOOLEAN, NEW ask \in BOOLEAN, NEW about,
           InStep(cl, in, out, wait, ask, about), cl.pending \notin Questions,
           NEW out2, Keeps(out, out2)
    PROVE  InStep(cl, in2, out2, wait, ask, about)
<1>1. Silence(in2, out, wait, ask) /\ OneAnswer(in2, out, wait, ask)
      /\ (Outstanding(in2, out) <=> Outstanding(in, out))
  BY ReadyInStep
<1>2. InStep(cl, in2, out, wait, ask, about)
  BY <1>1 DEF InStep
<1>3. QED
  BY <1>2, SendsInStep

\* prompt_method_ready: the pending operation completes.
LEMMA AnsweredInStep ==
    ASSUME NEW cl, NEW in, NEW in2, NEW m, Taken(in, m, in2), m.kind = "PromptReady",
           NEW out, NEW wait \in BOOLEAN, NEW ask \in BOOLEAN, NEW about,
           InStep(cl, in, out, wait, ask, about), cl.pending \in OpIndex, Sane(cl),
           NEW d, Only(cl, d, cl.pending), d.pending = NoOp, d.awaited = cl.awaited,
           d.op[cl.pending].call = cl.op[cl.pending].call,
           d.op[cl.pending].idle = cl.op[cl.pending].idle,
           NEW out2, Keeps(out, out2)
    PROVE  InStep(d, in2, out2, wait, ask, about)
<1> DEFINE k == cl.pending
<1>1. /\ Silence(in2, out, wait, ask) /\ OneAnswer(in2, out, wait, ask)
      /\ Outstanding(in2, out) <=> Outstanding(in, out)
      /\ k \in Questions => /\ ~Outstanding(in, out) /\ cl.op[k].call # "perform"
  BY ReadyInStep
<1>2. k \in Questions => cl.op[k].call = "none"
  BY <1>1 DEF Sane
<1>3. \A j \in Questions : cl.op[j].call # "none" => j = k
  BY DEF InStep
<1>4. \A j \in Questions : d.op[j].call = "none"
  BY <1>2, <1>3, Indices DEF Only
<1>5. \A j \in OpIndex : d.op[j].idle = 0
  BY DEF Only, InStep
<1>6. d.pending \notin Questions
  BY Indices
<1>7. ~Outstanding(in, out) /\ cl.awaited = <<>>
  BY <1>1 DEF InStep
<1>8. InStep(d, in2, out, wait, ask, about)
  BY <1>1, <1>4, <1>5, <1>6, <1>7 DEF InStep
<1>9. QED
  BY <1>8, SendsInStep

\* on_prompter_vanished: the operation that waits is cancelled.
LEMMA AloneInStep ==
    ASSUME NEW cl, NEW in, NEW in2, Keeps(in, in2), NEW out, NEW wait \in BOOLEAN,
           NEW ask \in BOOLEAN, NEW about, InStep(cl, in, out, wait, ask, about),
           NEW d, Leaked(cl) => Leaked(d), ~Leaked(cl) /\ d.pending \in Questions =>
                     d.op[d.pending].cancelled,
           d.pending = cl.pending, d.awaited = cl.awaited, d.exported = cl.exported,
           \A k \in OpIndex :
              /\ d.op[k].idle = cl.op[k].idle /\ d.op[k].call = cl.op[k].call
              /\ d.op[k].started = cl.op[k].started
              /\ d.op[k].completions = cl.op[k].completions
    PROVE  InStep(d, in2, out, wait, ask, about)
<1>1. /\ OneAnswer(in2, out, wait, ask)
      /\ Outstanding(in, out) <=> Outstanding(in2, out)
      /\ Silence(in, out, wait, ask) => Silence(in2, out, wait, ask)
      /\ \A Q : Concerns(in, Ready, Q) => Concerns(in2, Ready, Q)
  BY DEF InStep, OneAnswer, Silence, Keeps, Outstanding
<1>2. ASSUME d.pending \in Questions PROVE Asked(d, in2, out, wait, ask, about)
  <2>1. Asked(cl, in, out, wait, ask, about) /\ d.pending \in OpIndex
    BY <1>2, Indices DEF InStep
  <2>2. QED
    BY <1>1, <2>1 DEF Asked
<1>3. ASSUME d.pending \in Questions, ~Leaked(d) PROVE Served(d, in2, ask)
  BY <1>3 DEF Served
<1>4. \A k \in Questions : d.op[k].call # "none" => d.pending = k
  BY Indices DEF InStep
<1>5. Beginning(d) <=> Beginning(cl)
  BY Indices DEF Beginning
<1>6. QED
  BY <1>1, <1>2, <1>3, <1>4, <1>5 DEF InStep

\* d comes after cl: no operation starts, and what is leaked stays leaked.
Follows(cl, d) ==
    /\ cl.closed => d.closed
    /\ d.pending \in {cl.pending, NoOp}
    /\ \A k \in OpIndex :
          /\ cl.op[k].leaked => d.op[k].leaked
          /\ cl.op[k].userCancelled => d.op[k].userCancelled
          /\ cl.op[k].started => d.op[k].started
          /\ d.op[k].call \in {cl.op[k].call, "none"}
          /\ d.op[k].leaked => cl.op[k].leaked \/ cl.pending = k

LEMMA FollowsItself == ASSUME NEW cl PROVE Follows(cl, cl)
BY DEF Follows

LEMMA FollowsTrans ==
    ASSUME NEW cl, NEW d, NEW e, Follows(cl, d), Follows(d, e) PROVE Follows(cl, e)
<1>1. \A k \in OpIndex : k # NoOp
  BY Indices
<1>2. QED
  BY <1>1 DEF Follows

LEMMA FollowsWell ==
    ASSUME NEW cl, NEW d, Follows(cl, d)
    PROVE  /\ Sane(cl) => Sane(d)
           /\ Spoiled(cl) => Spoiled(d)
<1>1. ASSUME Sane(cl) PROVE Sane(d)
  <2>1. \A k \in OpIndex : k # NoOp
    BY Indices
  <2>2. \A k \in OpIndex : /\ d.op[k].leaked \/ d.pending = k => d.op[k].started
                           /\ d.op[k].call \in {"none", "connect", "begin", "perform"}
    BY <1>1, <2>1 DEF Follows, Sane
  <2>3. \A k \in Questions : d.op[k].call \in {"none", "perform"}
    BY <1>1, Indices DEF Follows, Sane
  <2>4. QED
    BY <2>2, <2>3 DEF Sane
<1>2. Spoiled(cl) => Spoiled(d)
  BY DEF Follows, Spoiled
<1>3. QED
  BY <1>1, <1>2

\* The changes to one operation that Put may make.
OpFollows(o, p) ==
    /\ OpShape(p)
    /\ o.leaked <=> p.leaked
    /\ o.userCancelled => p.userCancelled
    /\ p.started = o.started
    /\ p.call \in {o.call, "none"}

LEMMA PutFollows ==
    ASSUME NEW cl, Shape(cl), NEW k \in OpIndex, NEW p, OpFollows(cl.op[k], p)
    PROVE  LET d == Put(cl, k, p) IN
           /\ Shape(d) /\ Follows(cl, d) /\ Only(cl, d, k) /\ d.op[k] = p
           /\ \A n \in ClientFields : n # "op" => d[n] = cl[n]
<1> DEFINE d == Put(cl, k, p)
<1>1. /\ Shape(d) /\ d.op[k] = p
      /\ \A j \in OpIndex : j # k => d.op[j] = cl.op[j]
      /\ \A n \in ClientFields : n # "op" => d[n] = cl[n]
  BY PutFields DEF OpFollows
<1> HIDE DEF d
<1>2. d.closed = cl.closed /\ d.pending = cl.pending
  BY <1>1 DEF ClientFields
<1>3. ASSUME NEW j \in OpIndex
      PROVE  /\ cl.op[j].leaked => d.op[j].leaked
             /\ cl.op[j].userCancelled => d.op[j].userCancelled
             /\ cl.op[j].started => d.op[j].started
             /\ d.op[j].call \in {cl.op[j].call, "none"}
             /\ d.op[j].leaked => cl.op[j].leaked \/ cl.pending = j
  BY <1>1 DEF OpFollows
<1>4. QED
  BY <1>1, <1>2, <1>3 DEF Follows, Only, d

\* What changes of a prompt besides its operations.
LEMMA FieldsFollow ==
    ASSUME NEW cl, Shape(cl), NEW d, Shape(d), d.op = cl.op, cl.closed => d.closed,
           d.pending \in {cl.pending, NoOp}
    PROVE  Follows(cl, d)
BY DEF Follows

\* What g_simple_async_result_complete does to a prompt.
Completes(cl, k, d) ==
    /\ Shape(d) /\ Follows(cl, d) /\ Only(cl, d, k)
    /\ d.pending = cl.pending /\ d.awaited = cl.awaited /\ d.owner = cl.owner
    /\ d.op[k].call = cl.op[k].call /\ d.op[k].idle = cl.op[k].idle
    /\ d.op[k].started = cl.op[k].started
    /\ d.op[k].leaked = cl.op[k].leaked /\ d.op[k].userCancelled = cl.op[k].userCancelled
    /\ k = OpenOp /\ cl.op[k].error # "none" => d.closed

LEMMA CompleteCompletes ==
    ASSUME NEW cl, Shape(cl), NEW k \in OpIndex
    PROVE  Completes(cl, k, Complete(cl, k))
<1> DEFINE d == Complete(cl, k)
           cut == [cl EXCEPT !.closed = TRUE, !.exported = FALSE]
           fails == k = OpenOp /\ cl.op[k].error # "none"
           base == IF fails THEN cut ELSE cl
<1>1. PICK out : d = Put(base, k, Told(cl.op[k], out, cl.lastQuestion))
  BY DEF Complete, Told
<1>2. /\ Shape(base) /\ base.op = cl.op /\ base.pending = cl.pending
      /\ base.awaited = cl.awaited /\ base.owner = cl.owner
      /\ cl.closed => base.closed
      /\ fails => base.closed
  <2>1. /\ Shape(cut) /\ cut.op = cl.op /\ cut.pending = cl.pending
        /\ cut.awaited = cl.awaited /\ cut.owner = cl.owner /\ cut.closed = TRUE
    BY DEF Shape, ClientFields
  <2> HIDE DEF cut
  <2>2. QED
    BY <2>1
<1> HIDE DEF base
<1>3. Follows(cl, base)
  BY <1>2, FieldsFollow
<1> DEFINE p == Told(cl.op[k], out, cl.lastQuestion)
<1>4. /\ OpFollows(cl.op[k], p) /\ p.call = cl.op[k].call /\ p.idle = cl.op[k].idle
      /\ p.started = cl.op[k].started
      /\ p.leaked = cl.op[k].leaked /\ p.userCancelled = cl.op[k].userCancelled
  BY DEF Told, Shape, OpShape, OpFields, OpFollows
<1> HIDE DEF p
<1>5. /\ Shape(d) /\ Follows(base, d) /\ Only(base, d, k) /\ d.op[k] = p
      /\ \A n \in ClientFields : n # "op" => d[n] = base[n]
  BY <1>1, <1>2, <1>4, PutFollows DEF p
<1> HIDE DEF d
<1>6. /\ d.pending = base.pending /\ d.awaited = base.awaited /\ d.owner = base.owner
      /\ d.closed = base.closed
  BY <1>5 DEF ClientFields
<1>7. Follows(cl, d)
  BY <1>3, <1>5, FollowsTrans
<1>8. Only(cl, d, k)
  BY <1>2, <1>5 DEF Only
<1>9. QED
  BY <1>2, <1>4, <1>5, <1>6, <1>7, <1>8 DEF Completes, d

LEMMA PerformCloseFollows ==
    ASSUME NEW cl, Shape(cl)
    PROVE  LET d == PerformClose(cl) IN Shape(d) /\ Follows(cl, d) /\ d.closed
<1> DEFINE cut == [cl EXCEPT !.closed = TRUE, !.pending = NoOp, !.exported = FALSE,
                             !.begun = FALSE]
           d == PerformClose(cl)
           k == cl.pending
           p == [cl.op[k] EXCEPT !.cancelled = TRUE, !.idle = @ + 1]
<1>1. Shape(cut) /\ cut.op = cl.op /\ cut.pending = NoOp /\ cut.closed = TRUE
  BY DEF Shape, ClientFields
<1>2. d = IF k = NoOp THEN cut ELSE Put(cut, k, p)
  BY DEF PerformClose
<1> HIDE DEF cut, d
<1>3. Follows(cl, cut)
  BY <1>1, FieldsFollow
<1>4. CASE k = NoOp
  BY <1>1, <1>2, <1>3, <1>4 DEF d
<1>5. CASE k # NoOp
  <2>1. k \in OpIndex
    BY <1>5 DEF Shape
  <2>2. OpFollows(cut.op[k], p)
    BY <1>1, <2>1 DEF Shape, OpShape, OpFields, OpFollows
  <2> HIDE DEF p
  <2>3. d = Put(cut, k, p)
    BY <1>2, <1>5
  <2>4. /\ Shape(d) /\ Follows(cut, d)
        /\ \A n \in ClientFields : n # "op" => d[n] = cut[n]
    BY <1>1, <2>1, <2>2, <2>3, PutFollows
  <2>5. d.closed
    BY <1>1, <2>4 DEF ClientFields
  <2>6. QED
    BY <1>3, <2>4, <2>5, FollowsTrans DEF d
<1>6. QED
  BY <1>4, <1>5

\* on_perform_prompt_complete with an error, for the pending operation.
LEMMA FailPerformDoes ==
    ASSUME NEW cl, Shape(cl), NEW k \in OpIndex, cl.pending = k, NEW error
    PROVE  LET d == FailPerform(cl, k, error) IN
           /\ Shape(d) /\ Follows(cl, d) /\ Only(cl, d, k) /\ d.pending = NoOp
           /\ d.awaited = cl.awaited /\ d.owner = cl.owner
           /\ d.op[k].call = "none" /\ d.op[k].idle = cl.op[k].idle
           /\ d.op[k].started = cl.op[k].started
           /\ d.op[k].leaked /\ (cl.op[k].userCancelled => d.op[k].userCancelled)
<1> DEFINE o == [cl.op[k] EXCEPT !.call = "none", !.error = error]
           d1 == Put(cl, k, o)
           d2 == [d1 EXCEPT !.pending = NoOp]
           q == [d2.op[k] EXCEPT !.leaked = TRUE]
           d3 == Put(d2, k, q)
           d == Complete(d3, k)
<1>0. k # NoOp
  BY Indices
<1>1. FailPerform(cl, k, error) = d
  BY <1>0 DEF FailPerform, Leak
<1>2. OpFollows(cl.op[k], o) /\ o.call = "none" /\ o.idle = cl.op[k].idle
      /\ o.started = cl.op[k].started
      /\ o.userCancelled = cl.op[k].userCancelled /\ DOMAIN o = OpFields
  BY DEF Shape, OpShape, OpFields, OpFollows
<1> HIDE DEF o
<1>3. /\ Shape(d1) /\ Follows(cl, d1) /\ Only(cl, d1, k) /\ d1.op[k] = o
      /\ \A n \in ClientFields : n # "op" => d1[n] = cl[n]
  BY <1>2, PutFollows
<1> HIDE DEF d1
<1>4. /\ Shape(d2) /\ d2.op = d1.op /\ d2.pending = NoOp
      /\ d2.closed = cl.closed /\ d2.awaited = cl.awaited /\ d2.owner = cl.owner
  BY <1>3 DEF Shape, ClientFields
<1> HIDE DEF d2
<1>5. OpShape(q) /\ q.call = "none" /\ q.idle = cl.op[k].idle /\ q.leaked = TRUE
      /\ q.started = cl.op[k].started /\ q.userCancelled = cl.op[k].userCancelled
  BY <1>2, <1>3, <1>4 DEF OpShape, OpFields, OpFollows
<1> HIDE DEF q
<1>6. /\ Shape(d3) /\ d3.op[k] = q
      /\ \A j \in OpIndex : j # k => d3.op[j] = d2.op[j]
      /\ \A n \in ClientFields : n # "op" => d3[n] = d2[n]
  BY <1>4, <1>5, PutFields
<1> HIDE DEF d3
<1>7. /\ Only(cl, d3, k)
      /\ d3.pending = NoOp /\ d3.closed = cl.closed /\ d3.awaited = cl.awaited
      /\ d3.owner = cl.owner
  BY <1>3, <1>4, <1>6 DEF Only, ClientFields
<1>8. Follows(cl, d3)
  BY <1>5, <1>6, <1>7 DEF Follows, Only
<1>9. Completes(d3, k, d)
  BY <1>6, CompleteCompletes
<1> HIDE DEF d
<1>10. Follows(cl, d)
  BY <1>8, <1>9, FollowsTrans DEF Completes
<1>11. Only(cl, d, k)
  BY <1>7, <1>9 DEF Completes, Only
<1>12. QED
  BY <1>1, <1>5, <1>6, <1>7, <1>9, <1>10, <1>11 DEF Completes

-----------------------------------------------------------------------------
(* The steps of a prompt keep it in step.                                  *)

Loss == {"Vanished"}

\* The channels of a prompt; while the prompter is there, nobody says that it
\* is gone.
Boxed(in, out, there) ==
    /\ Proper(in) /\ Proper(out) /\ Concerns(out, Request, Questions)
    /\ there => None(in, Loss)

Good(cl, in, out, wait, ask, about, there) ==
    /\ InStep(cl, in, out, wait, ask, about)
    /\ there => Fresh(cl) \/ cl.owner

\* A prompt is in step with the prompter, unless it is closed or spoiled.
Locked(cl, in, out, wait, ask, about, there) ==
    /\ Sane(cl) /\ Boxed(in, out, there)
    /\ Spoiled(cl) \/ Good(cl, in, out, wait, ask, about, there)

LEMMA LocksOn ==
    ASSUME NEW cl, NEW d, Follows(cl, d),
           NEW in, NEW in2, NEW out, NEW out2,
           NEW wait \in BOOLEAN, NEW ask \in BOOLEAN, NEW about, NEW there \in BOOLEAN,
           Locked(cl, in, out, wait, ask, about, there), Boxed(in2, out2, there),
           Good(cl, in, out, wait, ask, about, there) /\ ~Spoiled(cl) =>
              Spoiled(d) \/ Good(d, in2, out2, wait, ask, about, there)
    PROVE  Locked(d, in2, out2, wait, ask, about, there)
BY FollowsWell DEF Locked

LEMMA ClosedLocks ==
    ASSUME NEW cl, NEW d, Follows(cl, d), d.closed,
           NEW in, NEW in2, NEW out, NEW out2,
           NEW wait \in BOOLEAN, NEW ask \in BOOLEAN, NEW about, NEW there \in BOOLEAN,
           Locked(cl, in, out, wait, ask, about, there), Boxed(in2, out2, there)
    PROVE  Locked(d, in2, out2, wait, ask, about, there)
BY LocksOn DEF Spoiled

\* The prompt, after a step that makes it d.
LEMMA Becomes ==
    ASSUME ProtocolInv, NEW c \in Callback, NEW d, Become(c, d)
    PROVE  client'[c] = d
BY DEF ProtocolInv, Tables, Become, With

LEMMA Reads ==
    ASSUME ProtocolInv, NEW c \in Callback, inbox[c] # <<>>, Receive(c),
           NEW out, NEW there \in BOOLEAN, Boxed(inbox[c], out, there)
    PROVE  Taken(inbox[c], Head(inbox[c]), inbox'[c]) /\ Boxed(inbox'[c], out, there)
<1>1. inbox'[c] = Tail(inbox[c]) /\ IsBox(inbox[c])
  BY DEF ProtocolInv, Tables, Sendable, Receive, With
<1>2. Taken(inbox[c], Head(inbox[c]), inbox'[c])
  BY <1>1, TakenBoxes
<1>3. QED
  BY <1>2 DEF Taken, Boxed

\* What a prompt may send.
Harmless(h) == IsBox(h) /\ Proper(h) /\ Concerns(h, Request, Questions)
Quiet(h) == Harmless(h) /\ None(h, Ready) /\ None(h, Answer) /\ None(h, Calls)

LEMMA Writes ==
    ASSUME ProtocolInv, NEW c \in Callback, NEW h, Harmless(h), Transmit(c, h),
           NEW in, NEW there \in BOOLEAN, Boxed(in, outbox[c], there)
    PROVE  Joined(outbox[c], h, outbox'[c]) /\ Boxed(in, outbox'[c], there)
<1>1. outbox'[c] = outbox[c] \o h /\ IsBox(outbox[c])
  BY DEF ProtocolInv, Tables, Sendable, Transmit, With
<1>2. Joined(outbox[c], h, outbox'[c])
  BY <1>1, JoinedBoxes DEF Harmless
<1>3. QED
  BY <1>2 DEF Joined, Boxed, Harmless

LEMMA QuietKeeps ==
    ASSUME NEW s, NEW h, NEW t, Joined(s, h, t), Quiet(h) PROVE Keeps(s, t)
BY JoinedKeeps DEF Quiet

LEMMA QuietMessages ==
    /\ Quiet(<<>>) /\ Quiet(<<Stop>>) /\ \A cl : Quiet(ClosingCalls(cl))
    /\ \A ok, o : Quiet(<<ReadyReply(ok, o)>>)
<1>1. Quiet(<<>>)
  BY SingleContents DEF Quiet, Harmless
<1>2. ASSUME NEW m, "kind" \in DOMAIN m, m.kind \in {"Stop", "ReadyReply"}
      PROVE  Quiet(<<m>>)
  <2>1. /\ m.kind \notin Ready /\ m.kind \notin Answer /\ m.kind \notin Calls
        /\ m.kind \notin Request
    BY <1>2 DEF Ready, Answer, Calls, Request
  <2>2. IsBox(<<m>>) /\ Proper(<<m>>) /\ Concerns(<<m>>, Request, Questions)
    BY <1>2, <2>1, SingleContents
  <2>3. None(<<m>>, Ready) /\ None(<<m>>, Answer) /\ None(<<m>>, Calls)
    BY <1>2, <2>1, SingleContents
  <2>4. QED
    BY <2>2, <2>3 DEF Quiet, Harmless
<1>3. Quiet(<<Stop>>)
  <2> DEFINE m == Stop
  <2>1. "kind" \in DOMAIN m /\ m.kind = "Stop"
    BY DEF Stop
  <2> HIDE DEF m
  <2>2. Quiet(<<m>>)
    BY <1>2, <2>1
  <2>3. QED
    BY <2>2 DEF m
<1>4. ASSUME NEW ok, NEW o PROVE Quiet(<<ReadyReply(ok, o)>>)
  <2> DEFINE m == ReadyReply(ok, o)
  <2>1. "kind" \in DOMAIN m /\ m.kind = "ReadyReply"
    BY DEF ReadyReply
  <2> HIDE DEF m
  <2>2. Quiet(<<m>>)
    BY <1>2, <2>1
  <2>3. QED
    BY <2>2 DEF m
<1>5. QED
  BY <1>1, <1>3, <1>4 DEF ClosingCalls

LEMMA CallMessages ==
    Harmless(<<Begin>>) /\ \A k \in Questions : Harmless(<<Perform(k)>>)
<1>1. Harmless(<<Begin>>)
  <2> DEFINE m == Begin
  <2>1. "kind" \in DOMAIN m /\ m.kind = "Begin"
    BY DEF Begin
  <2> HIDE DEF m
  <2>2. m.kind \notin Request
    BY <2>1 DEF Request
  <2>3. IsBox(<<m>>) /\ Proper(<<m>>) /\ Concerns(<<m>>, Request, Questions)
    BY <2>1, <2>2, SingleContents
  <2>4. QED
    BY <2>3 DEF Harmless, m
<1>2. ASSUME NEW k \in Questions PROVE Harmless(<<Perform(k)>>)
  <2> DEFINE m == Perform(k)
  <2>1. /\ "kind" \in DOMAIN m /\ m.kind = "Perform"
        /\ "question" \in DOMAIN m /\ m.question = k
    BY DEF Perform
  <2> HIDE DEF m
  <2>2. IsBox(<<m>>) /\ Proper(<<m>>) /\ Concerns(<<m>>, Request, Questions)
    BY <2>1, SingleContents
  <2>3. QED
    BY <2>2 DEF Harmless, m
<1>3. QED
  BY <1>1, <1>2

\* perform_close, and what it sends.
LEMMA CloseLocks ==
    ASSUME ProtocolInv, NEW c \in Callback, NEW d, Become(c, d),
           Follows(client[c], d), d.closed,
           NEW h, Quiet(h), inbox' = inbox, Transmit(c, h),
           NEW wait \in BOOLEAN, NEW ask \in BOOLEAN, NEW about, NEW there \in BOOLEAN,
           Locked(client[c], inbox[c], outbox[c], wait, ask, about, there)
    PROVE  Locked(client'[c], inbox'[c], outbox'[c], wait, ask, about, there)
<1>1. client'[c] = d
  BY Becomes
<1>2. Boxed(inbox[c], outbox[c], there)
  BY DEF Locked
<1>3. Boxed(inbox[c], outbox'[c], there)
  BY <1>2, Writes DEF Quiet
<1>4. QED
  BY <1>1, <1>3, ClosedLocks

\* What is changed besides the operations.
LEMMA MinorFollows ==
    ASSUME NEW cl, Shape(cl), NEW d, DOMAIN d = ClientFields, d.op = cl.op,
           d.begun \in BOOLEAN, d.closed = cl.closed, d.exported = cl.exported,
           d.pending = cl.pending
    PROVE  Shape(d) /\ Follows(cl, d)
<1>1. Shape(d)
  BY DEF Shape
<1>2. QED
  BY <1>1, FieldsFollow

LEMMA RealCloseLocks ==
    ASSUME ProtocolInv, NEW c \in Callback, RealClose(c) \/ CloseAsync(c),
           NEW wait \in BOOLEAN, NEW ask \in BOOLEAN, NEW about, NEW there \in BOOLEAN,
           Locked(client[c], inbox[c], outbox[c], wait, ask, about, there)
    PROVE  Locked(client'[c], inbox'[c], outbox'[c], wait, ask, about, there)
<1> DEFINE cl == client[c]
           e == PerformClose(cl)
<1>1. Shape(cl)
  BY DEF ProtocolInv, ClientWell
<1>2. Shape(e) /\ Follows(cl, e) /\ e.closed
  BY <1>1, PerformCloseFollows
<1>3. inbox' = inbox /\ Transmit(c, ClosingCalls(cl)) /\ Quiet(ClosingCalls(cl))
  BY QuietMessages DEF RealClose, CloseAsync
<1>4. PICK d : /\ Become(c, d) /\ Follows(cl, d) /\ d.closed
  <2>1. CASE RealClose(c)
    BY <1>2, <2>1 DEF RealClose
  <2>2. CASE CloseAsync(c)
    <3>1. PICK v : Become(c, [e EXCEPT !.closing = v])
      BY <2>2 DEF CloseAsync
    <3> DEFINE d == [e EXCEPT !.closing = v]
    <3> HIDE DEF e
    <3>2. /\ DOMAIN d = ClientFields /\ d.op = e.op /\ d.begun \in BOOLEAN
          /\ d.closed = e.closed /\ d.exported = e.exported /\ d.pending = e.pending
      BY <1>2 DEF Shape, ClientFields
    <3>3. Become(c, d)
      BY <3>1
    <3> HIDE DEF d
    <3>4. Follows(e, d) /\ d.closed
      BY <1>2, <3>2, MinorFollows
    <3>5. QED
      BY <1>2, <3>3, <3>4, FollowsTrans
  <2>3. QED
    BY <2>1, <2>2
<1>5. QED
  BY <1>3, <1>4, CloseLocks

LEMMA WaitingLocks ==
    ASSUME ProtocolInv, NEW c \in Callback, NEW k \in OpIndex, WaitingFires(c, k),
           NEW wait \in BOOLEAN, NEW ask \in BOOLEAN, NEW about, NEW there \in BOOLEAN,
           Locked(client[c], inbox[c], outbox[c], wait, ask, about, there)
    PROVE  Locked(client'[c], inbox'[c], outbox'[c], wait, ask, about, there)
<1> DEFINE cl == client[c]
           p == [cl.op[k] EXCEPT !.waiting = FALSE, !.error = "cancelled"]
           e == Put(cl, k, p)
           d == PerformClose(e)
<1>1. Shape(cl)
  BY DEF ProtocolInv, ClientWell
<1>2. Become(c, d) /\ inbox' = inbox /\ Transmit(c, ClosingCalls(cl))
  BY DEF WaitingFires
<1>3. OpFollows(cl.op[k], p)
  BY <1>1 DEF Shape, OpShape, OpFields, OpFollows
<1> HIDE DEF p
<1>4. Shape(e) /\ Follows(cl, e)
  BY <1>1, <1>3, PutFollows
<1> HIDE DEF e
<1>5. Follows(e, d) /\ d.closed
  BY <1>4, PerformCloseFollows
<1> HIDE DEF d
<1>6. Follows(cl, d)
  BY <1>4, <1>5, FollowsTrans
<1>7. QED
  BY <1>2, <1>5, <1>6, CloseLocks, QuietMessages

LEMMA TimeoutLocks ==
    ASSUME ProtocolInv, NEW c \in Callback, TimeoutFires(c),
           NEW wait \in BOOLEAN, NEW ask \in BOOLEAN, NEW about, NEW there \in BOOLEAN,
           Locked(client[c], inbox[c], outbox[c], wait, ask, about, there)
    PROVE  Locked(client'[c], inbox'[c], outbox'[c], wait, ask, about, there)
<1> DEFINE cl == client[c]
           p == [cl.op[OpenOp] EXCEPT !.timeout = FALSE]
           e == Put(cl, OpenOp, p)
           d == PerformClose(e)
           q == [d.op[OpenOp] EXCEPT !.error = "in-progress"]
           f == Put(d, OpenOp, q)
           g == Complete(f, OpenOp)
<1>1. Shape(cl) /\ OpenOp \in OpIndex
  BY Indices DEF ProtocolInv, ClientWell
<1>2. Become(c, g) /\ inbox' = inbox /\ Transmit(c, ClosingCalls(cl))
  BY DEF TimeoutFires
<1>3. OpFollows(cl.op[OpenOp], p)
  BY <1>1 DEF Shape, OpShape, OpFields, OpFollows
<1> HIDE DEF p
<1>4. Shape(e) /\ Follows(cl, e)
  BY <1>1, <1>3, PutFollows
<1> HIDE DEF e
<1>5. Shape(d) /\ Follows(e, d) /\ d.closed
  BY <1>4, PerformCloseFollows
<1> HIDE DEF d
<1>6. OpFollows(d.op[OpenOp], q)
  BY <1>1, <1>5 DEF Shape, OpShape, OpFields, OpFollows
<1> HIDE DEF q
<1>7. Shape(f) /\ Follows(d, f)
  BY <1>1, <1>5, <1>6, PutFollows
<1> HIDE DEF f
<1>8. Follows(f, g)
  BY <1>1, <1>7, CompleteCompletes DEF Completes
<1> HIDE DEF g
<1>9. Follows(cl, g)
  BY <1>4, <1>5, <1>7, <1>8, FollowsTrans
<1>10. Follows(d, g)
  BY <1>7, <1>8, FollowsTrans
<1>11. g.closed
  BY <1>5, <1>10 DEF Follows
<1>12. QED
  BY <1>2, <1>9, <1>11, CloseLocks, QuietMessages

\* prompt_method_done.
LEMMA DoneLocks ==
    ASSUME ProtocolInv, NEW c \in Callback, ReceivePromptDone(c),
           NEW wait \in BOOLEAN, NEW ask \in BOOLEAN, NEW about, NEW there \in BOOLEAN,
           Locked(client[c], inbox[c], outbox[c], wait, ask, about, there)
    PROVE  Locked(client'[c], inbox'[c], outbox'[c], wait, ask, about, there)
<1> DEFINE cl == client[c]
           m == Head(inbox[c])
<1>1. Shape(cl)
  BY DEF ProtocolInv, ClientWell
<1>2. /\ inbox[c] # <<>> /\ m.kind = "PromptDone" /\ Receive(c) /\ outbox' = outbox
      /\ Boxed(inbox[c], outbox[c], there)
  BY DEF ReceivePromptDone, Got, Locked
<1>3. Taken(inbox[c], m, inbox'[c]) /\ Boxed(inbox'[c], outbox'[c], there)
  BY <1>2, Reads
<1> HIDE DEF m
<1>4. Keeps(inbox[c], inbox'[c])
  BY <1>2, <1>3, TakenKeeps DEF Plain
<1>5. CASE cl.exported /\ Serving(cl)
  <2> DEFINE e == [cl EXCEPT !.begun = FALSE]
             d == PerformClose(e)
  <2>1. Become(c, d)
    BY <1>5 DEF ReceivePromptDone
  <2>2. Shape(e) /\ Follows(cl, e)
    <3>1. /\ DOMAIN e = ClientFields /\ e.op = cl.op /\ e.begun \in BOOLEAN
          /\ e.closed = cl.closed /\ e.exported = cl.exported /\ e.pending = cl.pending
      BY <1>1 DEF Shape, ClientFields
    <3> HIDE DEF e
    <3>2. QED
      BY <1>1, <3>1, MinorFollows
  <2> HIDE DEF e
  <2>3. Follows(e, d) /\ d.closed
    BY <2>2, PerformCloseFollows
  <2> HIDE DEF d
  <2>4. Follows(cl, d)
    BY <2>2, <2>3, FollowsTrans
  <2>5. client'[c] = d
    BY <2>1, Becomes
  <2>6. QED
    BY <1>3, <2>3, <2>4, <2>5, ClosedLocks
<1>6. CASE ~(cl.exported /\ Serving(cl))
  <2>1. client' = client
    BY <1>6 DEF ReceivePromptDone
  <2>2. ASSUME Good(cl, inbox[c], outbox[c], wait, ask, about, there), ~Spoiled(cl)
        PROVE  Good(cl, inbox'[c], outbox[c], wait, ask, about, there)
    <3>1. cl.pending \notin Questions
      <4>1. ASSUME cl.pending \in Questions PROVE cl.exported /\ Serving(cl)
        <5>1. cl.exported /\ cl.op[cl.pending].started /\ cl.op[cl.pending].completions = 0
          BY <2>2, <4>1 DEF Good, InStep, Asked
        <5>2. QED
          BY <4>1, <5>1, Indices DEF Serving, Blocked
      <4>2. QED
        BY <1>6, <4>1
    <3>2. Resembles(cl, cl) /\ Keeps(outbox[c], outbox[c])
      BY ResemblesItself, KeepsItself
    <3>3. InStep(cl, inbox'[c], outbox[c], wait, ask, about)
      BY <1>4, <2>2, <3>1, <3>2, StaysInStep DEF Good
    <3>4. QED
      BY <2>2, <3>3 DEF Good
  <2>3. QED
    BY <1>2, <1>3, <2>1, <2>2, LocksOn, FollowsItself
<1>7. QED
  BY <1>5, <1>6

\* A prompt that changes, without a message.
LEMMA ResemblesLocks ==
    ASSUME ProtocolInv, NEW c \in Callback, NEW d, Become(c, d),
           Follows(client[c], d), Resembles(client[c], d), Fresh(client[c]) => Fresh(d),
           NEW in2, inbox'[c] = in2, Keeps(inbox[c], in2),
           inbox[c] = in2 \/ client[c].pending \notin Questions
              \/ (~None(inbox[c], Relief) => ~None(in2, Relief)),
           outbox' = outbox,
           NEW wait \in BOOLEAN, NEW ask \in BOOLEAN, NEW about, NEW there \in BOOLEAN,
           Boxed(in2, outbox[c], there),
           Locked(client[c], inbox[c], outbox[c], wait, ask, about, there)
    PROVE  Locked(client'[c], inbox'[c], outbox'[c], wait, ask, about, there)
<1> DEFINE cl == client[c]
<1>1. client'[c] = d /\ Keeps(outbox[c], outbox[c])
  BY Becomes, KeepsItself
<1>2. ASSUME Good(cl, inbox[c], outbox[c], wait, ask, about, there)
      PROVE  Good(d, in2, outbox[c], wait, ask, about, there)
  <2>1. InStep(cl, inbox[c], outbox[c], wait, ask, about)
    BY <1>2 DEF Good
  <2>2. InStep(d, in2, outbox[c], wait, ask, about)
    BY <1>1, <2>1, StaysInStep
  <2>3. d.owner = cl.owner
    BY DEF Resembles
  <2>4. QED
    BY <1>2, <2>2, <2>3 DEF Good
<1>3. QED
  BY <1>1, <1>2, LocksOn

\* gcr_system_prompt_open_async.
LEMMA OpenLocks ==
    ASSUME ProtocolInv, NEW c \in Callback, Open(c),
           NEW wait \in BOOLEAN, NEW ask \in BOOLEAN, NEW about, NEW there \in BOOLEAN,
           Locked(client[c], inbox[c], outbox[c], wait, ask, about, there)
    PROVE  Locked(client'[c], inbox'[c], outbox'[c], wait, ask, about, there)
<1> DEFINE cl == client[c]
           o == [NewOp EXCEPT !.started = TRUE, !.call = "connect"]
           d == Put(cl, OpenOp, o)
<1>1. Become(c, d) /\ ~cl.op[OpenOp].started /\ inbox' = inbox /\ outbox' = outbox
  BY DEF Open
<1>2. Shape(cl) /\ Fresh(cl) /\ Unopened(cl) /\ OpenWell(cl)
  BY <1>1 DEF ProtocolInv, ClientWell, Fresh
<1>3. /\ OpShape(o) /\ o.started /\ o.call = "connect" /\ o.idle = 0 /\ o.leaked = FALSE
  BY DEF NewOp, OpShape, OpFields
<1> HIDE DEF o
<1>4. /\ Shape(d) /\ d.op[OpenOp] = o
      /\ \A j \in OpIndex : j # OpenOp => d.op[j] = cl.op[j]
      /\ \A n \in ClientFields : n # "op" => d[n] = cl[n]
  BY <1>2, <1>3, PutFields, Indices
<1> HIDE DEF d
<1>5. /\ d.closed = cl.closed /\ d.pending = cl.pending /\ d.awaited = cl.awaited
      /\ d.owner = cl.owner /\ d.exported = cl.exported
  BY <1>4 DEF ClientFields
<1>6. \A j \in Questions : j \in OpIndex /\ j # OpenOp
  BY Indices
<1>7. Sane(cl) /\ Boxed(inbox[c], outbox[c], there)
  BY DEF Locked
<1>8. \A j \in OpIndex : ~cl.op[j].started /\ ~cl.op[j].leaked
  BY <1>1, <1>2, <1>7, Indices DEF Sane, Unopened
<1>9. ~Spoiled(cl)
  BY <1>2, <1>8 DEF Spoiled, Unopened
<1>10. Good(cl, inbox[c], outbox[c], wait, ask, about, there)
  BY <1>9 DEF Locked
<1>11. Resembles(cl, d)
  <2>1. ~Beginning(cl)
    BY <1>1, <1>2 DEF OpenWell, Beginning
  <2>2. \A k \in OpIndex : d.op[k].idle = cl.op[k].idle
                            /\ (cl.op[k].leaked => d.op[k].leaked)
    BY <1>2, <1>3, <1>4, <1>8 DEF Unopened
  <2>3. QED
    BY <1>4, <1>5, <1>6, <2>1, <2>2 DEF Resembles
<1>12. Sane(d)
  <2>1. d.pending = NoOp /\ \A j \in OpIndex : j # NoOp
    BY <1>2, <1>5, Indices DEF Unopened
  <2>2. QED
    BY <1>3, <1>4, <1>6, <1>7, <2>1 DEF Sane
<1>13. InStep(d, inbox[c], outbox[c], wait, ask, about)
  BY <1>10, <1>11, KeepsItself, StaysInStep DEF Good
<1>14. Fresh(d)
  BY <1>3, <1>4 DEF Fresh
<1>15. client'[c] = d
  BY <1>1, Becomes
<1>16. QED
  BY <1>1, <1>7, <1>12, <1>13, <1>14, <1>15 DEF Locked, Good

\* g_cancellable_cancel.
LEMMA CancelLocks ==
    ASSUME ProtocolInv, NEW c \in Callback, NEW k \in OpIndex, Cancel(c, k),
           NEW wait \in BOOLEAN, NEW ask \in BOOLEAN, NEW about, NEW there \in BOOLEAN,
           Locked(client[c], inbox[c], outbox[c], wait, ask, about, there)
    PROVE  Locked(client'[c], inbox'[c], outbox'[c], wait, ask, about, there)
<1> DEFINE cl == client[c]
           p == [cl.op[k] EXCEPT !.userCancelled = TRUE, !.cancelled = TRUE]
           d == Put(cl, k, p)
<1>1. Become(c, d) /\ inbox' = inbox /\ outbox' = outbox
  BY DEF Cancel
<1>2. Shape(cl) /\ Boxed(inbox[c], outbox[c], there)
  BY DEF ProtocolInv, ClientWell, Locked
<1>3. /\ OpFollows(cl.op[k], p) /\ p.call = cl.op[k].call /\ p.idle = cl.op[k].idle
      /\ p.started = cl.op[k].started /\ p.completions = cl.op[k].completions
      /\ p.leaked = cl.op[k].leaked /\ p.cancelled = TRUE
  BY <1>2 DEF Shape, OpShape, OpFields, OpFollows
<1> HIDE DEF p
<1>4. /\ Shape(d) /\ Follows(cl, d) /\ Only(cl, d, k) /\ d.op[k] = p
      /\ \A n \in ClientFields : n # "op" => d[n] = cl[n]
  BY <1>2, <1>3, PutFollows
<1> HIDE DEF d
<1>5. /\ d.pending = cl.pending /\ d.awaited = cl.awaited
      /\ d.owner = cl.owner /\ d.exported = cl.exported
  BY <1>4 DEF ClientFields
<1>6. \A j \in OpIndex :
         /\ d.op[j].call = cl.op[j].call /\ d.op[j].idle = cl.op[j].idle
         /\ d.op[j].started = cl.op[j].started
         /\ d.op[j].completions = cl.op[j].completions
         /\ d.op[j].leaked = cl.op[j].leaked
         /\ cl.op[j].cancelled => d.op[j].cancelled
  BY <1>3, <1>4 DEF Only
<1>7. Resembles(cl, d) /\ (Fresh(cl) => Fresh(d))
  <2>1. Beginning(cl) => Beginning(d)
    BY <1>6, Indices DEF Beginning
  <2>2. Fresh(cl) => Fresh(d)
    BY <1>6, Indices DEF Fresh
  <2>3. \A j \in Questions : j \in OpIndex
    BY Indices
  <2>4. QED
    BY <1>5, <1>6, <2>1, <2>2, <2>3 DEF Resembles
<1>8. inbox'[c] = inbox[c] /\ Keeps(inbox[c], inbox[c])
  BY <1>1, KeepsItself
<1>9. QED
  BY <1>1, <1>2, <1>4, <1>7, <1>8, ResemblesLocks

\* on_prompter_stop_prompting, and closing that completes.
LEMMA ClosingLocks ==
    ASSUME ProtocolInv, NEW c \in Callback, ReceiveStopReply(c) \/ CloseIdleFires(c),
           NEW wait \in BOOLEAN, NEW ask \in BOOLEAN, NEW about, NEW there \in BOOLEAN,
           Locked(client[c], inbox[c], outbox[c], wait, ask, about, there)
    PROVE  Locked(client'[c], inbox'[c], outbox'[c], wait, ask, about, there)
<1> DEFINE cl == client[c]
<1>1. PICK v : Become(c, [cl EXCEPT !.closing = v])
  BY DEF ReceiveStopReply, CloseIdleFires
<1> DEFINE d == [cl EXCEPT !.closing = v]
<1>2. Shape(cl) /\ Boxed(inbox[c], outbox[c], there)
  BY DEF ProtocolInv, ClientWell, Locked
<1>3. /\ DOMAIN d = ClientFields /\ d.op = cl.op /\ d.begun \in BOOLEAN
      /\ d.closed = cl.closed /\ d.exported = cl.exported /\ d.pending = cl.pending
      /\ d.awaited = cl.awaited /\ d.owner = cl.owner
  BY <1>2 DEF Shape, ClientFields
<1>4. Become(c, d)
  BY <1>1
<1> HIDE DEF d
<1>5. Follows(cl, d)
  BY <1>2, <1>3, MinorFollows
<1>6. Resembles(cl, d) /\ (Fresh(cl) => Fresh(d))
  BY <1>3 DEF Resembles, Fresh, Beginning
<1>7. outbox' = outbox
  BY DEF ReceiveStopReply, CloseIdleFires
<1>8. CASE CloseIdleFires(c)
  <2>1. inbox'[c] = inbox[c] /\ Keeps(inbox[c], inbox[c])
    BY <1>8, KeepsItself DEF CloseIdleFires
  <2>2. QED
    BY <1>2, <1>4, <1>5, <1>6, <1>7, <2>1, ResemblesLocks
<1>9. CASE ReceiveStopReply(c)
  <2> DEFINE m == Head(inbox[c])
             in2 == inbox'[c]
  <2>1. inbox[c] # <<>> /\ m.kind = "StopReply" /\ Receive(c)
    BY <1>9 DEF ReceiveStopReply, Got
  <2>2. Taken(inbox[c], m, inbox'[c]) /\ Boxed(inbox'[c], outbox[c], there)
    BY <1>2, <2>1, Reads
  <2> HIDE DEF m
  <2>3. Keeps(inbox[c], inbox'[c])
    BY <2>1, <2>2, TakenKeeps DEF Plain
  <2>4. ~None(inbox[c], Relief) => ~None(inbox'[c], Relief)
    BY <2>1, <2>2 DEF Taken, Relief
  <2>5. QED
    BY <1>2, <1>4, <1>5, <1>6, <1>7, <2>2, <2>3, <2>4, ResemblesLocks
<1>10. QED
  BY <1>8, <1>9

\* Nothing is sent or received.
LEMMA StillLocks ==
    ASSUME ProtocolInv, NEW c \in Callback, NEW d, Become(c, d), Follows(client[c], d),
           inbox' = inbox, outbox' = outbox,
           NEW wait \in BOOLEAN, NEW ask \in BOOLEAN, NEW about, NEW there \in BOOLEAN,
           Locked(client[c], inbox[c], outbox[c], wait, ask, about, there),
           Good(client[c], inbox[c], outbox[c], wait, ask, about, there)
              /\ ~Spoiled(client[c]) => Spoiled(d)
    PROVE  Locked(client'[c], inbox'[c], outbox'[c], wait, ask, about, there)
<1>1. client'[c] = d
  BY Becomes
<1>2. Boxed(inbox[c], outbox[c], there)
  BY DEF Locked
<1>3. QED
  BY <1>1, <1>2, LocksOn

\* Opening that fails closes the prompt.
LEMMA OpeningFailsFollows ==
    ASSUME NEW cl, Shape(cl), NEW error, error # "none"
    PROVE  LET d == Complete(Put(cl, OpenOp, [cl.op[OpenOp] EXCEPT
                                !.call = "none", !.error = error]), OpenOp)
           IN  Follows(cl, d) /\ d.closed
<1> DEFINE p == [cl.op[OpenOp] EXCEPT !.call = "none", !.error = error]
           e == Put(cl, OpenOp, p)
           d == Complete(e, OpenOp)
<1>0. OpenOp \in OpIndex
  BY Indices
<1>1. OpFollows(cl.op[OpenOp], p) /\ p.error = error
  BY <1>0 DEF Shape, OpShape, OpFields, OpFollows
<1> HIDE DEF p
<1>2. Shape(e) /\ Follows(cl, e) /\ e.op[OpenOp] = p
  BY <1>0, <1>1, PutFollows
<1> HIDE DEF e
<1>3. Completes(e, OpenOp, d)
  BY <1>0, <1>2, CompleteCompletes
<1> HIDE DEF d
<1>4. Follows(cl, d) /\ d.closed
  BY <1>1, <1>2, <1>3, FollowsTrans DEF Completes
<1>5. QED
  BY <1>4 DEF d, e, p

\* The same of an operation that there may be none of.
LEMMA PutFollowsAny ==
    ASSUME NEW cl, Shape(cl), NEW k, NEW p, k \in OpIndex => OpFollows(cl.op[k], p)
    PROVE  LET d == Put(cl, k, p) IN
           /\ Shape(d) /\ Follows(cl, d)
           /\ \A n \in ClientFields : n # "op" => d[n] = cl[n]
<1> DEFINE d == Put(cl, k, p)
<1>1. CASE k \in OpIndex
  BY <1>1, PutFollows
<1>2. CASE k \notin OpIndex
  <2>1. /\ Shape(d)
        /\ \A j \in OpIndex : d.op[j] = cl.op[j]
        /\ \A n \in ClientFields : n # "op" => d[n] = cl[n]
    BY <1>2, PutFields
  <2> HIDE DEF d
  <2>2. d.closed = cl.closed /\ d.pending = cl.pending
    BY <2>1 DEF ClientFields
  <2>3. Follows(cl, d)
    BY <2>1, <2>2 DEF Follows
  <2>4. QED
    BY <2>1, <2>3 DEF d
<1>3. QED
  BY <1>1, <1>2

LEMMA CompleteFollowsAny ==
    ASSUME NEW cl, Shape(cl), NEW k
    PROVE  Shape(Complete(cl, k)) /\ Follows(cl, Complete(cl, k))
<1>1. CASE k \in OpIndex
  BY <1>1, CompleteCompletes DEF Completes
<1>2. CASE k \notin OpIndex
  <2>1. k # OpenOp
    BY <1>2, Indices
  <2>2. PICK p : Complete(cl, k) = Put(cl, k, p)
    BY <2>1 DEF Complete
  <2>3. QED
    BY <1>2, <2>2, PutFollowsAny
<1>3. QED
  BY <1>1, <1>2

\* on_perform_prompt_complete with an error, whatever is pending.
LEMMA FailPerformFollows ==
    ASSUME NEW cl, Shape(cl), NEW k, NEW error
    PROVE  LET d == FailPerform(cl, k, error) IN Shape(d) /\ Follows(cl, d)
<1> DEFINE o == [cl.op[k] EXCEPT !.call = "none", !.error = error]
           d1 == Put(cl, k, o)
           d2 == [d1 EXCEPT !.pending = NoOp]
           p == cl.pending
           d3 == Leak(d2, p)
           d == Complete(d3, k)
<1>1. FailPerform(cl, k, error) = d
  BY DEF FailPerform
<1>2. k \in OpIndex => OpFollows(cl.op[k], o)
  BY DEF Shape, OpShape, OpFields, OpFollows
<1> HIDE DEF o
<1>3. /\ Shape(d1) /\ Follows(cl, d1) /\ d1.pending = cl.pending
  BY <1>2, PutFollowsAny DEF ClientFields
<1> HIDE DEF d1
<1>4. /\ Shape(d2) /\ d2.op = d1.op /\ d2.pending = NoOp /\ d2.closed = d1.closed
  BY <1>3 DEF Shape, ClientFields
<1> HIDE DEF d2
<1>5. Follows(d1, d2)
  BY <1>3, <1>4, FieldsFollow
<1>6. Follows(cl, d2)
  BY <1>3, <1>5, FollowsTrans
<1>7. Shape(d3) /\ Follows(cl, d3)
  <2>1. CASE p = NoOp
    BY <1>4, <1>6, <2>1 DEF Leak
  <2>2. CASE p # NoOp
    <3> DEFINE q == [d2.op[p] EXCEPT !.leaked = TRUE]
    <3>1. p \in OpIndex
      BY <2>2 DEF Shape
    <3>2. /\ OpShape(q) /\ q.leaked = TRUE /\ q.call = d2.op[p].call
          /\ q.started = d2.op[p].started /\ q.userCancelled = d2.op[p].userCancelled
      BY <1>4, <3>1 DEF Shape, OpShape, OpFields
    <3>3. d3 = Put(d2, p, q)
      BY <2>2 DEF Leak
    <3> HIDE DEF q, d3
    <3>4. /\ Shape(d3) /\ d3.op[p] = q
          /\ \A j \in OpIndex : j # p => d3.op[j] = d2.op[j]
          /\ \A n \in ClientFields : n # "op" => d3[n] = d2[n]
      BY <1>4, <3>1, <3>2, <3>3, PutFields
    <3>5. d3.closed = d2.closed /\ d3.pending = d2.pending
      BY <3>4 DEF ClientFields
    <3>6. Follows(cl, d3)
      <4>1. ASSUME NEW j \in OpIndex
            PROVE  /\ cl.op[j].leaked => d3.op[j].leaked
                   /\ cl.op[j].userCancelled => d3.op[j].userCancelled
                   /\ cl.op[j].started => d3.op[j].started
                   /\ d3.op[j].call \in {cl.op[j].call, "none"}
                   /\ d3.op[j].leaked => cl.op[j].leaked \/ cl.pending = j
        <5>1. CASE j = p
          BY <1>6, <3>1, <3>2, <3>4, <5>1 DEF Follows
        <5>2. CASE j # p
          BY <1>6, <3>4, <5>2 DEF Follows
        <5>3. QED
          BY <5>1, <5>2
      <4>2. QED
        BY <1>6, <3>5, <4>1 DEF Follows
    <3>7. QED
      BY <3>4, <3>6
  <2>3. QED
    BY <2>1, <2>2
<1> HIDE DEF d3
<1>8. Shape(d) /\ Follows(d3, d)
  BY <1>7, CompleteFollowsAny
<1> HIDE DEF d
<1>9. QED
  BY <1>1, <1>7, <1>8, FollowsTrans

\* A call that is cancelled leaves the prompt spoiled.
LEMMA CallCancelledLocks ==
    ASSUME ProtocolInv, NEW c \in Callback, NEW k \in OpIndex, CallCancelled(c, k),
           NEW wait \in BOOLEAN, NEW ask \in BOOLEAN, NEW about, NEW there \in BOOLEAN,
           Locked(client[c], inbox[c], outbox[c], wait, ask, about, there)
    PROVE  Locked(client'[c], inbox'[c], outbox'[c], wait, ask, about, there)
<1> DEFINE cl == client[c]
           o == cl.op[k]
<1>1. /\ Shape(cl) /\ OpenWell(cl) /\ Sane(cl)
      /\ inbox' = inbox /\ outbox' = outbox
  BY DEF ProtocolInv, ClientWell, CallCancelled, Locked
<1>2. CASE /\ o.call = "begin"
           /\ Become(c, Complete(Put(cl, k, [o EXCEPT !.call = "none",
                                                     !.error = "cancelled"]), k))
  <2>1. k = OpenOp
    BY <1>1, <1>2, Indices DEF Sane
  <2> DEFINE d == Complete(Put(cl, OpenOp, [cl.op[OpenOp] EXCEPT !.call = "none",
                                              !.error = "cancelled"]), OpenOp)
  <2>2. Follows(cl, d) /\ d.closed
    BY <1>1, OpeningFailsFollows
  <2>3. Become(c, d)
    BY <1>2, <2>1
  <2> HIDE DEF d
  <2>4. QED
    BY <1>1, <2>2, <2>3, StillLocks DEF Spoiled
<1>3. CASE /\ o.call = "perform" /\ o.userCancelled
           /\ Become(c, FailPerform(cl, k, "cancelled"))
  <2> DEFINE d == FailPerform(cl, k, "cancelled")
  <2>1. Follows(cl, d)
    BY <1>1, FailPerformFollows
  <2>2. ASSUME Good(cl, inbox[c], outbox[c], wait, ask, about, there), ~Spoiled(cl)
        PROVE  Spoiled(d)
    <3>1. k \in Questions
      BY <1>1, <1>3, Indices DEF OpenWell
    <3>2. cl.pending = k
      BY <1>3, <2>2, <3>1 DEF Good, InStep
    <3>3. d.op[k].leaked /\ d.op[k].userCancelled
      BY <1>1, <1>3, <3>2, FailPerformDoes
    <3>4. QED
      BY <3>3 DEF Spoiled
  <2>3. QED
    BY <1>1, <1>3, <2>1, <2>2, StillLocks
<1>4. QED
  BY <1>2, <1>3 DEF CallCancelled

\* Nothing is completed from an idle callback but for what was closed.
LEMMA IdleLocks ==
    ASSUME ProtocolInv, NEW c \in Callback, NEW k \in OpIndex, IdleFires(c, k),
           NEW wait \in BOOLEAN, NEW ask \in BOOLEAN, NEW about, NEW there \in BOOLEAN,
           Locked(client[c], inbox[c], outbox[c], wait, ask, about, there)
    PROVE  Locked(client'[c], inbox'[c], outbox'[c], wait, ask, about, there)
<1> DEFINE cl == client[c]
           p == [cl.op[k] EXCEPT !.idle = @ - 1]
           e == Put(cl, k, p)
           d == Complete(e, k)
<1>1. Shape(cl) /\ cl.op[k].idle > 0 /\ Become(c, d) /\ inbox' = inbox /\ outbox' = outbox
  BY DEF ProtocolInv, ClientWell, IdleFires
<1>2. OpFollows(cl.op[k], p)
  BY <1>1 DEF Shape, OpShape, OpFields, OpFollows
<1> HIDE DEF p
<1>3. Shape(e) /\ Follows(cl, e)
  BY <1>1, <1>2, PutFollows
<1> HIDE DEF e
<1>4. Follows(cl, d)
  BY <1>3, CompleteCompletes, FollowsTrans DEF Completes
<1> HIDE DEF d
<1>5. ~InStep(cl, inbox[c], outbox[c], wait, ask, about)
  <2>1. cl.op[k].idle # 0
    BY <1>1
  <2>2. QED
    BY <2>1 DEF InStep
<1>6. QED
  BY <1>1, <1>4, <1>5, StillLocks DEF Good

\* on_bus_connected.
LEMMA BusConnectedLocks ==
    ASSUME ProtocolInv, NEW c \in Callback, NEW ok \in BOOLEAN,
           NEW wait \in BOOLEAN, NEW ask \in BOOLEAN, NEW about, NEW there \in BOOLEAN,
           BusConnected(c, ok, there),
           Locked(client[c], inbox[c], outbox[c], wait, ask, about, there)
    PROVE  Locked(client'[c], inbox'[c], outbox'[c], wait, ask, about, there)
<1> DEFINE cl == client[c]
           o == cl.op[OpenOp]
<1>1. /\ Shape(cl) /\ Sane(cl) /\ Fresh(cl) /\ Unopened(cl) /\ ~Beginning(cl)
      /\ o.call = "connect" /\ inbox' = inbox /\ OpenWell(cl)
  BY DEF ProtocolInv, ClientWell, BusConnected, Fresh, Beginning, Locked
<1>2. CASE /\ o.cancelled \/ ~ok
           /\ Become(c, Complete(Put(cl, OpenOp, [o EXCEPT !.call = "none",
                          !.error = IF o.cancelled THEN "cancelled" ELSE "failed"]),
                        OpenOp))
           /\ UNCHANGED outbox
  <2>1. PICK error : /\ error # "none"
                     /\ Become(c, Complete(Put(cl, OpenOp, [o EXCEPT !.call = "none",
                                              !.error = error]), OpenOp))
    BY <1>2
  <2> DEFINE d == Complete(Put(cl, OpenOp, [cl.op[OpenOp] EXCEPT !.call = "none",
                                              !.error = error]), OpenOp)
  <2>2. Follows(cl, d) /\ d.closed
    BY <1>1, <2>1, OpeningFailsFollows
  <2>3. Become(c, d)
    BY <2>1
  <2> HIDE DEF d
  <2>4. QED
    BY <1>1, <1>2, <2>2, <2>3, StillLocks DEF Spoiled
<1>3. CASE /\ Become(c, [Put(cl, OpenOp, [o EXCEPT !.call = "begin"])
                           EXCEPT !.exported = TRUE, !.owner = there])
           /\ Transmit(c, <<Begin>>)
  <2> DEFINE p == [o EXCEPT !.call = "begin"]
             e == Put(cl, OpenOp, p)
             d == [e EXCEPT !.exported = TRUE, !.owner = there]
  <2>1. OpShape(p) /\ p.started = o.started /\ p.call = "begin" /\ p.idle = o.idle
        /\ p.leaked = o.leaked /\ p.userCancelled = o.userCancelled
    BY <1>1, Indices DEF Shape, OpShape, OpFields
  <2> HIDE DEF p
  <2>2. /\ Shape(e) /\ e.op[OpenOp] = p
        /\ \A j \in OpIndex : j # OpenOp => e.op[j] = cl.op[j]
        /\ \A n \in ClientFields : n # "op" => e[n] = cl[n]
    BY <1>1, <2>1, PutFields, Indices
  <2> HIDE DEF e
  <2>3. /\ d.op = e.op /\ d.closed = e.closed /\ d.pending = e.pending
        /\ d.awaited = e.awaited /\ d.owner = there
    BY <2>2 DEF Shape, ClientFields
  <2>4. Become(c, d)
    BY <1>3 DEF e, p
  <2> HIDE DEF d
  <2>5. /\ d.closed = cl.closed /\ d.pending = NoOp /\ d.awaited = cl.awaited
        /\ Only(cl, d, OpenOp) /\ d.op[OpenOp] = p /\ Beginning(d)
    BY <1>1, <2>1, <2>2, <2>3 DEF ClientFields, Unopened, Only, Beginning
  <2>6. client'[c] = d
    BY <2>4, Becomes
  <2>7. Boxed(inbox[c], outbox[c], there)
    BY DEF Locked
  <2>8. Joined(outbox[c], <<Begin>>, outbox'[c]) /\ Boxed(inbox[c], outbox'[c], there)
    BY <1>3, <2>7, CallMessages, Writes
  <2>9. Sane(d)
    <3>1. \A j \in OpIndex : j # NoOp
      BY Indices
    <3>2. \A j \in Questions : j \in OpIndex /\ j # OpenOp
      BY Indices
    <3>3. p.started
      BY <1>1, <2>1 DEF OpenWell
    <3>4. QED
      BY <1>1, <2>1, <2>5, <3>1, <3>2, <3>3 DEF Sane, Only
  <2>10. Spoiled(cl) => Spoiled(d)
    BY <2>1, <2>5 DEF Spoiled, Only
  <2>11. ASSUME Good(cl, inbox[c], outbox[c], wait, ask, about, there)
         PROVE  Good(d, inbox[c], outbox'[c], wait, ask, about, there)
    <3>1. InStep(cl, inbox[c], outbox[c], wait, ask, about) /\ cl.pending = NoOp
      BY <1>1, <2>11 DEF Good, Unopened
    <3>2. d.op[OpenOp].idle = 0
      BY <1>1, <2>1, <2>5 DEF Unopened
    <3>3. InStep(d, inbox[c], outbox'[c], wait, ask, about)
      BY <1>1, <2>5, <2>8, <3>1, <3>2, BeginInStep
    <3>4. QED
      BY <2>3, <3>3 DEF Good
  <2>12. QED
    BY <1>1, <2>6, <2>8, <2>9, <2>10, <2>11 DEF Locked
<1>4. QED
  BY <1>2, <1>3 DEF BusConnected

LEMMA EmptyTail == ASSUME NEW s, IsBox(s) PROVE s \o <<>> = s
<1>1. PICK S : s \in Seq(S)
  BY DEF IsBox
<1>2. QED
  BY <1>1

\* perform_prompt_async.
LEMMA PerformLocks ==
    ASSUME ProtocolInv, NEW c \in Callback, NEW k \in Questions, NEW b \in BOOLEAN,
           PerformPromptAsync(c, k, b),
           NEW wait \in BOOLEAN, NEW ask \in BOOLEAN, NEW about, NEW there \in BOOLEAN,
           Locked(client[c], inbox[c], outbox[c], wait, ask, about, there)
    PROVE  Locked(client'[c], inbox'[c], outbox'[c], wait, ask, about, there)
<1> DEFINE cl == client[c]
           o == [NewOp EXCEPT !.started = TRUE, !.userCancelled = b, !.cancelled = b]
<1>1. /\ ~cl.op[k].started /\ cl.pending = NoOp /\ inbox' = inbox
      /\ cl.op[OpenOp].outcome = "opened"
  BY DEF PerformPromptAsync
<1>2. Shape(cl) /\ Sane(cl) /\ ~Fresh(cl) /\ ~Beginning(cl)
      /\ Boxed(inbox[c], outbox[c], there)
  BY <1>1, OpenedIsPast DEF ProtocolInv, ClientWell, Locked
<1>3. /\ k \in OpIndex /\ k # OpenOp /\ k # NoOp /\ ~cl.op[k].leaked
      /\ \A j \in OpIndex : j # NoOp
  BY <1>1, <1>2, Indices DEF Sane
<1>4. CASE cl.closed
  <2> DEFINE p == [o EXCEPT !.idle = 1]
             e == Put(cl, k, p)
             d == [e EXCEPT !.last = "none"]
  <2>1. Become(c, d) /\ outbox' = outbox
    BY <1>4 DEF PerformPromptAsync
  <2>2. OpShape(p) /\ p.started = TRUE /\ p.call = "none"
    BY DEF NewOp, OpShape, OpFields
  <2> HIDE DEF p
  <2>3. /\ Shape(e) /\ e.op[k] = p
        /\ \A j \in OpIndex : j # k => e.op[j] = cl.op[j]
        /\ \A n \in ClientFields : n # "op" => e[n] = cl[n]
    BY <1>2, <1>3, <2>2, PutFields
  <2> HIDE DEF e
  <2>4. d.op = e.op /\ d.closed = e.closed /\ d.pending = e.pending
    BY <2>3 DEF Shape, ClientFields
  <2> HIDE DEF d
  <2>5. d.closed = cl.closed /\ d.pending = NoOp
    BY <1>1, <2>3, <2>4 DEF ClientFields
  <2>6. Sane(d)
    BY <1>2, <1>3, <2>2, <2>3, <2>4, <2>5, Indices DEF Sane
  <2>7. client'[c] = d
    BY <2>1, Becomes
  <2>8. QED
    BY <1>1, <1>2, <1>4, <2>1, <2>5, <2>6, <2>7 DEF Locked, Spoiled
<1>5. CASE ~cl.closed
  <2> DEFINE p == [o EXCEPT !.call = "perform"]
             e == Put(cl, k, p)
             w == IF b THEN cl.awaited ELSE Append(cl.awaited, k)
             d == [e EXCEPT !.pending = k, !.exported = TRUE, !.awaited = w]
             h == IF b THEN <<>> ELSE <<Perform(k)>>
  <2>1. Transmit(c, h)
    BY <1>5 DEF PerformPromptAsync
  <2>2. /\ OpShape(p) /\ p.started = TRUE /\ p.call = "perform" /\ p.cancelled = b
        /\ p.completions = 0 /\ p.idle = 0
    BY DEF NewOp, OpShape, OpFields
  <2>0. Become(c, [e EXCEPT !.pending = k, !.exported = TRUE,
                            !.awaited = IF b THEN @ ELSE Append(@, k)])
    BY <1>5 DEF PerformPromptAsync
  <2> HIDE DEF p
  <2>3. /\ Shape(e) /\ e.op[k] = p
        /\ \A j \in OpIndex : j # k => e.op[j] = cl.op[j]
        /\ \A n \in ClientFields : n # "op" => e[n] = cl[n]
    BY <1>2, <1>3, <2>2, PutFields
  <2> HIDE DEF e
  <2>4. e.awaited = cl.awaited /\ e.closed = cl.closed /\ e.owner = cl.owner
    BY <2>3 DEF ClientFields
  <2>5. Become(c, d)
    BY <2>0, <2>4
  <2>6. /\ d.op = e.op /\ d.closed = e.closed /\ d.pending = k /\ d.exported = TRUE
        /\ d.awaited = w /\ d.owner = e.owner
    BY <2>3 DEF Shape, ClientFields
  <2> HIDE DEF d
  <2>7. Only(cl, d, k) /\ d.op[k] = p
    BY <2>3, <2>6 DEF Only
  <2>8. Sane(d)
    BY <1>2, <1>3, <2>2, <2>6, <2>7, Indices DEF Sane, Only
  <2>9. client'[c] = d
    BY <2>5, Becomes
  <2>10. Harmless(h)
    BY CallMessages, QuietMessages DEF Quiet
  <2>11. Joined(outbox[c], h, outbox'[c]) /\ Boxed(inbox[c], outbox'[c], there)
    BY <1>2, <2>1, <2>10, Writes
  <2>12. b => outbox'[c] = outbox[c]
    <3>1. IsBox(outbox[c]) /\ outbox'[c] = outbox[c] \o h
      BY <2>1 DEF ProtocolInv, Tables, Sendable, Transmit, With
    <3>2. QED
      BY <3>1, EmptyTail
  <2>13. Spoiled(cl) => Spoiled(d)
    <3>1. \A j \in OpIndex : cl.op[j].leaked => d.op[j] = cl.op[j]
      BY <1>3, <2>7 DEF Only
    <3>2. QED
      BY <1>5, <3>1 DEF Spoiled
  <2>14. ASSUME Good(cl, inbox[c], outbox[c], wait, ask, about, there)
         PROVE  Good(d, inbox[c], outbox'[c], wait, ask, about, there)
    <3>1. InStep(cl, inbox[c], outbox[c], wait, ask, about)
      BY <2>14 DEF Good
    <3>2. \/ d.op[k].cancelled /\ d.awaited = cl.awaited /\ outbox'[c] = outbox[c]
          \/ /\ d.awaited = Append(cl.awaited, k)
             /\ Joined(outbox[c], <<Perform(k)>>, outbox'[c])
      BY <2>2, <2>6, <2>7, <2>11, <2>12
    <3>3. /\ d.op[k].started /\ d.op[k].completions = 0 /\ d.op[k].call = "perform"
          /\ d.op[k].idle = 0 /\ d.pending = k /\ d.exported /\ Only(cl, d, k)
      BY <2>2, <2>6, <2>7
    <3>7. Asks(cl, d, k, outbox[c], outbox'[c])
      BY <3>2, <3>3 DEF Asks
    <3>4. InStep(d, inbox[c], outbox'[c], wait, ask, about)
      BY <1>1, <1>2, <3>1, <3>7, AskInStep
    <3>5. there => d.owner
      BY <1>2, <2>4, <2>6, <2>14 DEF Good
    <3>6. QED
      BY <3>4, <3>5 DEF Good
  <2>15. QED
    BY <1>1, <2>8, <2>9, <2>11, <2>13, <2>14 DEF Locked
<1>6. QED
  BY <1>4, <1>5

\* A message that leaves the prompt as it was.
LEMMA IgnoredInStep ==
    ASSUME NEW cl, NEW in, NEW in2, Keeps(in, in2), NEW out, NEW wait \in BOOLEAN,
           NEW ask \in BOOLEAN, NEW about, InStep(cl, in, out, wait, ask, about),
           \/ ~None(in, Relief) => ~None(in2, Relief)
           \/ cl.pending \notin Questions \/ Leaked(cl) \/ ~cl.owner
    PROVE  InStep(cl, in2, out, wait, ask, about)
<1>1. CASE \/ ~None(in, Relief) => ~None(in2, Relief)
           \/ cl.pending \notin Questions
  BY <1>1, ResemblesItself, KeepsItself, StaysInStep
<1>2. CASE cl.pending \in Questions /\ (Leaked(cl) \/ ~cl.owner)
  <2>1. /\ OneAnswer(in2, out, wait, ask)
        /\ Outstanding(in, out) <=> Outstanding(in2, out)
        /\ Silence(in, out, wait, ask) => Silence(in2, out, wait, ask)
        /\ \A Q : Concerns(in, Ready, Q) => Concerns(in2, Ready, Q)
    BY DEF InStep, OneAnswer, Silence, Keeps, Outstanding
  <2>2. Asked(cl, in2, out, wait, ask, about)
    BY <1>2, <2>1 DEF InStep, Asked
  <2>3. ASSUME ~Leaked(cl) PROVE Served(cl, in2, ask)
    <3>1. Served(cl, in, ask) /\ ~cl.owner
      BY <1>2, <2>3 DEF InStep
    <3>2. Replied(in2, TRUE) <=> Replied(in, TRUE)
      BY DEF Keeps
    <3>3. QED
      BY <3>1, <3>2 DEF Served
  <2>4. QED
    BY <1>2, <2>1, <2>2, <2>3 DEF InStep
<1>3. QED
  BY <1>1, <1>2

\* on_prompter_begin_prompting.
LEMMA BeginReplyLocks ==
    ASSUME ProtocolInv, NEW c \in Callback, ReceiveBeginReply(c),
           NEW wait \in BOOLEAN, NEW ask \in BOOLEAN, NEW about, NEW there \in BOOLEAN,
           Locked(client[c], inbox[c], outbox[c], wait, ask, about, there)
    PROVE  Locked(client'[c], inbox'[c], outbox'[c], wait, ask, about, there)
<1> DEFINE cl == client[c]
           o == cl.op[OpenOp]
           m == Head(inbox[c])
<1>1. /\ Shape(cl) /\ Sane(cl) /\ OpenWell(cl) /\ OpenOp \in OpIndex
      /\ Boxed(inbox[c], outbox[c], there)
      /\ inbox[c] # <<>> /\ m.kind = "BeginReply" /\ Receive(c) /\ outbox' = outbox
  BY Indices DEF ProtocolInv, ClientWell, Locked, ReceiveBeginReply, Got
<1>2. /\ Taken(inbox[c], m, inbox'[c]) /\ Boxed(inbox'[c], outbox'[c], there)
  BY <1>1, Reads
<1>3. \/ o.call = "begin" /\ Become(c, [Put(cl, OpenOp, [o EXCEPT !.call = "none",
                                 !.waiting = TRUE, !.timeout = c \in Impatient])
                           EXCEPT !.begun = TRUE, !.pending = OpenOp])
      \/ \E error : /\ error # "none"
                    /\ Become(c, Complete(Put(cl, OpenOp, [o EXCEPT !.call = "none",
                                             !.error = error]), OpenOp))
      \/ o.call # "begin" /\ client' = client
  BY DEF ReceiveBeginReply
<1> HIDE DEF m
<1>4. Keeps(inbox[c], inbox'[c]) /\ (~None(inbox[c], Relief) => ~None(inbox'[c], Relief))
  <2>1. m.kind \notin Relief /\ Plain(m.kind)
    BY <1>1 DEF Relief, Plain
  <2>2. QED
    BY <1>2, <2>1, TakenKeeps DEF Taken
<1>5. CASE o.call = "begin" /\ Become(c, [Put(cl, OpenOp, [o EXCEPT !.call = "none",
                                 !.waiting = TRUE, !.timeout = c \in Impatient])
                           EXCEPT !.begun = TRUE, !.pending = OpenOp])
  <2> DEFINE p == [o EXCEPT !.call = "none", !.waiting = TRUE, !.timeout = c \in Impatient]
             e == Put(cl, OpenOp, p)
             d == [e EXCEPT !.begun = TRUE, !.pending = OpenOp]
  <2>1. Beginning(cl) /\ ~Fresh(cl) /\ Unopened(cl) /\ o.started
    BY <1>1, <1>5 DEF Beginning, Fresh, OpenWell, ProtocolInv, ClientWell
  <2>2. OpFollows(o, p) /\ p.idle = o.idle /\ p.started = o.started
    BY <1>1 DEF Shape, OpShape, OpFields, OpFollows
  <2> HIDE DEF p
  <2>3. /\ Shape(e) /\ Follows(cl, e) /\ Only(cl, e, OpenOp) /\ e.op[OpenOp] = p
        /\ \A n \in ClientFields : n # "op" => e[n] = cl[n]
    BY <1>1, <2>2, PutFollows
  <2> HIDE DEF e
  <2>4. /\ d.op = e.op /\ d.closed = e.closed /\ d.pending = OpenOp
        /\ d.awaited = e.awaited /\ d.owner = e.owner
    BY <2>3 DEF Shape, ClientFields
  <2>5. Become(c, d)
    BY <1>5 DEF e, p
  <2> HIDE DEF d
  <2>6. d.closed = cl.closed /\ d.awaited = cl.awaited /\ d.owner = cl.owner
    BY <2>3, <2>4 DEF ClientFields
  <2>7. Sane(e) /\ (Spoiled(cl) => Spoiled(e))
    BY <1>1, <2>3, FollowsWell
  <2>8. Sane(d) /\ (Spoiled(cl) => Spoiled(d))
    BY <1>1, <2>1, <2>2, <2>3, <2>4, <2>7 DEF Sane, Spoiled
  <2>9. client'[c] = d
    BY <2>5, Becomes
  <2>10. ASSUME Good(cl, inbox[c], outbox[c], wait, ask, about, there)
         PROVE  Good(d, inbox'[c], outbox[c], wait, ask, about, there)
    <3>1. InStep(cl, inbox[c], outbox[c], wait, ask, about) /\ cl.pending = NoOp
      BY <2>1, <2>10 DEF Good, Unopened
    <3>2. d.op[OpenOp].idle = 0 /\ Only(cl, d, OpenOp)
      BY <2>1, <2>2, <2>3, <2>4 DEF Unopened, Only
    <3>3. InStep(d, inbox'[c], outbox[c], wait, ask, about)
      BY <1>4, <2>4, <2>6, <3>1, <3>2, OpenInStep
    <3>4. QED
      BY <2>1, <2>6, <2>10, <3>3 DEF Good
  <2>11. QED
    BY <1>1, <1>2, <2>8, <2>9, <2>10 DEF Locked
<1>6. ASSUME NEW error, error # "none",
             Become(c, Complete(Put(cl, OpenOp, [o EXCEPT !.call = "none",
                                      !.error = error]), OpenOp))
      PROVE  Locked(client'[c], inbox'[c], outbox'[c], wait, ask, about, there)
  <2> DEFINE d == Complete(Put(cl, OpenOp, [cl.op[OpenOp] EXCEPT !.call = "none",
                                              !.error = error]), OpenOp)
  <2>1. Follows(cl, d) /\ d.closed
    BY <1>1, <1>6, OpeningFailsFollows
  <2>2. Become(c, d)
    BY <1>6
  <2> HIDE DEF d
  <2>3. client'[c] = d
    BY <2>2, Becomes
  <2>4. QED
    BY <1>2, <2>1, <2>3, ClosedLocks
<1>7. CASE client' = client
  <2>1. ASSUME Good(cl, inbox[c], outbox[c], wait, ask, about, there)
        PROVE  Good(cl, inbox'[c], outbox[c], wait, ask, about, there)
    <3>1. InStep(cl, inbox[c], outbox[c], wait, ask, about)
      BY <2>1 DEF Good
    <3>2. InStep(cl, inbox'[c], outbox[c], wait, ask, about)
      BY <1>4, <3>1, IgnoredInStep
    <3>3. QED
      BY <2>1, <3>2 DEF Good
  <2>2. Locked(cl, inbox'[c], outbox'[c], wait, ask, about, there)
    <3>1. Boxed(inbox'[c], outbox'[c], there) /\ outbox'[c] = outbox[c]
      BY <1>1, <1>2
    <3>2. QED
      BY <3>1, <2>1, LocksOn, FollowsItself
  <2>3. QED
    BY <1>7, <2>2
<1>8. CASE \E error : /\ error # "none"
                    /\ Become(c, Complete(Put(cl, OpenOp, [o EXCEPT !.call = "none",
                                             !.error = error]), OpenOp))
  <2>1. PICK error : /\ error # "none"
                     /\ Become(c, Complete(Put(cl, OpenOp, [o EXCEPT !.call = "none",
                                              !.error = error]), OpenOp))
    BY <1>8
  <2> HIDE DEF o, cl
  <2>2. QED
    BY <1>6, <2>1
<1>9. QED
  BY <1>3, <1>5, <1>7, <1>8

\* A question that waits has a loop that dispatches its events.
LEMMA PendingIsBlocked ==
    ASSUME NEW cl, NEW in, NEW out, NEW wait \in BOOLEAN, NEW ask \in BOOLEAN, NEW about,
           InStep(cl, in, out, wait, ask, about), cl.pending \in Questions
    PROVE  /\ cl.exported /\ Serving(cl) /\ Dispatched(cl, cl.pending)
           /\ cl.op[cl.pending].started
BY Indices DEF InStep, Asked, Serving, Dispatched, Blocked

\* prompt_method_ready.
LEMMA ReadyLocks ==
    ASSUME ProtocolInv, NEW c \in Callback, ReceivePromptReady(c),
           NEW wait \in BOOLEAN, NEW ask \in BOOLEAN, NEW about, NEW there \in BOOLEAN,
           Locked(client[c], inbox[c], outbox[c], wait, ask, about, there)
    PROVE  Locked(client'[c], inbox'[c], outbox'[c], wait, ask, about, there)
<1> DEFINE cl == client[c]
           m == Head(inbox[c])
<1>1. /\ Shape(cl) /\ Sane(cl) /\ ClientWell(cl)
      /\ Boxed(inbox[c], outbox[c], there)
      /\ inbox[c] # <<>> /\ m.kind = "PromptReady" /\ Receive(c)
  BY DEF ProtocolInv, ClientWell, Locked, ReceivePromptReady, Got
<1>2. /\ Taken(inbox[c], m, inbox'[c]) /\ Boxed(inbox'[c], outbox[c], there)
  BY <1>1, Reads
<1>3. \E h : Quiet(h) /\ (Transmit(c, h) \/ outbox' = outbox)
  <2>1. ASSUME NEW ok \in BOOLEAN, Transmit(c, <<ReadyReply(ok, m.from)>>)
        PROVE  \E h : Quiet(h) /\ (Transmit(c, h) \/ outbox' = outbox)
    BY <2>1, QuietMessages
  <2>2. CASE outbox' = outbox
    BY <2>2, QuietMessages
  <2>3. \/ \E ok \in BOOLEAN : Transmit(c, <<ReadyReply(ok, m.from)>>)
        \/ outbox' = outbox
    BY DEF ReceivePromptReady
  <2>4. QED
    BY <2>1, <2>2, <2>3
<1>4. Keeps(outbox[c], outbox'[c]) /\ Boxed(inbox'[c], outbox'[c], there)
  <2>1. PICK h : Quiet(h) /\ (Transmit(c, h) \/ outbox' = outbox)
    BY <1>3
  <2>2. CASE Transmit(c, h)
    BY <1>2, <2>1, <2>2, Writes, QuietKeeps DEF Quiet
  <2>3. CASE outbox' = outbox
    BY <1>2, <2>3, KeepsItself
  <2>4. QED
    BY <2>1, <2>2, <2>3
<1>5. \/ /\ client' = client
         /\ ~cl.exported \/ ~Serving(cl) \/ cl.pending = NoOp
      \/ /\ cl.pending # NoOp
         /\ \E r, q : Become(c, Complete([cl EXCEPT !.last = r, !.lastQuestion = q,
                                                    !.pending = NoOp], cl.pending))
  BY DEF ReceivePromptReady
<1> HIDE DEF m
<1>6. CASE /\ client' = client
           /\ ~cl.exported \/ ~Serving(cl) \/ cl.pending = NoOp
  <2>1. ASSUME Good(cl, inbox[c], outbox[c], wait, ask, about, there)
        PROVE  Good(cl, inbox'[c], outbox'[c], wait, ask, about, there)
    <3>1. InStep(cl, inbox[c], outbox[c], wait, ask, about)
      BY <2>1 DEF Good
    <3>2. cl.pending \notin Questions
      BY <1>6, <3>1, PendingIsBlocked, Indices
    <3>3. InStep(cl, inbox'[c], outbox'[c], wait, ask, about)
      BY <1>1, <1>2, <1>4, <3>1, <3>2, ForgottenInStep
    <3>4. QED
      BY <2>1, <3>3 DEF Good
  <2>2. QED
    BY <1>4, <1>6, <2>1, LocksOn, FollowsItself
<1>7. CASE /\ cl.pending # NoOp
           /\ \E r, q : Become(c, Complete([cl EXCEPT !.last = r, !.lastQuestion = q,
                                                      !.pending = NoOp], cl.pending))
  <2>1. PICK r, q : Become(c, Complete([cl EXCEPT !.last = r, !.lastQuestion = q,
                                                  !.pending = NoOp], cl.pending))
    BY <1>7
  <2> DEFINE k == cl.pending
             e == [cl EXCEPT !.last = r, !.lastQuestion = q, !.pending = NoOp]
             d == Complete(e, k)
  <2>2. k \in OpIndex
    BY <1>1, <1>7 DEF Shape
  <2>3. /\ Shape(e) /\ e.op = cl.op /\ e.closed = cl.closed /\ e.pending = NoOp
        /\ e.awaited = cl.awaited /\ e.owner = cl.owner
    BY <1>1 DEF Shape, ClientFields
  <2>4. Become(c, d)
    BY <2>1
  <2> HIDE DEF e
  <2>5. Follows(cl, e)
    BY <1>1, <2>3, FieldsFollow
  <2>6. Completes(e, k, d)
    BY <2>2, <2>3, CompleteCompletes
  <2> HIDE DEF d
  <2>7. Follows(cl, d)
    BY <2>5, <2>6, FollowsTrans DEF Completes
  <2>8. client'[c] = d
    BY <2>4, Becomes
  <2>9. /\ Only(cl, d, k) /\ d.pending = NoOp /\ d.awaited = cl.awaited
        /\ d.owner = cl.owner
        /\ d.op[k].call = cl.op[k].call /\ d.op[k].idle = cl.op[k].idle
    BY <2>3, <2>6 DEF Completes, Only
  <2>10. ASSUME Good(cl, inbox[c], outbox[c], wait, ask, about, there)
         PROVE  Good(d, inbox'[c], outbox'[c], wait, ask, about, there)
    <3>1. InStep(cl, inbox[c], outbox[c], wait, ask, about)
      BY <2>10 DEF Good
    <3>2. InStep(d, inbox'[c], outbox'[c], wait, ask, about)
      BY <1>1, <1>2, <1>4, <2>2, <2>9, <3>1, AnsweredInStep
    <3>3. ~Fresh(cl)
      BY <1>1, <1>7 DEF ClientWell, Unopened
    <3>4. QED
      BY <2>9, <2>10, <3>2, <3>3 DEF Good
  <2>11. QED
    BY <1>4, <2>7, <2>8, <2>10, LocksOn
<1>8. QED
  BY <1>5, <1>6, <1>7

\* A prompt that waits for an answer has been opened.
LEMMA PendingIsOpened ==
    ASSUME NEW cl, ClientWell(cl), cl.pending \in Questions, Sane(cl)
    PROVE  ~Fresh(cl) /\ ~Beginning(cl) /\ cl.op[OpenOp].call = "none"
<1>1. ~Fresh(cl) /\ ~Beginning(cl)
  BY Indices DEF ClientWell, Unopened
<1>2. QED
  BY <1>1, Indices DEF ClientWell, OpenWell, Sane, Fresh, Beginning

\* on_perform_prompt_complete.
LEMMA PerformReplyLocks ==
    ASSUME ProtocolInv, NEW c \in Callback, ReceivePerformReply(c),
           NEW wait \in BOOLEAN, NEW ask \in BOOLEAN, NEW about, NEW there \in BOOLEAN,
           Locked(client[c], inbox[c], outbox[c], wait, ask, about, there)
    PROVE  Locked(client'[c], inbox'[c], outbox'[c], wait, ask, about, there)
<1> DEFINE cl == client[c]
           m == Head(inbox[c])
           k == Head(cl.awaited)
           e == [cl EXCEPT !.awaited = Tail(@)]
           o == e.op[k]
           p == [o EXCEPT !.call = "none", !.waiting = e.pending = k \/ o.idle > 0]
           error == IF o.userCancelled THEN "cancelled" ELSE "failed"
<1>1. /\ Shape(cl) /\ Sane(cl) /\ ClientWell(cl)
      /\ Boxed(inbox[c], outbox[c], there)
      /\ inbox[c] # <<>> /\ m.kind = "PerformReply" /\ Receive(c) /\ outbox' = outbox
  BY DEF ProtocolInv, ClientWell, Locked, ReceivePerformReply, Got
<1>2. /\ Taken(inbox[c], m, inbox'[c]) /\ Boxed(inbox'[c], outbox[c], there)
  BY <1>1, Reads
<1>3. \/ /\ ~o.userCancelled /\ m.ok
         /\ Become(c, Put(e, k, p))
      \/ /\ o.userCancelled \/ ~m.ok
         /\ Become(c, FailPerform(e, k, error))
      \/ /\ o.call # "perform" \/ ~Dispatched(e, k)
         /\ Become(c, e)
  BY DEF ReceivePerformReply
<1>4. /\ Says(m, TRUE) <=> m.ok
      /\ Says(m, FALSE) <=> ~m.ok
  BY <1>1 DEF Says
<1>5. /\ Shape(e) /\ e.op = cl.op /\ e.closed = cl.closed /\ e.pending = cl.pending
      /\ e.awaited = Tail(cl.awaited) /\ e.owner = cl.owner /\ e.sync = cl.sync
      /\ e.exported = cl.exported
  BY <1>1 DEF Shape, ClientFields
<1> HIDE DEF m, e
<1>6. Follows(cl, e)
  BY <1>1, <1>5, FieldsFollow
<1>7. ASSUME Good(cl, inbox[c], outbox[c], wait, ask, about, there)
      PROVE  /\ AtReply(cl, inbox[c], inbox'[c], m, outbox[c], wait, ask, about)
             /\ InStep(cl, inbox[c], outbox[c], wait, ask, about)
             /\ k = cl.pending /\ e.pending = k /\ e.awaited = <<>> /\ k \in OpIndex
             /\ o.call = "perform" /\ Dispatched(e, k)
             /\ there => cl.owner
  <2>1. InStep(cl, inbox[c], outbox[c], wait, ask, about)
    BY <1>7 DEF Good
  <2>2. AtReply(cl, inbox[c], inbox'[c], m, outbox[c], wait, ask, about)
    BY <1>1, <1>2, <2>1, ReplyInStep
  <2>3. cl.awaited = <<cl.pending>> /\ cl.pending \in Questions
        /\ cl.op[cl.pending].call = "perform"
    BY <2>2 DEF AtReply
  <2>4. k = cl.pending /\ e.awaited = <<>> /\ k \in OpIndex
    BY <2>3, <1>5, Indices
  <2>5. Dispatched(cl, k)
    BY <2>1, <2>3, <2>4, PendingIsBlocked
  <2>6. Dispatched(e, k)
    BY <2>5, <1>5 DEF Dispatched, Blocked
  <2>7. ~Fresh(cl)
    BY <1>1, <2>3, PendingIsOpened
  <2>8. QED
    BY <1>5, <1>7, <2>1, <2>2, <2>3, <2>4, <2>6, <2>7 DEF Good
<1>8. ASSUME NEW d, Become(c, d), Follows(cl, d),
             Good(cl, inbox[c], outbox[c], wait, ask, about, there) =>
                Spoiled(d) \/ Good(d, inbox'[c], outbox[c], wait, ask, about, there)
      PROVE  Locked(client'[c], inbox'[c], outbox'[c], wait, ask, about, there)
  <2>1. Locked(d, inbox'[c], outbox[c], wait, ask, about, there)
    BY <1>2, <1>8, LocksOn
  <2>2. client'[c] = d
    BY <1>8, Becomes
  <2>3. QED
    BY <1>1, <2>1, <2>2
<1>9. CASE ~o.userCancelled /\ m.ok /\ Become(c, Put(e, k, p))
  <2> DEFINE d == Put(e, k, p)
  <2>1. k \in OpIndex => OpFollows(e.op[k], p)
    BY <1>5 DEF Shape, OpShape, OpFields, OpFollows
  <2>2. Shape(d) /\ Follows(e, d) /\ \A n \in ClientFields : n # "op" => d[n] = e[n]
    BY <1>5, <2>1, PutFollowsAny
  <2>3. Follows(cl, d)
    BY <1>6, <2>2, FollowsTrans
  <2>4. ASSUME Good(cl, inbox[c], outbox[c], wait, ask, about, there)
        PROVE  Good(d, inbox'[c], outbox[c], wait, ask, about, there)
    <3>1. k = cl.pending /\ e.pending = k /\ e.awaited = <<>> /\ k \in OpIndex
          /\ (there => cl.owner) /\ InStep(cl, inbox[c], outbox[c], wait, ask, about)
      BY <1>7, <2>4
    <3>2. Only(e, d, k) /\ d.op[k] = p
      <4>1. OpFollows(e.op[k], p)
        BY <2>1, <3>1
      <4> HIDE DEF p, k
      <4>2. QED
        BY <1>5, <3>1, <4>1, PutFollows
    <3>3. /\ p.call = "none" /\ p.started = o.started /\ p.idle = o.idle
          /\ p.completions = o.completions /\ p.cancelled = o.cancelled
          /\ p.leaked = o.leaked
      BY <1>5, <3>1 DEF Shape, OpShape, OpFields
    <3> HIDE DEF p, k, d
    <3>4. /\ d.pending = e.pending /\ d.awaited = e.awaited /\ d.owner = e.owner
          /\ d.exported = e.exported
      BY <2>2 DEF ClientFields
    <3>5. Accepts(cl, d)
      BY <1>5, <3>1, <3>2, <3>3, <3>4 DEF Accepts, Only
    <3>6. InStep(d, inbox'[c], outbox[c], wait, ask, about)
      <4>1. Says(m, TRUE)
        BY <1>4, <1>9
      <4>2. QED
        <5>1. AtReply(cl, inbox[c], inbox'[c], m, outbox[c], wait, ask, about)
          BY <1>7, <2>4
        <5>2. InStep(cl, inbox[c], outbox[c], wait, ask, about)
          BY <3>1
        <5> HIDE DEF cl
        <5>3. QED
          BY <5>1, <5>2, <3>5, <4>1, AcceptedInStep, Zenon
    <3>7. QED
      BY <1>5, <3>1, <3>4, <3>6 DEF Good
  <2>5. QED
    BY <1>8, <1>9, <2>3, <2>4
<1>10. CASE (o.userCancelled \/ ~m.ok) /\ Become(c, FailPerform(e, k, error))
  <2> DEFINE d == FailPerform(e, k, error)
  <2>1. Follows(cl, d)
    BY <1>5, <1>6, FailPerformFollows, FollowsTrans
  <2>2. ASSUME Good(cl, inbox[c], outbox[c], wait, ask, about, there)
        PROVE  Spoiled(d) \/ Good(d, inbox'[c], outbox[c], wait, ask, about, there)
    <3>1. k = cl.pending /\ e.pending = k /\ e.awaited = <<>> /\ k \in OpIndex
          /\ (there => cl.owner) /\ InStep(cl, inbox[c], outbox[c], wait, ask, about)
      BY <1>7, <2>2
    <3>2. /\ Only(e, d, k) /\ d.pending = NoOp
          /\ d.awaited = e.awaited /\ d.owner = e.owner
          /\ d.op[k].call = "none" /\ d.op[k].idle = e.op[k].idle
          /\ d.op[k].leaked /\ (e.op[k].userCancelled => d.op[k].userCancelled)
      <4> HIDE DEF k, error
      <4>1. QED
        BY <1>5, <3>1, FailPerformDoes
    <3> HIDE DEF d, k
    <3>3. CASE o.userCancelled
      BY <3>1, <3>2, <3>3 DEF Spoiled
    <3>4. CASE ~o.userCancelled
      <4>1. Says(m, FALSE)
        BY <1>4, <1>10, <3>4
      <4>2. Refuses(cl, d)
        BY <1>5, <3>1, <3>2 DEF Only, Refuses
      <4> HIDE DEF o, error
      <4>3. InStep(d, inbox'[c], outbox[c], wait, ask, about)
        <5>1. AtReply(cl, inbox[c], inbox'[c], m, outbox[c], wait, ask, about)
          BY <1>7, <2>2
        <5>2. InStep(cl, inbox[c], outbox[c], wait, ask, about)
          BY <3>1
        <5> HIDE DEF cl
        <5>3. QED
          BY <5>1, <5>2, <4>1, <4>2, RefusedInStep, Zenon
      <4>4. QED
        BY <1>5, <3>1, <3>2, <4>3 DEF Good
    <3>5. QED
      BY <3>3, <3>4
  <2>3. QED
    BY <1>8, <1>10, <2>1, <2>2
<1>11. CASE (o.call # "perform" \/ ~Dispatched(e, k)) /\ Become(c, e)
  BY <1>6, <1>7, <1>8, <1>11
<1>12. QED
  BY <1>3, <1>9, <1>10, <1>11

\* on_prompter_vanished.
LEMMA VanishedLocks ==
    ASSUME ProtocolInv, NEW c \in Callback, ReceiveVanished(c),
           NEW wait \in BOOLEAN, NEW ask \in BOOLEAN, NEW about, NEW there \in BOOLEAN,
           Locked(client[c], inbox[c], outbox[c], wait, ask, about, there)
    PROVE  Locked(client'[c], inbox'[c], outbox'[c], wait, ask, about, there)
<1> DEFINE cl == client[c]
           m == Head(inbox[c])
           watching == {k \in OpIndex : /\ Alive(cl, k) /\ Dispatched(cl, k)
                                        /\ cl.op[k].call # "connect"}
<1>1. /\ Shape(cl) /\ Sane(cl) /\ ClientWell(cl)
      /\ Boxed(inbox[c], outbox[c], there)
      /\ inbox[c] # <<>> /\ m.kind = "Vanished" /\ Receive(c) /\ outbox' = outbox
  BY DEF ProtocolInv, ClientWell, Locked, ReceiveVanished, Got
<1>2. /\ Taken(inbox[c], m, inbox'[c]) /\ Boxed(inbox'[c], outbox[c], there)
  BY <1>1, Reads
<1>3. \/ cl.owner /\ \E k \in watching :
             Become(c, [Put(cl, k, [cl.op[k] EXCEPT !.cancelled = TRUE])
                           EXCEPT !.owner = FALSE])
      \/ (~cl.owner \/ watching = {}) /\ client' = client
  BY DEF ReceiveVanished
<1> HIDE DEF m
<1>4. Keeps(inbox[c], inbox'[c]) /\ ~there
  <2>1. Plain(m.kind) /\ m.kind \in Loss
    BY <1>1 DEF Plain, Loss
  <2>2. QED
    BY <1>1, <1>2, <2>1, TakenKeeps DEF Taken, Boxed
<1>5. ASSUME NEW d, client'[c] = d, Follows(cl, d),
             Good(cl, inbox[c], outbox[c], wait, ask, about, there) =>
                InStep(d, inbox'[c], outbox[c], wait, ask, about)
      PROVE  Locked(client'[c], inbox'[c], outbox'[c], wait, ask, about, there)
  <2>1. Good(cl, inbox[c], outbox[c], wait, ask, about, there) =>
           Good(d, inbox'[c], outbox[c], wait, ask, about, there)
    BY <1>4, <1>5 DEF Good
  <2>2. Locked(d, inbox'[c], outbox[c], wait, ask, about, there)
    BY <1>2, <1>5, <2>1, LocksOn
  <2>3. QED
    BY <1>1, <1>5, <2>2
\* What watches, of a prompt that waits for an answer and leaked nothing.
<1>6. ASSUME InStep(cl, inbox[c], outbox[c], wait, ask, about), cl.pending \in Questions,
             ~Leaked(cl)
      PROVE  watching = {cl.pending}
  <2>1. Dispatched(cl, cl.pending) /\ cl.op[cl.pending].started
    BY <1>6, PendingIsBlocked
  <2>2. cl.op[cl.pending].call # "connect" /\ cl.pending \in OpIndex
    BY <1>1, <1>6, Indices DEF Sane
  <2>3. cl.pending \in watching
    BY <2>1, <2>2 DEF Alive
  <2>4. \A j \in watching : j = cl.pending
    <3> SUFFICES ASSUME NEW j \in watching, j # cl.pending PROVE FALSE
      OBVIOUS
    <3>1. cl.op[j].idle = 0 /\ ~cl.op[j].leaked
      BY <1>6 DEF InStep, Leaked
    <3>2. cl.op[j].call = "none"
      <4>1. CASE j = OpenOp
        BY <1>1, <1>6, <4>1, PendingIsOpened
      <4>2. CASE j \in Questions
        BY <1>6, <4>2 DEF InStep
      <4>3. QED
        BY <4>1, <4>2, Indices
    <3>3. QED
      BY <3>1, <3>2 DEF Alive
  <2>5. QED
    BY <2>3, <2>4
<1>7. ASSUME cl.owner, NEW k \in watching,
             Become(c, [Put(cl, k, [cl.op[k] EXCEPT !.cancelled = TRUE])
                           EXCEPT !.owner = FALSE])
      PROVE  Locked(client'[c], inbox'[c], outbox'[c], wait, ask, about, there)
  <2> DEFINE p == [cl.op[k] EXCEPT !.cancelled = TRUE]
             e == Put(cl, k, p)
             d == [e EXCEPT !.owner = FALSE]
  <2>1. k \in OpIndex
    OBVIOUS
  <2>2. /\ OpFollows(cl.op[k], p) /\ p.cancelled
        /\ p.leaked = cl.op[k].leaked /\ p.idle = cl.op[k].idle
        /\ p.call = cl.op[k].call /\ p.started = cl.op[k].started
        /\ p.completions = cl.op[k].completions
    BY <1>1, <2>1 DEF Shape, OpShape, OpFields, OpFollows
  <2>3. client'[c] = d
    BY <1>7, Becomes
  <2> HIDE DEF p
  <2>4. /\ Shape(e) /\ Follows(cl, e) /\ Only(cl, e, k) /\ e.op[k] = p
        /\ \A n \in ClientFields : n # "op" => e[n] = cl[n]
    BY <1>1, <2>1, <2>2, PutFollows
  <2> HIDE DEF e
  <2>5. /\ Shape(d) /\ d.op = e.op /\ d.closed = e.closed /\ d.pending = e.pending
        /\ d.awaited = e.awaited /\ d.exported = e.exported
    BY <2>4 DEF Shape, ClientFields
  <2> HIDE DEF d
  <2>6. Follows(cl, d)
    BY <2>4, <2>5, FieldsFollow, FollowsTrans
  <2>7. /\ d.pending = cl.pending /\ d.awaited = cl.awaited /\ d.exported = cl.exported
    BY <2>4, <2>5 DEF ClientFields
  <2>8. \A j \in OpIndex :
              /\ d.op[j].idle = cl.op[j].idle /\ d.op[j].call = cl.op[j].call
              /\ d.op[j].started = cl.op[j].started
              /\ d.op[j].completions = cl.op[j].completions
              /\ d.op[j].leaked = cl.op[j].leaked
    BY <2>2, <2>4, <2>5 DEF Only
  <2>9. Leaked(cl) => Leaked(d)
    BY <2>8 DEF Leaked
  <2>10. ASSUME Good(cl, inbox[c], outbox[c], wait, ask, about, there)
         PROVE  InStep(d, inbox'[c], outbox[c], wait, ask, about)
    <3>1. InStep(cl, inbox[c], outbox[c], wait, ask, about)
      BY <2>10 DEF Good
    <3>2. ~Leaked(cl) /\ d.pending \in Questions => d.op[d.pending].cancelled
      BY <1>6, <2>2, <2>4, <2>5, <2>7, <3>1
    <3> HIDE DEF watching
    <3>3. QED
      BY <1>4, <2>7, <2>8, <2>9, <3>1, <3>2, AloneInStep
  <2>11. QED
    BY <1>5, <2>3, <2>6, <2>10
<1>8. CASE (~cl.owner \/ watching = {}) /\ client' = client
  <2>1. ASSUME Good(cl, inbox[c], outbox[c], wait, ask, about, there)
        PROVE  InStep(cl, inbox'[c], outbox[c], wait, ask, about)
    <3>1. InStep(cl, inbox[c], outbox[c], wait, ask, about)
      BY <2>1 DEF Good
    <3>2. cl.pending \notin Questions \/ Leaked(cl) \/ ~cl.owner
      BY <1>6, <1>8, <3>1
    <3>3. QED
      BY <1>4, <3>1, <3>2, IgnoredInStep
  <2>2. client'[c] = cl /\ Follows(cl, cl)
    BY <1>8, FollowsItself
  <2>3. QED
    BY <1>5, <2>1, <2>2
<1>9. QED
  BY <1>3, <1>7, <1>8

\* g is f, but for what it holds for c.
Elsewhere(f, g, c) == \A d \in Callback : d # c => g[d] = f[d]

LEMMA WithElsewhere ==
    ASSUME NEW f, DOMAIN f = Callback, NEW c
    PROVE  Elsewhere(f, f, c) /\ \A x : Elsewhere(f, With(f, c, x), c)
BY DEF Elsewhere, With

\* A step of a prompt touches no other prompt, and none of their channels.
LEMMA OnlyItself ==
    ASSUME ProtocolInv, NEW c \in Callback, Client(c)
    PROVE  /\ Elsewhere(client, client', c)
           /\ Elsewhere(inbox, inbox', c) /\ Elsewhere(outbox, outbox', c)
<1>1. /\ DOMAIN client = Callback /\ DOMAIN inbox = Callback /\ DOMAIN outbox = Callback
  BY DEF ProtocolInv, Tables, Sendable
<1>2. /\ Elsewhere(client, client, c) /\ \A x : Elsewhere(client, With(client, c, x), c)
      /\ Elsewhere(inbox, inbox, c) /\ \A x : Elsewhere(inbox, With(inbox, c, x), c)
      /\ Elsewhere(outbox, outbox, c) /\ \A x : Elsewhere(outbox, With(outbox, c, x), c)
  BY <1>1, WithElsewhere
<1>3. CASE ClientReceives(c)
  <2>1. \/ client' = client \/ \E x : Become(c, x)
    BY <1>3 DEF ClientReceives, ReceiveBeginReply, ReceivePerformReply, ReceiveStopReply,
                ReceivePromptReady, ReceivePromptDone, ReceiveVanished
  <2>2. /\ Receive(c)
        /\ outbox' = outbox \/ \E msgs : Transmit(c, msgs)
    BY <1>3 DEF ClientReceives, ReceiveBeginReply, ReceivePerformReply, ReceiveStopReply,
                ReceivePromptReady, ReceivePromptDone, ReceiveVanished
  <2>3. QED
    BY <1>2, <2>1, <2>2 DEF Become, Receive, Transmit
<1>4. CASE ClientDispatches(c) \/ Application(c) \/ TimeoutFires(c)
  <2>1. \/ client' = client \/ \E x : Become(c, x)
    BY <1>4 DEF ClientDispatches, Application, TimeoutFires, BusConnected, CallCancelled,
                WaitingFires, IdleFires, CloseIdleFires, Open, PerformPromptAsync, Cancel,
                CloseAsync, RealClose
  <2>2. /\ inbox' = inbox
        /\ outbox' = outbox \/ \E msgs : Transmit(c, msgs)
    BY <1>4 DEF ClientDispatches, Application, TimeoutFires, BusConnected, CallCancelled,
                WaitingFires, IdleFires, CloseIdleFires, Open, PerformPromptAsync, Cancel,
                CloseAsync, RealClose
  <2>3. QED
    BY <1>2, <2>1, <2>2 DEF Become, Transmit
<1>5. QED
  BY <1>3, <1>4 DEF Client

\* Every step of a prompt keeps it in step.
LEMMA ClientLocks ==
    ASSUME ProtocolInv, NEW c \in Callback, Client(c),
           NEW wait \in BOOLEAN, NEW ask \in BOOLEAN, NEW about, registered \in BOOLEAN,
           Locked(client[c], inbox[c], outbox[c], wait, ask, about, registered)
    PROVE  Locked(client'[c], inbox'[c], outbox'[c], wait, ask, about, registered)
<1>1. CASE ClientReceives(c)
  BY <1>1, BeginReplyLocks, PerformReplyLocks, ClosingLocks, ReadyLocks, DoneLocks,
     VanishedLocks DEF ClientReceives
<1>2. CASE ClientDispatches(c)
  BY <1>2, BusConnectedLocks, CallCancelledLocks, WaitingLocks, IdleLocks, ClosingLocks
     DEF ClientDispatches
<1>3. CASE Application(c)
  BY <1>3, OpenLocks, PerformLocks, CancelLocks, RealCloseLocks DEF Application
<1>4. CASE TimeoutFires(c)
  BY <1>4, TimeoutLocks
<1>5. QED
  BY <1>1, <1>2, <1>3, <1>4 DEF Client

\* What the prompter's end does for one prompt: it changes nothing of what
\* the prompt waits for, takes its dialog away and says so, gives it its turn,
\* or answers it.
Progress(h, wait, ask, about, wait2, ask2, about2) ==
    \/ /\ wait2 <=> wait
       /\ ask2 <=> ask
       /\ ask => about2 = about
       /\ None(h, Ready) /\ None(h, Answer) /\ None(h, Calls)
    \/ /\ wait2 => wait
       /\ ~ask2
       /\ None(h, Ready) /\ None(h, Answer) /\ None(h, Calls) /\ ~None(h, Relief)
    \/ /\ wait /\ ~ask /\ ~wait2 /\ ~ask2
       /\ None(h, Answer) /\ Few(h, Ready)
    \/ /\ ask /\ (wait2 => wait) /\ ~ask2
       /\ None(h, Answer) /\ Few(h, Ready)
       /\ Concerns(h, Ready, {about}) /\ ~None(h, Relief)

LEMMA FlowInStep ==
    ASSUME NEW cl, NEW in, NEW in2, NEW out, NEW out2,
           NEW wait \in BOOLEAN, NEW wait2 \in BOOLEAN,
           NEW ask \in BOOLEAN, NEW ask2 \in BOOLEAN, NEW about, NEW about2,
           InStep(cl, in, out, wait, ask, about), Keeps(out, out2),
           NEW h, Joined(in, h, in2), Progress(h, wait, ask, about, wait2, ask2, about2)
    PROVE  InStep(cl, in2, out2, wait2, ask2, about2)
<1>1. Resembles(cl, cl)
  BY ResemblesItself
<1>2. None(in2, Relief) => None(in, Relief) /\ None(h, Relief)
  BY DEF Joined
<1>3. CASE /\ wait2 <=> wait
           /\ ask2 <=> ask
           /\ ask => about2 = about
           /\ None(h, Ready) /\ None(h, Answer) /\ None(h, Calls)
  <2>1. Keeps(in, in2)
    BY <1>3, JoinedKeeps
  <2>2. QED
    BY <1>1, <1>2, <1>3, <2>1, StaysInStep
<1>4. CASE /\ wait2 => wait
           /\ ~ask2
           /\ None(h, Ready) /\ None(h, Answer) /\ None(h, Calls) /\ ~None(h, Relief)
  <2>1. Keeps(in, in2)
    BY <1>4, JoinedKeeps
  <2>2. QED
    BY <1>1, <1>2, <1>4, <2>1, StaysInStep
<1>5. CASE /\ wait /\ ~ask /\ ~wait2 /\ ~ask2
           /\ None(h, Answer) /\ Few(h, Ready)
  <2>1. InStep(cl, in2, out2, FALSE, FALSE, about2)
    BY <1>5, TurnInStep
  <2>2. wait2 = FALSE /\ ask2 = FALSE
    BY <1>5
  <2>3. QED
    BY <2>1, <2>2
<1>6. CASE /\ ask /\ (wait2 => wait) /\ ~ask2
           /\ None(h, Answer) /\ Few(h, Ready)
           /\ Concerns(h, Ready, {about}) /\ ~None(h, Relief)
  <2>1. InStep(cl, in2, out2, FALSE, FALSE, about2)
    BY <1>6, TurnInStep
  <2>2. wait2 = FALSE /\ ask2 = FALSE
    BY <1>6 DEF InStep, OneAnswer
  <2>3. QED
    BY <2>1, <2>2
<1>7. QED
  BY <1>3, <1>4, <1>5, <1>6 DEF Progress

\* What the channels must be for a prompt to stay in step.
Fed(in, h, in2, out2, there, there2) ==
    /\ Joined(in, h, in2) /\ Proper(h) /\ (there2 => there /\ None(h, Loss))
    /\ Proper(out2) /\ Concerns(out2, Request, Questions)

LEMMA FedBoxed ==
    ASSUME NEW in, NEW out, NEW there \in BOOLEAN, Boxed(in, out, there),
           NEW h, NEW in2, NEW out2, NEW there2 \in BOOLEAN,
           Fed(in, h, in2, out2, there, there2)
    PROVE  Boxed(in2, out2, there2)
BY DEF Boxed, Fed, Joined

LEMMA FlowLocks ==
    ASSUME NEW cl, NEW in, NEW in2, NEW out, NEW out2,
           NEW wait \in BOOLEAN, NEW wait2 \in BOOLEAN,
           NEW ask \in BOOLEAN, NEW ask2 \in BOOLEAN, NEW about, NEW about2,
           NEW there \in BOOLEAN, NEW there2 \in BOOLEAN,
           Locked(cl, in, out, wait, ask, about, there), Keeps(out, out2),
           NEW h, Fed(in, h, in2, out2, there, there2),
           Progress(h, wait, ask, about, wait2, ask2, about2)
    PROVE  Locked(cl, in2, out2, wait2, ask2, about2, there2)
<1>1. Sane(cl) /\ Boxed(in2, out2, there2)
  BY FedBoxed DEF Locked
<1>2. ASSUME Good(cl, in, out, wait, ask, about, there)
      PROVE  Good(cl, in2, out2, wait2, ask2, about2, there2)
  <2>1. InStep(cl, in, out, wait, ask, about) /\ (there => Fresh(cl) \/ cl.owner)
    BY <1>2 DEF Good
  <2>2. Joined(in, h, in2) /\ (there2 => there)
    BY DEF Fed
  <2>3. InStep(cl, in2, out2, wait2, ask2, about2)
    BY <2>1, <2>2, FlowInStep
  <2>4. QED
    BY <2>1, <2>2, <2>3 DEF Good
<1>3. QED
  BY <1>1, <1>2 DEF Locked

\* BeginPrompting is handled, or the bus answers it.
LEMMA BegunLocks ==
    ASSUME NEW cl, NEW in, NEW in2, NEW out, NEW out2,
           NEW wait \in BOOLEAN, NEW wait2 \in BOOLEAN,
           NEW ask \in BOOLEAN, NEW ask2 \in BOOLEAN, NEW about, NEW about2,
           NEW there \in BOOLEAN,
           Locked(cl, in, out, wait, ask, about, there),
           NEW m, Taken(out, m, out2), m.kind = "Begin",
           NEW h, Fed(in, h, in2, out2, there, there),
           None(h, Answer), Few(h, Ready), wait2 => None(h, Ready), ask2 => ask
    PROVE  Locked(cl, in2, out2, wait2, ask2, about2, there)
<1>1. Sane(cl) /\ Boxed(in2, out2, there)
  BY FedBoxed DEF Locked
<1>2. ASSUME Good(cl, in, out, wait, ask, about, there)
      PROVE  Good(cl, in2, out2, wait2, ask2, about2, there)
  <2>1. InStep(cl, in, out, wait, ask, about) /\ (there => Fresh(cl) \/ cl.owner)
    BY <1>2 DEF Good
  <2>2. Joined(in, h, in2)
    BY DEF Fed
  <2>7. BeginHandled(in, h, in2, m, out, out2, wait2)
    BY <2>2 DEF BeginHandled
  <2>3. InStep(cl, in2, out2, wait2, ask2, about2)
    BY <2>1, <2>7, BegunInStep
  <2>4. QED
    BY <2>1, <2>3 DEF Good
<1>3. QED
  BY <1>1, <1>2 DEF Locked

\* PerformPrompt is handled, or the bus answers it.
PerformAnswered(there, m, h, ask, ask2, about2) ==
    /\ None(h, Ready) /\ Few(h, Answer) /\ ~None(h, Answer) /\ Ordered(h)
    /\ \/ there /\ ask2 /\ about2 = m.question /\ ~Replied(h, FALSE)
       \/ (ask2 => ask) /\ ~Replied(h, TRUE)

LEMMA PerformedLocks ==
    ASSUME NEW cl, ClientWell(cl), NEW in, NEW in2, NEW out, NEW out2,
           NEW wait \in BOOLEAN, NEW wait2 \in BOOLEAN, wait2 => wait,
           NEW ask \in BOOLEAN, NEW ask2 \in BOOLEAN, NEW about, NEW about2,
           NEW there \in BOOLEAN,
           Locked(cl, in, out, wait, ask, about, there),
           NEW m, Taken(out, m, out2), m.kind = "Perform",
           NEW h, Fed(in, h, in2, out2, there, there),
           PerformAnswered(there, m, h, ask, ask2, about2)
    PROVE  Locked(cl, in2, out2, wait2, ask2, about2, there)
<1>0. /\ None(h, Ready) /\ Few(h, Answer) /\ ~None(h, Answer) /\ Ordered(h)
      /\ \/ there /\ ask2 /\ about2 = m.question /\ ~Replied(h, FALSE)
         \/ (ask2 => ask) /\ ~Replied(h, TRUE)
  BY DEF PerformAnswered
<1>1. Sane(cl) /\ Boxed(in2, out2, there)
  BY FedBoxed DEF Locked
<1>2. ASSUME Good(cl, in, out, wait, ask, about, there)
      PROVE  Good(cl, in2, out2, wait2, ask2, about2, there)
  <2>1. InStep(cl, in, out, wait, ask, about) /\ (there => Fresh(cl) \/ cl.owner)
    BY <1>2 DEF Good
  <2>2. Joined(in, h, in2)
    BY DEF Fed
  <2>3. ~None(out, Request)
    BY DEF Taken, Request
  <2>4. cl.pending \in Questions
    BY <2>1, <2>3 DEF InStep, Outstanding
  <2>5. ~Fresh(cl)
    <3>1. cl.pending # NoOp
      BY <2>4, Indices
    <3>2. QED
      BY <3>1 DEF ClientWell, Unopened
  <2>6. \/ ask2 /\ about2 = m.question /\ cl.owner /\ ~Replied(h, FALSE)
        \/ (ask2 => ask) /\ ~Replied(h, TRUE)
    BY <1>0, <2>1, <2>5
  <2>7. InStep(cl, in2, out2, wait2, ask2, about2)
    <3>1. PerformHandled(cl, in, h, in2, m, out, out2, ask, ask2, about2)
      BY <1>0, <2>2, <2>6 DEF PerformHandled
    <3>2. QED
      BY <2>1, <3>1, PerformedInStep
  <2>8. QED
    BY <2>1, <2>7 DEF Good
<1>3. QED
  BY <1>1, <1>2 DEF Locked

\* Messages of which the sender has finished.
LEMMA OrphanLocks ==
    ASSUME NEW cl, NEW in, NEW in2, Same(in, in2), NEW out, NEW out2, Same(out, out2),
           NEW wait \in BOOLEAN, NEW ask \in BOOLEAN, NEW about, NEW there \in BOOLEAN,
           Locked(cl, in, out, wait, ask, about, there)
    PROVE  Locked(cl, in2, out2, wait, ask, about, there)
<1>1. Boxed(in2, out2, there)
  BY DEF Locked, Boxed, Same, Request
<1>2. ASSUME Good(cl, in, out, wait, ask, about, there)
      PROVE  Good(cl, in2, out2, wait, ask, about, there)
  <2>1. InStep(cl, in, out, wait, ask, about)
    BY <1>2 DEF Good
  <2>2. Keeps(in, in2) /\ Keeps(out, out2) /\ Resembles(cl, cl)
    BY SameKeeps, ResemblesItself
  <2>3. None(in, Relief) <=> None(in2, Relief)
    BY DEF Same
  <2>4. InStep(cl, in2, out2, wait, ask, about)
    BY <2>1, <2>2, <2>3, StaysInStep
  <2>5. QED
    BY <1>2, <2>4 DEF Good
<1>3. QED
  BY <1>1, <1>2 DEF Locked

-----------------------------------------------------------------------------
(* The prompter's theorems, for the prompter of the composition.           *)

P == INSTANCE SystemPrompterProofs

LEMMA Assumptions ==
    /\ P!CallbackAssumption /\ P!ObjectAssumption /\ P!QuestionAssumption
    /\ P!ModeAssumption /\ P!EnvironmentAssumption
<1>1. NoQuestion \notin Question
  BY PerformAssumption DEF NoQuestion, Question, Questions
<1>2. QED
  BY <1>1, NameAssumption, PrompterAssumption
     DEF P!CallbackAssumption, P!ObjectAssumption, P!QuestionAssumption,
         P!ModeAssumption, P!EnvironmentAssumption, Vanishing

LEMMA SameBegin == ASSUME NEW c, Prompter!BeginPrompting(c) PROVE P!BeginPrompting(c)
BY DEF Prompter!BeginPrompting, P!BeginPrompting, Prompter!bookkeeping, P!bookkeeping,
       Prompter!Send, P!Send, Prompter!Nothing, P!Nothing, Prompter!With, P!With,
       Prompter!BeginReply, P!BeginReply, Prompter!Pushed, P!Pushed,
       Prompter!PromptNextReady, P!PromptNextReady, Prompter!IsLive, P!IsLive,
       Prompter!MayShow, P!MayShow, Prompter!NewActivePrompt, P!NewActivePrompt,
       Prompter!PromptReady, P!PromptReady, Prompter!Free, P!Free

LEMMA SamePerform ==
    ASSUME NEW c, NEW q, Prompter!PerformPrompt(c, "confirm", q, TRUE)
    PROVE  P!PerformPrompt(c, "confirm", q, TRUE)
BY DEF Prompter!PerformPrompt, P!PerformPrompt, Prompter!bookkeeping, P!bookkeeping,
       Prompter!Send, P!Send, Prompter!Nothing, P!Nothing, Prompter!With, P!With,
       Prompter!PerformReply, P!PerformReply

LEMMA SameStop == ASSUME NEW c, Prompter!StopPrompting(c) PROVE P!StopPrompting(c)
BY Zenon
   DEF Prompter!StopPrompting, P!StopPrompting, Prompter!bookkeeping, P!bookkeeping,
       Prompter!Send, P!Send, Prompter!SendDone, P!SendDone, Prompter!With, P!With,
       Prompter!StopReply, P!StopReply, Prompter!PromptDone, P!PromptDone,
       Prompter!StoppedActive, P!StoppedActive, Prompter!StoppedObjects, P!StoppedObjects,
       Prompter!StopObject, P!StopObject, Prompter!Unref, P!Unref,
       Prompter!Removed, P!Removed,
       Prompter!PromptNextReady, P!PromptNextReady, Prompter!IsLive, P!IsLive,
       Prompter!MayShow, P!MayShow, Prompter!NewActivePrompt, P!NewActivePrompt,
       Prompter!PromptReady, P!PromptReady, Prompter!Free, P!Free

LEMMA SameClosed == ASSUME NEW c, Prompter!PromptClosed(c) PROVE P!PromptClosed(c)
BY Zenon
   DEF Prompter!PromptClosed, P!PromptClosed, Prompter!StopAll, P!StopAll,
       Prompter!SendDone, P!SendDone, Prompter!PromptDone, P!PromptDone,
       Prompter!StoppedActive, P!StoppedActive, Prompter!StoppedObjects, P!StoppedObjects,
       Prompter!StopObject, P!StopObject, Prompter!Unref, P!Unref,
       Prompter!Removed, P!Removed, Prompter!Free, P!Free

LEMMA SameReadyComplete ==
    ASSUME NEW o, NEW ok, Prompter!PromptReadyComplete(o, ok)
    PROVE  P!PromptReadyComplete(o, ok)
BY Zenon
   DEF Prompter!PromptReadyComplete, P!PromptReadyComplete,
       Prompter!bookkeeping, P!bookkeeping, Prompter!Nothing, P!Nothing,
       Prompter!With, P!With, Prompter!Send, P!Send,
       Prompter!StoppedActive, P!StoppedActive, Prompter!StoppedObjects, P!StoppedObjects,
       Prompter!StopObject, P!StopObject, Prompter!Unref, P!Unref,
       Prompter!Removed, P!Removed,
       Prompter!PromptNextReady, P!PromptNextReady, Prompter!IsLive, P!IsLive,
       Prompter!MayShow, P!MayShow, Prompter!NewActivePrompt, P!NewActivePrompt,
       Prompter!PromptReady, P!PromptReady, Prompter!Free, P!Free

LEMMA SameComplete ==
    ASSUME NEW o, NEW r, Prompter!PromptComplete(o, r) PROVE P!PromptComplete(o, r)
BY Zenon
   DEF Prompter!PromptComplete, P!PromptComplete, Prompter!bookkeeping, P!bookkeeping,
       Prompter!Nothing, P!Nothing, Prompter!With, P!With, Prompter!Send, P!Send,
       Prompter!IsLive, P!IsLive, Prompter!PromptReady, P!PromptReady,
       Prompter!Free, P!Free

-----------------------------------------------------------------------------
(* The composition's view of a prompt.                                     *)

Lock(c) ==
    Locked(client[c], inbox[c], outbox[c], P!Queued(waiting, c), P!Asking(active, obj, c),
           P!About(active, obj, c), registered)

LEMMA Facts ==
    ASSUME NEW w, NEW act, NEW objs, NEW c
    PROVE  P!Queued(w, c) \in BOOLEAN /\ P!Asking(act, objs, c) \in BOOLEAN
BY DEF P!Queued, P!Asking

\* The prompter's messages.
LEMMA Sayings ==
    /\ \A ok : /\ P!BeginReply(ok).kind = "BeginReply"
               /\ "kind" \in DOMAIN P!BeginReply(ok)
               /\ P!PerformReply(ok).kind = "PerformReply"
               /\ "kind" \in DOMAIN P!PerformReply(ok) /\ "ok" \in DOMAIN P!PerformReply(ok)
    /\ \A a, b \in BOOLEAN : Says(P!PerformReply(a), b) <=> (a <=> b)
    /\ P!StopReply.kind = "StopReply" /\ "kind" \in DOMAIN P!StopReply
    /\ P!PromptDone.kind = "PromptDone" /\ "kind" \in DOMAIN P!PromptDone
    /\ Vanished.kind = "Vanished" /\ "kind" \in DOMAIN Vanished
    /\ \A r, q, o : LET m == P!PromptReady(r, q, o) IN
          /\ m.kind = "PromptReady" /\ m.question = q
          /\ "kind" \in DOMAIN m /\ "question" \in DOMAIN m
BY DEF P!BeginReply, P!PerformReply, P!StopReply, P!PromptDone, Vanished, P!PromptReady, Says

-----------------------------------------------------------------------------
(* The call a message belongs to is a call of some ActivePrompt, or none.  *)

Stamped(s) == \A i \in DOMAIN s :
    /\ s[i].kind \in {"PromptReady", "ReadyReply"} => s[i].from \in Object \cup {NoObject}
    /\ s[i].kind = "ReadyReply" => s[i].ok \in BOOLEAN

LEMMA StampedJoin ==
    ASSUME NEW s, NEW t, IsBox(s), IsBox(t), Stamped(s), Stamped(t) PROVE Stamped(s \o t)
<1>1. PICK S : s \in Seq(S)
  BY DEF IsBox
<1>2. PICK T : t \in Seq(T)
  BY DEF IsBox
<1>3. s \in Seq(S \cup T) /\ t \in Seq(S \cup T)
  BY <1>1, <1>2
<1> DEFINE u == s \o t
<1>4. \A i \in DOMAIN u : \/ i \in DOMAIN s /\ u[i] = s[i]
                          \/ i - Len(s) \in DOMAIN t /\ u[i] = t[i - Len(s)]
  BY <1>3
<1> HIDE DEF u
<1>5. Stamped(u)
  BY <1>4 DEF Stamped
<1>6. QED
  BY <1>5 DEF u

LEMMA StampedTail ==
    ASSUME NEW s, IsBox(s), s # <<>>, Stamped(s)
    PROVE  /\ Stamped(Tail(s))
           /\ LET m == Head(s) IN
              /\ m.kind \in {"PromptReady", "ReadyReply"} => m.from \in Object \cup {NoObject}
              /\ m.kind = "ReadyReply" => m.ok \in BOOLEAN
<1>1. PICK S : s \in Seq(S)
  BY DEF IsBox
<1> DEFINE t == Tail(s)
<1>2. /\ \A i \in DOMAIN t : i + 1 \in DOMAIN s /\ t[i] = s[i + 1]
      /\ 1 \in DOMAIN s /\ Head(s) = s[1]
  BY <1>1
<1> HIDE DEF t
<1>3. Stamped(t)
  BY <1>2 DEF Stamped
<1>4. QED
  BY <1>2, <1>3 DEF Stamped, t

LEMMA StampedOrphans ==
    ASSUME NEW f, DOMAIN f = Callback, NEW S, NEW d \in Callback, Stamped(f[d])
    PROVE  Stamped(Orphaned(f, S)[d])
<1> DEFINE s == f[d]
           g == Orphaned(f, S)[d]
<1>1. /\ DOMAIN g = DOMAIN s
      /\ \A i \in DOMAIN s : g[i] = IF "from" \in DOMAIN s[i] /\ s[i].from \in S
                                    THEN [s[i] EXCEPT !.from = NoObject] ELSE s[i]
  BY DEF Orphaned
<1> HIDE DEF g, s
<1>2. ASSUME NEW i \in DOMAIN g
      PROVE  /\ g[i].kind \in {"PromptReady", "ReadyReply"} => g[i].from \in Object \cup {NoObject}
             /\ g[i].kind = "ReadyReply" => g[i].ok \in BOOLEAN
  <2>1. CASE g[i] = s[i]
    BY <1>1, <1>2, <2>1 DEF Stamped, s
  <2>2. CASE "from" \in DOMAIN s[i] /\ g[i] = [s[i] EXCEPT !.from = NoObject]
    <3>1. g[i].from = NoObject /\ (g[i].kind = s[i].kind) /\ g[i].ok = s[i].ok
      BY <2>2
    <3>2. QED
      BY <1>1, <1>2, <3>1 DEF Stamped, s
  <2>3. QED
    BY <1>1, <1>2, <2>1, <2>2
<1>3. QED
  BY <1>2 DEF Stamped, g

\* What a prompt sends.
LEMMA StampedMessages ==
    /\ Stamped(<<>>) /\ Stamped(<<Begin>>) /\ Stamped(<<Stop>>)
    /\ \A k : Stamped(<<Perform(k)>>)
    /\ \A cl : Stamped(ClosingCalls(cl))
    /\ \A ok \in BOOLEAN, o \in Object \cup {NoObject} : Stamped(<<ReadyReply(ok, o)>>)
    /\ Stamped(<<Vanished>>)
<1>1. ASSUME NEW m, m.kind \notin {"PromptReady", "ReadyReply"} PROVE Stamped(<<m>>)
  BY <1>1 DEF Stamped
<1>2. /\ Begin.kind = "Begin" /\ Stop.kind = "Stop" /\ Vanished.kind = "Vanished"
      /\ \A k : Perform(k).kind = "Perform"
  BY DEF Begin, Stop, Vanished, Perform
<1>3. ASSUME NEW ok \in BOOLEAN, NEW o \in Object \cup {NoObject}
      PROVE  Stamped(<<ReadyReply(ok, o)>>)
  <2> DEFINE m == ReadyReply(ok, o)
  <2>1. m.kind = "ReadyReply" /\ m.ok = ok /\ m.from = o
    BY DEF ReadyReply
  <2> HIDE DEF m
  <2>2. Stamped(<<m>>)
    BY <2>1 DEF Stamped
  <2>3. QED
    BY <2>2 DEF m
<1>4. Stamped(<<>>)
  BY DEF Stamped
<1>5. Stamped(<<Begin>>) /\ Stamped(<<Stop>>) /\ Stamped(<<Vanished>>)
      /\ \A k : Stamped(<<Perform(k)>>)
  BY <1>1, <1>2
<1>6. QED
  BY <1>3, <1>4, <1>5 DEF ClosingCalls

\* What the prompter sends.
LEMMA StampedSent ==
    ASSUME NEW h \in Seq(P!Message) PROVE IsBox(h) /\ Stamped(h)
<1>1. \A m \in P!Message : "kind" \in DOMAIN m
  BY DEF P!Message, P!StopReply, P!PromptDone
<1>2. \A m \in P!Message : /\ m.kind = "PromptReady" => m.from \in Object
                           /\ m.kind # "ReadyReply"
  BY DEF P!Message, P!StopReply, P!PromptDone
<1>3. \A i \in DOMAIN h : h[i] \in P!Message
  OBVIOUS
<1>4. QED
  BY <1>1, <1>2, <1>3 DEF IsBox, Stamped

StampedAll == \A d \in Callback : Stamped(inbox[d]) /\ Stamped(outbox[d])

\* A step of a prompt.
LEMMA ClientStamps ==
    ASSUME ProtocolInv, StampedAll, NEW c \in Callback, Client(c) PROVE StampedAll'
<1>1. /\ IsBox(inbox[c]) /\ IsBox(outbox[c]) /\ DOMAIN inbox = Callback
      /\ DOMAIN outbox = Callback /\ Shape(client[c])
  BY DEF ProtocolInv, Tables, Sendable, ClientWell
<1>2. ASSUME NEW m, m = Head(inbox[c]), Got(c, "PromptReady") PROVE m.from \in Object \cup {NoObject}
  BY <1>1, <1>2, StampedTail DEF StampedAll, Got
<1>3. /\ \/ inbox' = inbox
         \/ inbox[c] # <<>> /\ Receive(c)
      /\ \/ outbox' = outbox
         \/ \E msgs : Transmit(c, msgs) /\ IsBox(msgs) /\ Stamped(msgs)
  <2>1. CASE ClientReceives(c)
    <3>1. inbox[c] # <<>> /\ Receive(c)
      BY <2>1 DEF ClientReceives, ReceiveBeginReply, ReceivePerformReply, ReceiveStopReply,
                  ReceivePromptReady, ReceivePromptDone, ReceiveVanished, Got
    <3>2. CASE ReceivePromptReady(c)
      <4>1. \/ outbox' = outbox
            \/ \E ok \in BOOLEAN : Transmit(c, <<ReadyReply(ok, Head(inbox[c]).from)>>)
        BY <3>2 DEF ReceivePromptReady
      <4>2. Head(inbox[c]).from \in Object \cup {NoObject}
        BY <1>2, <3>2 DEF ReceivePromptReady
      <4>3. QED
        BY <3>1, <4>1, <4>2, StampedMessages, OrdinaryMessages DEF Ordinary
    <3>3. CASE ~ReceivePromptReady(c)
      <4>1. \/ outbox' = outbox
            \/ \E cl : Transmit(c, ClosingCalls(cl))
        BY <2>1, <3>3 DEF ClientReceives, ReceiveBeginReply, ReceivePerformReply,
                  ReceiveStopReply, ReceivePromptDone, ReceiveVanished
      <4>2. QED
        BY <3>1, <4>1, StampedMessages, ClosingCallsOrdinary DEF Ordinary
    <3>4. QED
      BY <3>2, <3>3
  <2>2. CASE ClientDispatches(c) \/ Application(c) \/ TimeoutFires(c)
    <3>1. inbox' = inbox
      BY <2>2 DEF ClientDispatches, Application, TimeoutFires, BusConnected, CallCancelled,
                WaitingFires, IdleFires, CloseIdleFires, Open, PerformPromptAsync, Cancel,
                CloseAsync, RealClose
    <3>2. \/ outbox' = outbox
          \/ Transmit(c, <<>>) \/ Transmit(c, <<Begin>>)
          \/ \E k : Transmit(c, <<Perform(k)>>)
          \/ \E cl : Transmit(c, ClosingCalls(cl))
      BY <2>2 DEF ClientDispatches, Application, TimeoutFires, BusConnected, CallCancelled,
                WaitingFires, IdleFires, CloseIdleFires, Open, PerformPromptAsync, Cancel,
                CloseAsync, RealClose
    <3>3. IsBox(<<Begin>>)
      BY BoxSingle DEF Begin
    <3>4. QED
      BY <3>1, <3>2, <3>3, StampedMessages, OrdinaryMessages, ClosingCallsOrdinary DEF Ordinary
  <2>3. QED
    BY <2>1, <2>2 DEF Client
<1>4. Stamped(inbox'[c])
  BY <1>1, <1>3, StampedTail DEF StampedAll, Receive, With
<1>5. Stamped(outbox'[c])
  BY <1>1, <1>3, StampedJoin DEF StampedAll, Transmit, With
<1>6. Elsewhere(inbox, inbox', c) /\ Elsewhere(outbox, outbox', c)
  BY OnlyItself
<1>7. QED
  BY <1>4, <1>5, <1>6 DEF Elsewhere, StampedAll

-----------------------------------------------------------------------------
(* What the handlers of the prompter do for each prompt.                   *)

\* Messages of a prompter that is there.
Delivery(h) == IsBox(h) /\ Proper(h) /\ None(h, Loss)

Plainly(h) == Delivery(h) /\ None(h, Ready) /\ None(h, Answer) /\ None(h, Calls)

LEMMA Deliveries ==
    /\ Plainly(<<>>) /\ Plainly(<<P!StopReply>>)
    /\ \A ok : Plainly(<<P!BeginReply(ok)>>) /\ Few(<<P!BeginReply(ok)>>, Ready)
    /\ Plainly(<<P!PromptDone>>) /\ ~None(<<P!PromptDone>>, Relief)
    /\ \A r, q, o : LET h == <<P!PromptReady(r, q, o)>> IN
          /\ Delivery(h) /\ None(h, Answer) /\ Few(h, Ready)
          /\ Concerns(h, Ready, {q}) /\ ~None(h, Relief)
    /\ \A o : LET h == <<P!Invitation(o)>> IN
          /\ Delivery(h) /\ None(h, Answer) /\ Few(h, Ready)
    /\ \A ok \in BOOLEAN : LET h == <<P!PerformReply(ok)>> IN
          /\ Delivery(h) /\ None(h, Ready) /\ Few(h, Answer) /\ ~None(h, Answer) /\ Ordered(h)
          /\ ~Replied(h, ~ok)
<1>1. \A K : None(<<>>, K)
  BY SingleContents
<1>2. Plainly(<<>>)
  BY <1>1, SingleContents DEF Plainly, Delivery
<1>3. ASSUME NEW m, "kind" \in DOMAIN m, m.kind \in {"StopReply", "BeginReply", "PromptDone"}
      PROVE  Plainly(<<m>>) /\ Few(<<m>>, Ready) /\ (m.kind = "PromptDone" => ~None(<<m>>, Relief))
  <2>1. /\ m.kind \notin Ready /\ m.kind \notin Answer /\ m.kind \notin Calls
        /\ m.kind \notin Loss /\ (m.kind = "PromptDone" => m.kind \in Relief)
    BY <1>3 DEF Ready, Answer, Calls, Loss, Relief
  <2>2. IsBox(<<m>>) /\ Proper(<<m>>)
    BY <1>3, SingleContents
  <2>3. QED
    BY <1>3, <2>1, <2>2, SingleContents DEF Plainly, Delivery
<1>4. ASSUME NEW r, NEW q, NEW o
      PROVE  LET h == <<P!PromptReady(r, q, o)>> IN
          /\ Delivery(h) /\ None(h, Answer) /\ Few(h, Ready)
          /\ Concerns(h, Ready, {q}) /\ ~None(h, Relief)
  <2> DEFINE m == P!PromptReady(r, q, o)
  <2>1. m.kind = "PromptReady" /\ m.question = q /\ "kind" \in DOMAIN m
        /\ "question" \in DOMAIN m
    BY Sayings
  <2> HIDE DEF m
  <2>2. m.kind \notin Answer /\ m.kind \notin Loss /\ m.kind \in Relief
    BY <2>1 DEF Answer, Loss, Relief
  <2>3. IsBox(<<m>>) /\ Proper(<<m>>) /\ Few(<<m>>, Ready) /\ Concerns(<<m>>, Ready, {q})
    BY <2>1, SingleContents
  <2>4. None(<<m>>, Answer) /\ None(<<m>>, Loss) /\ ~None(<<m>>, Relief)
    BY <2>1, <2>2, SingleContents
  <2>5. QED
    BY <2>3, <2>4 DEF Delivery, m
<1>5. ASSUME NEW ok \in BOOLEAN
      PROVE LET h == <<P!PerformReply(ok)>> IN
          /\ Delivery(h) /\ None(h, Ready) /\ Few(h, Answer) /\ ~None(h, Answer) /\ Ordered(h)
          /\ ~Replied(h, ~ok)
  <2> DEFINE m == P!PerformReply(ok)
  <2>1. m.kind = "PerformReply" /\ "kind" \in DOMAIN m /\ "ok" \in DOMAIN m
        /\ ~Says(m, ~ok)
    BY Sayings
  <2> HIDE DEF m
  <2>2. m.kind \in Answer /\ m.kind \notin Loss /\ m.kind \notin Ready
    BY <2>1 DEF Answer, Loss, Ready
  <2>3. IsBox(<<m>>) /\ Proper(<<m>>) /\ Few(<<m>>, Answer) /\ Ordered(<<m>>)
        /\ ~Replied(<<m>>, ~ok)
    BY <2>1, SingleContents
  <2>4. ~None(<<m>>, Answer) /\ None(<<m>>, Loss) /\ None(<<m>>, Ready)
    BY <2>1, <2>2, SingleContents
  <2>5. QED
    BY <2>3, <2>4 DEF Delivery, m
<1>6. Plainly(<<P!StopReply>>)
  BY <1>3, Sayings
<1>7. \A ok : Plainly(<<P!BeginReply(ok)>>) /\ Few(<<P!BeginReply(ok)>>, Ready)
  BY <1>3, Sayings
<1>8. Plainly(<<P!PromptDone>>) /\ ~None(<<P!PromptDone>>, Relief)
  BY <1>3, Sayings
<1>9. \A o : LET h == <<P!Invitation(o)>> IN
          /\ Delivery(h) /\ None(h, Answer) /\ Few(h, Ready)
  BY <1>4 DEF P!Invitation
<1>10. QED
  BY <1>2, <1>4, <1>5, <1>6, <1>7, <1>8, <1>9

\* Two messages of one handler.
LEMMA Pairs ==
    ASSUME NEW a, NEW b, Delivery(<<a>>), Delivery(<<b>>)
    PROVE  LET h == Append(<<a>>, b) IN
           /\ Delivery(h)
           /\ \A K : None(h, K) <=> None(<<a>>, K) /\ None(<<b>>, K)
           /\ \A K : None(<<a>>, K) /\ Few(<<b>>, K) => Few(h, K)
<1> DEFINE s == <<a>>
           t == <<b>>
           u == s \o t
<1>1. Append(<<a>>, b) = u
  <2>1. s \in Seq({a, b}) /\ b \in {a, b}
    OBVIOUS
  <2>2. QED
    BY <2>1
<1>2. IsBox(s) /\ IsBox(t) /\ Proper(s) /\ Proper(t) /\ None(s, Loss) /\ None(t, Loss)
  BY DEF Delivery
<1> HIDE DEF s, t
<1>3. IsBox(u) /\ Joined(s, t, u)
  BY <1>2, JoinedBoxes
<1> HIDE DEF u
<1>4. Delivery(u)
  BY <1>2, <1>3 DEF Joined, Delivery
<1>5. \A K : /\ None(u, K) <=> None(s, K) /\ None(t, K)
             /\ None(s, K) /\ Few(t, K) => Few(u, K)
  BY <1>3 DEF Joined
<1>6. QED
  BY <1>1, <1>4, <1>5 DEF s, t

\* The prompter's tables and messages for d after a step.
Serves(d) ==
    /\ Delivery(sent'[d])
    /\ Progress(sent'[d], P!Queued(waiting, d), P!Asking(active, obj, d),
                P!About(active, obj, d), P!Queued(waiting', d), P!Asking(active', obj', d),
                P!About(active', obj', d))

LEMMA KeptServes ==
    ASSUME NEW d, P!Kept(d), Plainly(sent'[d]) PROVE Serves(d)
BY DEF P!Kept, P!AsBefore, Plainly, Progress, Serves

LEMMA LostServes ==
    ASSUME NEW d, P!Lost(d), Plainly(sent'[d]), ~None(sent'[d], Relief) PROVE Serves(d)
BY DEF P!Lost, P!Dropped, Plainly, Progress, Serves

LEMMA BystanderServes == ASSUME NEW d, P!Bystander(d) PROVE Serves(d)
<1>1. CASE sent'[d] = <<>> /\ P!Kept(d)
  BY <1>1, Deliveries, KeptServes
<1>2. ASSUME P!Turn(d), NEW o, sent'[d] = <<P!Invitation(o)>> PROVE Serves(d)
  <2>1. Delivery(sent'[d]) /\ None(sent'[d], Answer) /\ Few(sent'[d], Ready)
    BY <1>2, Deliveries
  <2>2. QED
    BY <1>2, <2>1 DEF P!Turn, P!Invited, Progress, Serves
<1>3. QED
  BY <1>1, <1>2 DEF P!Bystander

\* The composition, in step.
Together ==
    /\ ProtocolInv /\ Registered /\ StampedAll
    /\ P!Records /\ gone = {}
    /\ \A d \in Callback : Lock(d)

\* What is in the channels of a prompt that is in step.
LEMMA LockBoxed ==
    ASSUME NEW d, Lock(d) PROVE Boxed(inbox[d], outbox[d], registered)
BY DEF Lock, Locked

\* A channel to the prompter, and what is left when it has taken a message.
Holds(out) == Proper(out) /\ Concerns(out, Request, Questions)

LEMMA TakenHolds ==
    ASSUME NEW out, NEW m, NEW out2, Taken(out, m, out2), Holds(out)
    PROVE  Holds(out2) /\ (m.kind = "Perform" => m.question \in Questions)
BY DEF Holds, Taken, Request

LEMMA LockHolds == ASSUME NEW d, Lock(d) PROVE Holds(outbox[d])
BY LockBoxed DEF Boxed, Holds

\* The prompter takes a message of c.
LEMMA Takes ==
    ASSUME ProtocolInv, NEW c \in Callback, outbox[c] # <<>>,
           outbox' = With(outbox, c, Tail(outbox[c])), NEW d \in Callback
    PROVE  /\ d # c => outbox'[d] = outbox[d]
           /\ d = c => Taken(outbox[d], Head(outbox[d]), outbox'[d])
<1>1. DOMAIN outbox = Callback /\ IsBox(outbox[c])
  BY DEF ProtocolInv, Tables, Sendable
<1>2. outbox'[d] = IF d = c THEN Tail(outbox[c]) ELSE outbox[d]
  BY <1>1 DEF With
<1>3. QED
  BY <1>1, <1>2, TakenBoxes

\* What the channel to a prompt is fed with.
LEMMA Feeds ==
    ASSUME ProtocolInv, Registered, NEW d \in Callback, Delivery(sent'[d]),
           inbox'[d] = inbox[d] \o sent'[d], registered' = registered, Holds(outbox'[d])
    PROVE  Fed(inbox[d], sent'[d], inbox'[d], outbox'[d], registered, registered')
<1>1. IsBox(inbox[d])
  BY DEF ProtocolInv, Tables, Sendable
<1>2. IsBox(sent'[d]) /\ Proper(sent'[d]) /\ None(sent'[d], Loss)
  BY DEF Delivery
<1>3. Joined(inbox[d], sent'[d], inbox'[d])
  BY <1>1, <1>2, JoinedBoxes
<1>4. QED
  BY <1>2, <1>3 DEF Fed, Holds

\* A prompt stays in step with a handler that serves it.
LEMMA StepLocks ==
    ASSUME ProtocolInv, Registered, NEW d \in Callback, Lock(d), Serves(d),
           client' = client, inbox'[d] = inbox[d] \o sent'[d], registered' = registered,
           Holds(outbox'[d]), Keeps(outbox[d], outbox'[d])
    PROVE  Lock(d)'
<1>1. Fed(inbox[d], sent'[d], inbox'[d], outbox'[d], registered, registered')
  BY Feeds DEF Serves
<1>2. /\ P!Queued(waiting, d) \in BOOLEAN /\ P!Asking(active, obj, d) \in BOOLEAN
      /\ P!Queued(waiting', d) \in BOOLEAN /\ P!Asking(active', obj', d) \in BOOLEAN
      /\ registered \in BOOLEAN /\ registered' \in BOOLEAN
  BY Facts DEF Registered
<1>3. /\ Locked(client[d], inbox[d], outbox[d], P!Queued(waiting, d), P!Asking(active, obj, d),
                P!About(active, obj, d), registered)
      /\ Progress(sent'[d], P!Queued(waiting, d), P!Asking(active, obj, d),
                P!About(active, obj, d), P!Queued(waiting', d), P!Asking(active', obj', d),
                P!About(active', obj', d))
  BY DEF Lock, Serves
<1>4. Locked(client[d], inbox'[d], outbox'[d], P!Queued(waiting', d),
             P!Asking(active', obj', d), P!About(active', obj', d), registered')
  BY <1>1, <1>2, <1>3, FlowLocks
<1>5. client'[d] = client[d]
  OBVIOUS
<1>6. QED
  BY <1>4, <1>5 DEF Lock

\* A handler of the prompter keeps its records, and its messages are stamped.
LEMMA PrompterStays ==
    ASSUME Together, P!Next
    PROVE  P!Records' /\ \A d \in Callback : IsBox(sent'[d]) /\ Stamped(sent'[d])
<1>1. P!IInv'
  BY Assumptions, P!HandlersKeep DEF Together
<1>2. P!Records' /\ \A d \in Callback : sent'[d] \in Seq(P!Message)
  BY <1>1 DEF P!IInv, P!MessagesOK
<1>3. QED
  BY <1>2, StampedSent

\* The prompter handles BeginPrompting of c.
LEMMA BeginLocks ==
    ASSUME Together, NEW c \in Callback, outbox[c] # <<>>, Head(outbox[c]).kind = "Begin",
           outbox' = With(outbox, c, Tail(outbox[c])), P!BeginPrompting(c),
           Deliver(inbox), client' = client, NEW d \in Callback
    PROVE  Lock(d)'
<1>1. /\ ProtocolInv /\ Registered /\ Lock(d) /\ P!Records
  BY DEF Together
<1>2. /\ inbox'[d] = inbox[d] \o sent'[d] /\ registered' = registered
  BY DEF Deliver, P!BeginPrompting
<1>3. /\ d # c => P!Bystander(d)
      /\ d = c => \/ P!Kept(d) /\ sent'[d] = <<P!BeginReply(FALSE)>>
                  \/ /\ P!Asking(active', obj', d) => P!Asking(active, obj, d)
                     /\ sent'[d] = <<P!BeginReply(TRUE)>>
                  \/ /\ ~P!Queued(waiting', d) /\ ~P!Asking(active', obj', d)
                     /\ \E o : sent'[d] = Append(<<P!BeginReply(TRUE)>>, P!Invitation(o))
  BY <1>1, Assumptions, P!BeginFor
<1>4. CASE d # c
  <2>1. outbox'[d] = outbox[d]
    BY <1>1, <1>4, Takes
  <2>2. Serves(d) /\ Holds(outbox'[d]) /\ Keeps(outbox[d], outbox'[d])
    BY <1>1, <1>3, <1>4, <2>1, BystanderServes, LockHolds, KeepsItself
  <2>3. QED
    BY <1>1, <1>2, <2>2, StepLocks
<1>5. CASE d = c
  <2>1. Taken(outbox[d], Head(outbox[d]), outbox'[d]) /\ Head(outbox[d]).kind = "Begin"
    BY <1>1, <1>5, Takes
  <2>2. Holds(outbox'[d])
    BY <1>1, <2>1, LockHolds, TakenHolds
  <2>3. /\ Delivery(sent'[d]) /\ None(sent'[d], Answer) /\ Few(sent'[d], Ready)
        /\ P!Queued(waiting', d) => None(sent'[d], Ready)
        /\ P!Asking(active', obj', d) => P!Asking(active, obj, d)
    <3>1. CASE P!Kept(d) /\ sent'[d] = <<P!BeginReply(FALSE)>>
      BY <3>1, Deliveries DEF P!Kept, P!AsBefore, Plainly
    <3>2. CASE /\ P!Asking(active', obj', d) => P!Asking(active, obj, d)
               /\ sent'[d] = <<P!BeginReply(TRUE)>>
      BY <3>2, Deliveries DEF Plainly
    <3>3. ASSUME ~P!Queued(waiting', d), ~P!Asking(active', obj', d),
                 NEW o, sent'[d] = Append(<<P!BeginReply(TRUE)>>, P!Invitation(o))
          PROVE  /\ Delivery(sent'[d]) /\ None(sent'[d], Answer) /\ Few(sent'[d], Ready)
                 /\ P!Queued(waiting', d) => None(sent'[d], Ready)
                 /\ P!Asking(active', obj', d) => P!Asking(active, obj, d)
      <4> DEFINE a == P!BeginReply(TRUE)
                 b == P!Invitation(o)
      <4>1. /\ Delivery(<<a>>) /\ None(<<a>>, Answer) /\ None(<<a>>, Ready)
            /\ Delivery(<<b>>) /\ None(<<b>>, Answer) /\ Few(<<b>>, Ready)
        BY Deliveries DEF Plainly
      <4> HIDE DEF a, b
      <4>2. /\ Delivery(Append(<<a>>, b)) /\ None(Append(<<a>>, b), Answer)
            /\ Few(Append(<<a>>, b), Ready)
        BY <4>1, Pairs
      <4>3. QED
        BY <3>3, <4>2 DEF a, b
    <3>4. QED
      BY <1>3, <1>5, <3>1, <3>2, <3>3
  <2>4. Fed(inbox[d], sent'[d], inbox'[d], outbox'[d], registered, registered')
    BY <1>1, <1>2, <2>2, <2>3, Feeds
  <2>5. /\ P!Queued(waiting, d) \in BOOLEAN /\ P!Asking(active, obj, d) \in BOOLEAN
        /\ P!Queued(waiting', d) \in BOOLEAN /\ P!Asking(active', obj', d) \in BOOLEAN
        /\ registered \in BOOLEAN
    BY <1>1, Facts DEF Registered
  <2>6. Locked(client[d], inbox[d], outbox[d], P!Queued(waiting, d), P!Asking(active, obj, d),
               P!About(active, obj, d), registered)
    BY <1>1 DEF Lock
  <2>7. Locked(client[d], inbox'[d], outbox'[d], P!Queued(waiting', d),
               P!Asking(active', obj', d), P!About(active', obj', d), registered)
    BY <1>2, <2>1, <2>3, <2>4, <2>5, <2>6, BegunLocks
  <2>8. QED
    BY <1>2, <2>7 DEF Lock
<1>6. QED
  BY <1>4, <1>5

\* The prompter handles PerformPrompt of c.
LEMMA PerformIsLocked ==
    ASSUME Together, NEW c \in Callback, outbox[c] # <<>>, Head(outbox[c]).kind = "Perform",
           outbox' = With(outbox, c, Tail(outbox[c])),
           P!PerformPrompt(c, "confirm", Head(outbox[c]).question, TRUE),
           Deliver(inbox), client' = client, NEW d \in Callback
    PROVE  Lock(d)'
<1> DEFINE q == Head(outbox[c]).question
<1>1. /\ ProtocolInv /\ Registered /\ Lock(d) /\ P!Records
  BY DEF Together
<1>2. /\ inbox'[d] = inbox[d] \o sent'[d] /\ registered' = registered /\ registered
  BY DEF Deliver, P!PerformPrompt
<1>3. /\ d # c => P!Bystander(d)
      /\ d = c => \/ P!Kept(d) /\ sent'[d] = <<P!PerformReply(FALSE)>>
                  \/ /\ P!Queued(waiting', d) <=> P!Queued(waiting, d)
                     /\ P!Asking(active', obj', d) /\ P!About(active', obj', d) = q
                     /\ sent'[d] = <<P!PerformReply(TRUE)>>
  BY <1>1, Assumptions, P!PerformFor
<1> HIDE DEF q
<1>4. CASE d # c
  <2>1. outbox'[d] = outbox[d]
    BY <1>1, <1>4, Takes
  <2>2. Serves(d) /\ Holds(outbox'[d]) /\ Keeps(outbox[d], outbox'[d])
    BY <1>1, <1>3, <1>4, <2>1, BystanderServes, LockHolds, KeepsItself
  <2>3. QED
    BY <1>1, <1>2, <2>2, StepLocks
<1>5. CASE d = c
  <2>1. /\ Taken(outbox[d], Head(outbox[d]), outbox'[d]) /\ Head(outbox[d]).kind = "Perform"
        /\ Head(outbox[d]).question = q
    BY <1>1, <1>5, Takes DEF q
  <2>2. Holds(outbox'[d])
    BY <1>1, <2>1, LockHolds, TakenHolds
  <2>3. /\ Delivery(sent'[d]) /\ None(sent'[d], Ready) /\ Few(sent'[d], Answer)
        /\ ~None(sent'[d], Answer) /\ Ordered(sent'[d])
        /\ P!Queued(waiting', d) => P!Queued(waiting, d)
        /\ \/ /\ P!Asking(active', obj', d) /\ P!About(active', obj', d) = q
              /\ ~Replied(sent'[d], FALSE)
           \/ /\ P!Asking(active', obj', d) => P!Asking(active, obj, d)
              /\ ~Replied(sent'[d], TRUE)
    <3>1. CASE P!Kept(d) /\ sent'[d] = <<P!PerformReply(FALSE)>>
      BY <3>1, Deliveries DEF P!Kept, P!AsBefore
    <3>2. CASE /\ P!Queued(waiting', d) <=> P!Queued(waiting, d)
               /\ P!Asking(active', obj', d) /\ P!About(active', obj', d) = q
               /\ sent'[d] = <<P!PerformReply(TRUE)>>
      BY <3>2, Deliveries
    <3>3. QED
      BY <1>3, <1>5, <3>1, <3>2
  <2>4. Fed(inbox[d], sent'[d], inbox'[d], outbox'[d], registered, registered')
    BY <1>1, <1>2, <2>2, <2>3, Feeds
  <2>5. /\ P!Queued(waiting, d) \in BOOLEAN /\ P!Asking(active, obj, d) \in BOOLEAN
        /\ P!Queued(waiting', d) \in BOOLEAN /\ P!Asking(active', obj', d) \in BOOLEAN
        /\ registered \in BOOLEAN /\ ClientWell(client[d])
    BY <1>1, Facts DEF Registered, ProtocolInv
  <2>6. Locked(client[d], inbox[d], outbox[d], P!Queued(waiting, d), P!Asking(active, obj, d),
               P!About(active, obj, d), registered)
    BY <1>1 DEF Lock
  <2>9. PerformAnswered(registered, Head(outbox[d]), sent'[d], P!Asking(active, obj, d),
                        P!Asking(active', obj', d), P!About(active', obj', d))
    BY <1>2, <2>1, <2>3 DEF PerformAnswered
  <2>10. Fed(inbox[d], sent'[d], inbox'[d], outbox'[d], registered, registered)
    BY <1>2, <2>4
  <2>7. Locked(client[d], inbox'[d], outbox'[d], P!Queued(waiting', d),
               P!Asking(active', obj', d), P!About(active', obj', d), registered)
    BY <2>1, <2>3, <2>5, <2>6, <2>9, <2>10, PerformedLocks
  <2>8. QED
    BY <1>2, <2>7 DEF Lock
<1>6. QED
  BY <1>4, <1>5

\* A handler that serves every prompt, run on a message that asks nothing.
LEMMA ServedLocks ==
    ASSUME Together, NEW c \in Callback, outbox[c] # <<>>, Plain(Head(outbox[c]).kind),
           outbox' = With(outbox, c, Tail(outbox[c])),
           Deliver(inbox), client' = client, registered' = registered,
           NEW d \in Callback, Serves(d)
    PROVE  Lock(d)'
<1>1. ProtocolInv /\ Registered /\ Lock(d) /\ inbox'[d] = inbox[d] \o sent'[d]
  BY DEF Together, Deliver
<1>2. Holds(outbox'[d]) /\ Keeps(outbox[d], outbox'[d])
  <2>1. CASE d # c
    <3>1. outbox'[d] = outbox[d]
      BY <1>1, <2>1, Takes
    <3>2. QED
      BY <1>1, <3>1, LockHolds, KeepsItself
  <2>2. CASE d = c
    <3>1. Taken(outbox[d], Head(outbox[d]), outbox'[d]) /\ Plain(Head(outbox[d]).kind)
      BY <1>1, <2>2, Takes
    <3>2. QED
      BY <1>1, <3>1, LockHolds, TakenHolds, TakenKeeps
  <2>3. QED
    BY <2>1, <2>2
<1>3. QED
  BY <1>1, <1>2, StepLocks

\* A handler that serves every prompt and is run on no message.
LEMMA DialogLocks ==
    ASSUME Together, outbox' = outbox, Deliver(inbox), client' = client,
           registered' = registered, NEW d \in Callback, Serves(d)
    PROVE  Lock(d)'
<1>1. ProtocolInv /\ Registered /\ Lock(d) /\ inbox'[d] = inbox[d] \o sent'[d]
  BY DEF Together, Deliver
<1>2. Holds(outbox'[d]) /\ Keeps(outbox[d], outbox'[d])
  BY <1>1, LockHolds, KeepsItself
<1>3. QED
  BY <1>1, <1>2, StepLocks

\* A step that ends the calls from S.
LEMMA OrphansLock ==
    ASSUME Together, NEW S, Deliver(Orphaned(inbox, S)), outbox' = Orphaned(outbox, S),
           client' = client, registered' \in BOOLEAN, NEW d \in Callback,
           IsBox(sent'[d]), Proper(sent'[d]),
           registered' => registered /\ None(sent'[d], Loss),
           Progress(sent'[d], P!Queued(waiting, d), P!Asking(active, obj, d),
                    P!About(active, obj, d), P!Queued(waiting', d),
                    P!Asking(active', obj', d), P!About(active', obj', d))
    PROVE  Lock(d)'
<1> DEFINE in == Orphaned(inbox, S)[d]
           out == Orphaned(outbox, S)[d]
<1>1. /\ ProtocolInv /\ Registered /\ Lock(d) /\ Sendable(inbox) /\ Sendable(outbox)
  BY DEF Together, ProtocolInv, Tables
<1>2. Proper(inbox[d]) /\ Proper(outbox[d])
  BY <1>1, LockBoxed DEF Boxed
<1>3. Same(inbox[d], in) /\ Same(outbox[d], out)
  BY <1>1, <1>2, OrphanedSame
<1>4. IsBox(in)
  BY <1>1, OrphanedKinds DEF KeepsKinds, Sendable
<1>5. inbox'[d] = in \o sent'[d] /\ outbox'[d] = out
  BY DEF Deliver
<1> HIDE DEF in, out
<1>6. /\ P!Queued(waiting, d) \in BOOLEAN /\ P!Asking(active, obj, d) \in BOOLEAN
      /\ P!Queued(waiting', d) \in BOOLEAN /\ P!Asking(active', obj', d) \in BOOLEAN
      /\ registered \in BOOLEAN
  BY <1>1, Facts DEF Registered
<1>7. Locked(client[d], inbox[d], outbox[d], P!Queued(waiting, d), P!Asking(active, obj, d),
             P!About(active, obj, d), registered)
  BY <1>1 DEF Lock
<1>8. Locked(client[d], in, out, P!Queued(waiting, d), P!Asking(active, obj, d),
             P!About(active, obj, d), registered)
  BY <1>3, <1>6, <1>7, OrphanLocks
<1>9. Holds(out) /\ Keeps(out, out)
  BY <1>8, KeepsItself DEF Locked, Boxed, Holds
<1>10. Joined(in, sent'[d], inbox'[d])
  BY <1>4, <1>5, JoinedBoxes
<1>11. Fed(in, sent'[d], inbox'[d], out, registered, registered')
  BY <1>9, <1>10 DEF Fed, Holds
<1>12. Locked(client[d], inbox'[d], out, P!Queued(waiting', d),
              P!Asking(active', obj', d), P!About(active', obj', d), registered')
  BY <1>6, <1>8, <1>9, <1>11, FlowLocks
<1>13. QED
  BY <1>5, <1>12 DEF Lock

\* The prompter handles StopPrompting of c.
LEMMA StopServes ==
    ASSUME Together, NEW c \in Callback, P!StopPrompting(c), NEW d \in Callback
    PROVE  Serves(d)
<1>1. /\ d # c => P!Bystander(d)
      /\ d = c => \/ P!Kept(d) /\ sent'[d] = <<P!StopReply>>
                  \/ P!Lost(d) /\ sent'[d] = Append(<<P!PromptDone>>, P!StopReply)
  BY Assumptions, P!StopFor DEF Together
<1>2. CASE d # c
  BY <1>1, <1>2, BystanderServes
<1>3. CASE P!Kept(d) /\ sent'[d] = <<P!StopReply>>
  BY <1>3, KeptServes, Deliveries
<1>4. CASE P!Lost(d) /\ sent'[d] = Append(<<P!PromptDone>>, P!StopReply)
  <2> DEFINE a == P!PromptDone
             b == P!StopReply
  <2>1. Plainly(<<a>>) /\ Plainly(<<b>>) /\ ~None(<<a>>, Relief)
    BY Deliveries
  <2> HIDE DEF a, b
  <2>2. Delivery(<<a>>) /\ Delivery(<<b>>)
    BY <2>1 DEF Plainly
  <2>3. /\ Delivery(Append(<<a>>, b))
        /\ \A K : None(Append(<<a>>, b), K) <=> None(<<a>>, K) /\ None(<<b>>, K)
    BY <2>2, Pairs
  <2>4. Plainly(Append(<<a>>, b)) /\ ~None(Append(<<a>>, b), Relief)
    BY <2>1, <2>3 DEF Plainly
  <2>5. QED
    BY <1>4, <2>4, LostServes DEF a, b
<1>5. QED
  BY <1>1, <1>2, <1>3, <1>4

\* A PromptReady call returns.
LEMMA ReadyCompleteServes ==
    ASSUME Together, NEW o \in Object, NEW ok \in BOOLEAN, P!PromptReadyComplete(o, ok),
           NEW d \in Callback
    PROVE  Serves(d)
BY Assumptions, P!ReadyCompleteFor, BystanderServes DEF Together

\* The user answers.
LEMMA CompleteServes ==
    ASSUME Together, NEW o \in Object, NEW r \in {"yes", "no"}, P!PromptComplete(o, r),
           NEW d \in Callback
    PROVE  Serves(d)
<1>1. \/ P!Kept(d) /\ sent'[d] = <<>>
      \/ /\ P!Asking(active, obj, d) /\ P!Lost(d)
         /\ sent'[d] = <<P!PromptReady(r, P!About(active, obj, d), o)>>
  BY Assumptions, P!CompleteFor DEF Together
<1>2. CASE P!Kept(d) /\ sent'[d] = <<>>
  BY <1>2, KeptServes, Deliveries
<1>3. CASE /\ P!Asking(active, obj, d) /\ P!Lost(d)
           /\ sent'[d] = <<P!PromptReady(r, P!About(active, obj, d), o)>>
  <2>1. /\ Delivery(sent'[d]) /\ None(sent'[d], Answer) /\ Few(sent'[d], Ready)
        /\ Concerns(sent'[d], Ready, {P!About(active, obj, d)}) /\ ~None(sent'[d], Relief)
    BY <1>3, Deliveries
  <2>2. QED
    BY <1>3, <2>1 DEF P!Lost, P!Dropped, Progress, Serves
<1>4. QED
  BY <1>1, <1>2, <1>3

\* The user closes the dialog.
LEMMA ClosedServes ==
    ASSUME Together, NEW c \in Callback, P!PromptClosed(c), NEW d \in Callback
    PROVE  Serves(d)
<1>1. \/ P!Kept(d) /\ sent'[d] = <<>>
      \/ P!Lost(d) /\ sent'[d] = <<P!PromptDone>>
  BY Assumptions, P!ClosedFor DEF Together
<1>2. QED
  BY <1>1, KeptServes, LostServes, Deliveries

\* What is left to show of a step of the prompter.
LEMMA TogetherAgain ==
    ASSUME Together, [Next]_protocolVars, StampedAll', P!Records', gone' = gone,
           \A d \in Callback : Lock(d)'
    PROVE  Together'
<1>1. ProtocolInv' /\ Registered'
  BY StepKeeps DEF Together
<1>2. gone' = {}
  BY DEF Together
<1>3. QED
  BY <1>1, <1>2 DEF Together

\* The messages stay stamped.
LEMMA StampsStay ==
    ASSUME ProtocolInv, StampedAll,
           \A d \in Callback : IsBox(sent'[d]) /\ Stamped(sent'[d]),
           \/ /\ Deliver(inbox)
              /\ \/ outbox' = outbox
                 \/ \E c \in Callback : outbox[c] # <<>> /\ outbox' = With(outbox, c, Tail(outbox[c]))
           \/ \E S : Deliver(Orphaned(inbox, S)) /\ outbox' = Orphaned(outbox, S)
    PROVE  StampedAll'
<1> SUFFICES ASSUME NEW d \in Callback PROVE Stamped(inbox'[d]) /\ Stamped(outbox'[d])
  BY DEF StampedAll
<1>1. /\ Sendable(inbox) /\ Sendable(outbox) /\ Stamped(inbox[d]) /\ Stamped(outbox[d])
      /\ IsBox(sent'[d]) /\ Stamped(sent'[d])
  BY DEF ProtocolInv, Tables, StampedAll
<1>2. CASE Deliver(inbox) /\ outbox' = outbox
  BY <1>1, <1>2, StampedJoin DEF Deliver, Sendable
<1>3. ASSUME Deliver(inbox), NEW c \in Callback, outbox[c] # <<>>,
             outbox' = With(outbox, c, Tail(outbox[c]))
      PROVE  Stamped(inbox'[d]) /\ Stamped(outbox'[d])
  <2>1. Stamped(inbox'[d])
    BY <1>1, <1>3, StampedJoin DEF Deliver, Sendable
  <2>2. outbox'[d] = IF d = c THEN Tail(outbox[d]) ELSE outbox[d]
    BY <1>1, <1>3 DEF With, Sendable
  <2>3. d = c => Stamped(Tail(outbox[d]))
    BY <1>1, <1>3, StampedTail DEF Sendable
  <2>4. QED
    BY <1>1, <2>1, <2>2, <2>3
<1>4. ASSUME NEW S, Deliver(Orphaned(inbox, S)), outbox' = Orphaned(outbox, S)
      PROVE  Stamped(inbox'[d]) /\ Stamped(outbox'[d])
  <2>1. Stamped(Orphaned(inbox, S)[d]) /\ Stamped(Orphaned(outbox, S)[d])
    BY <1>1, StampedOrphans DEF Sendable
  <2>2. IsBox(Orphaned(inbox, S)[d])
    BY <1>1, OrphanedKinds DEF KeepsKinds, Sendable
  <2>3. inbox'[d] = Orphaned(inbox, S)[d] \o sent'[d] /\ outbox'[d] = Orphaned(outbox, S)[d]
    BY <1>4 DEF Deliver
  <2>4. QED
    BY <1>1, <2>1, <2>2, <2>3, StampedJoin
<1>5. QED
  BY <1>2, <1>3, <1>4

LEMMA RecordsUnchanged ==
    ASSUME P!Records, UNCHANGED <<gone, registered, callbacks, waiting, active, obj>>
    PROVE  P!Records' /\ \A d : P!Kept(d)
BY DEF P!Records, P!Kept, P!AsBefore

\* The handlers are steps of the prompter's own specification.
LEMMA HandlersAreSteps ==
    ASSUME gone = {}
    PROVE  /\ \A c \in Callback :
                 /\ P!BeginPrompting(c) \/ P!StopPrompting(c) => P!Next
                 /\ \A q \in Questions : P!PerformPrompt(c, "confirm", q, TRUE) => P!Next
                 /\ Dismissable /\ P!PromptClosed(c) => P!Next
           /\ \A o \in Object :
                 /\ \A ok \in BOOLEAN : P!PromptReadyComplete(o, ok) => P!Next
                 /\ \A r \in {"yes", "no"} : P!PromptComplete(o, r) => P!Next
<1>1. ASSUME NEW c \in Callback, P!BeginPrompting(c) \/ P!StopPrompting(c) PROVE P!Next
  <2>1. P!MethodCall(c)
    BY <1>1 DEF P!MethodCall
  <2>2. QED
    BY <2>1 DEF P!Next
<1>2. ASSUME NEW c \in Callback, NEW q \in Questions, P!PerformPrompt(c, "confirm", q, TRUE)
      PROVE  P!Next
  <2>1. \E type \in {"confirm", "password", "invalid"}, x \in Question, valid \in BOOLEAN :
            P!PerformPrompt(c, type, x, valid)
    BY <1>2 DEF Question
  <2>2. P!MethodCall(c)
    BY <2>1 DEF P!MethodCall
  <2>3. QED
    BY <2>2 DEF P!Next
<1>3. QED
  BY <1>1, <1>2 DEF P!Next

\* The prompter takes a message.
LEMMA PrompterReceivesTogether ==
    ASSUME Together, NEW c \in Callback, PrompterReceives(c) PROVE Together'
<1> DEFINE m == Head(outbox[c])
<1>0. [Next]_protocolVars
  BY DEF Next
<1>1. /\ ProtocolInv /\ Registered /\ StampedAll /\ P!Records /\ gone = {} /\ Lock(c)
      /\ Sendable(outbox)
  BY DEF Together, ProtocolInv, Tables
<1>2. /\ outbox[c] # <<>> /\ outbox' = With(outbox, c, Tail(outbox[c]))
      /\ Deliver(inbox) /\ client' = client
  BY DEF PrompterReceives
<1>3. /\ m.kind = "ReadyReply" => m.from \in Object \cup {NoObject} /\ m.ok \in BOOLEAN
      /\ m.kind = "Perform" => m.question \in Questions
  <2>1. IsBox(outbox[c]) /\ Stamped(outbox[c]) /\ Holds(outbox[c])
    BY <1>1, LockHolds DEF Sendable, StampedAll
  <2>2. Taken(outbox[c], m, Tail(outbox[c]))
    BY <1>2, <2>1, TakenBoxes
  <2>3. QED
    BY <1>2, <2>1, <2>2, StampedTail, TakenHolds
<1>4. ASSUME P!Next, gone' = gone, \A d \in Callback : Lock(d)' PROVE Together'
  <2>1. P!Records' /\ \A d \in Callback : IsBox(sent'[d]) /\ Stamped(sent'[d])
    BY <1>4, PrompterStays
  <2>2. StampedAll'
    BY <1>1, <1>2, <2>1, StampsStay
  <2>3. QED
    BY <1>0, <1>4, <2>1, <2>2, TogetherAgain
<1>5. CASE m.kind = "Begin" /\ Prompter!BeginPrompting(c)
  <2>1. P!BeginPrompting(c)
    BY <1>5, SameBegin
  <2>2. P!Next /\ gone' = gone
    BY <1>1, <2>1, HandlersAreSteps DEF P!BeginPrompting
  <2>3. \A d \in Callback : Lock(d)'
    BY <1>2, <1>5, <2>1, BeginLocks
  <2>4. QED
    BY <1>4, <2>2, <2>3
<1>6. CASE m.kind = "Perform" /\ Prompter!PerformPrompt(c, "confirm", m.question, TRUE)
  <2>1. P!PerformPrompt(c, "confirm", m.question, TRUE)
    BY <1>6, SamePerform
  <2>2. P!Next
    BY <1>1, <1>3, <1>6, <2>1, HandlersAreSteps
  <2>3. \A d \in Callback : Lock(d)'
    BY <1>2, <1>6, <2>1, PerformIsLocked
  <2>4. gone' = gone
    BY <2>1 DEF P!PerformPrompt
  <2>5. QED
    BY <1>4, <2>2, <2>3, <2>4
<1>7. CASE m.kind = "Stop" /\ Prompter!StopPrompting(c)
  <2>1. P!StopPrompting(c)
    BY <1>7, SameStop
  <2>2. P!Next /\ gone' = gone /\ registered' = registered
    BY <1>1, <2>1, HandlersAreSteps DEF P!StopPrompting
  <2>3. Plain(m.kind)
    BY <1>7 DEF Plain
  <2>4. \A d \in Callback : Lock(d)'
    BY <1>2, <2>1, <2>2, <2>3, StopServes, ServedLocks
  <2>5. QED
    BY <1>4, <2>2, <2>4
<1>8. CASE /\ m.kind = "ReadyReply" /\ m.from # NoObject
           /\ Prompter!PromptReadyComplete(m.from, m.ok)
  <2>1. P!PromptReadyComplete(m.from, m.ok) /\ m.from \in Object /\ m.ok \in BOOLEAN
    BY <1>3, <1>8, SameReadyComplete
  <2>2. P!Next
    BY <1>1, <2>1, HandlersAreSteps
  <2>3. gone' = gone /\ registered' = registered
    BY <2>1 DEF P!PromptReadyComplete
  <2>4. Plain(m.kind)
    BY <1>8 DEF Plain
  <2>5. \A d \in Callback : Serves(d)
    BY <2>1, ReadyCompleteServes
  <2>6. \A d \in Callback : Lock(d)'
    BY <1>2, <2>3, <2>4, <2>5, ServedLocks
  <2>7. QED
    BY <1>4, <2>2, <2>3, <2>6
<1>9. CASE /\ m.kind = "ReadyReply" /\ m.from = NoObject
           /\ sent' = Prompter!Nothing
           /\ UNCHANGED <<gone, registered, callbacks, waiting, active, obj>>
  <2>1. P!Records' /\ \A d : P!Kept(d)
    BY <1>1, <1>9, RecordsUnchanged
  <2>2. \A d \in Callback : sent'[d] = <<>>
    BY <1>9 DEF Prompter!Nothing
  <2>3. \A d \in Callback : Serves(d)
    BY <2>1, <2>2, KeptServes, Deliveries
  <2>4. Plain(m.kind)
    BY <1>9 DEF Plain
  <2>5. \A d \in Callback : Lock(d)'
    BY <1>2, <1>9, <2>3, <2>4, ServedLocks
  <2>6. \A d \in Callback : IsBox(sent'[d]) /\ Stamped(sent'[d])
    BY <2>2, BoxSingle, StampedMessages
  <2>7. StampedAll'
    BY <1>1, <1>2, <2>6, StampsStay
  <2>8. QED
    BY <1>0, <1>9, <2>1, <2>5, <2>7, TogetherAgain
<1>10. QED
  BY <1>5, <1>6, <1>7, <1>8, <1>9 DEF PrompterReceives

\* A call is given up, or the user does something.
LEMMA UserTogether ==
    ASSUME Together, [Next]_protocolVars,
           \/ \E o \in Object : PromptReadyGivenUp(o) \/ UserAnswers(o)
           \/ \E c \in Callback : UserCloses(c)
    PROVE  Together'
<1>1. /\ ProtocolInv /\ Registered /\ StampedAll /\ P!Records /\ gone = {}
  BY DEF Together
<1>2. ASSUME P!Next, gone' = gone, \A d \in Callback : Lock(d)',
             \/ Deliver(inbox) /\ outbox' = outbox
             \/ \E S : Deliver(Orphaned(inbox, S)) /\ outbox' = Orphaned(outbox, S)
      PROVE  Together'
  <2>1. P!Records' /\ \A d \in Callback : IsBox(sent'[d]) /\ Stamped(sent'[d])
    BY <1>2, PrompterStays
  <2>2. StampedAll'
    BY <1>1, <1>2, <2>1, StampsStay
  <2>3. QED
    BY <1>2, <2>1, <2>2, TogetherAgain
<1>3. ASSUME NEW o \in Object, PromptReadyGivenUp(o) PROVE Together'
  <2>1. P!PromptReadyComplete(o, FALSE)
    BY <1>3, SameReadyComplete DEF PromptReadyGivenUp
  <2>2. P!Next
    BY <1>1, <2>1, HandlersAreSteps
  <2>3. gone' = gone /\ registered' = registered
    BY <2>1 DEF P!PromptReadyComplete
  <2>4. /\ Deliver(Orphaned(inbox, {o})) /\ outbox' = Orphaned(outbox, {o})
        /\ client' = client
    BY <1>3 DEF PromptReadyGivenUp
  <2>5. \A d \in Callback : Serves(d)
    BY <2>1, ReadyCompleteServes
  <2>6. ASSUME NEW d \in Callback PROVE Lock(d)'
    <3>1. /\ IsBox(sent'[d]) /\ Proper(sent'[d]) /\ None(sent'[d], Loss)
          /\ Progress(sent'[d], P!Queued(waiting, d), P!Asking(active, obj, d),
                      P!About(active, obj, d), P!Queued(waiting', d),
                      P!Asking(active', obj', d), P!About(active', obj', d))
      BY <2>5 DEF Serves, Delivery
    <3>2. registered' \in BOOLEAN /\ (registered' => registered)
      BY <1>1, <2>3 DEF Registered
    <3>3. QED
      BY <2>4, <3>1, <3>2, OrphansLock
  <2>7. QED
    BY <1>2, <2>2, <2>3, <2>4, <2>6
<1>4. ASSUME NEW o \in Object, UserAnswers(o) PROVE Together'
  <2>1. PICK r \in {"yes", "no"} : P!PromptComplete(o, r)
    BY <1>4, SameComplete DEF UserAnswers
  <2>2. P!Next
    BY <1>1, <2>1, HandlersAreSteps
  <2>3. gone' = gone /\ registered' = registered
    BY <2>1 DEF P!PromptComplete
  <2>4. Deliver(inbox) /\ outbox' = outbox /\ client' = client
    BY <1>4 DEF UserAnswers
  <2>5. \A d \in Callback : Serves(d)
    BY <2>1, CompleteServes
  <2>6. \A d \in Callback : Lock(d)'
    BY <2>3, <2>4, <2>5, DialogLocks
  <2>7. QED
    BY <1>2, <2>2, <2>3, <2>4, <2>6
<1>5. ASSUME NEW c \in Callback, UserCloses(c) PROVE Together'
  <2>1. P!PromptClosed(c) /\ Dismissable
    BY <1>5, SameClosed DEF UserCloses
  <2>2. P!Next
    BY <1>1, <2>1, HandlersAreSteps
  <2>3. gone' = gone /\ registered' = registered
    BY <2>1 DEF P!PromptClosed
  <2>4. Deliver(inbox) /\ outbox' = outbox /\ client' = client
    BY <1>5 DEF UserCloses
  <2>5. \A d \in Callback : Serves(d)
    BY <2>1, ClosedServes
  <2>6. \A d \in Callback : Lock(d)'
    BY <2>3, <2>4, <2>5, DialogLocks
  <2>7. QED
    BY <1>2, <2>2, <2>3, <2>4, <2>6
<1>6. QED
  BY <1>3, <1>4, <1>5

\* The prompter with nothing to do.
LEMMA EmptyRecords ==
    /\ P!Consistent({}, <<>>, [c \in Callback |-> NoObject], [o \in Object |-> P!Free])
    /\ P!OneActive([c \in Callback |-> NoObject])
    /\ \A d, objs : /\ ~P!Queued(<<>>, d)
                    /\ d \in Callback => ~P!Asking([c \in Callback |-> NoObject], objs, d)
<1>1. <<>> \in Seq(Callback) /\ P!Entries(<<>>) = {} /\ P!Distinct(<<>>)
  BY DEF P!Entries, P!Distinct
<1> DEFINE act == [c \in Callback |-> NoObject]
           objs == [o \in Object |-> P!Free]
<1>2. /\ act \in [Callback -> Object \cup {NoObject}]
      /\ \A c \in Callback : act[c] = NoObject
      /\ objs \in [Object -> P!ActivePrompt \cup {P!Free}]
      /\ \A o \in Object : objs[o] = P!Free
  OBVIOUS
<1> HIDE DEF act, objs
<1>3. P!Consistent({}, <<>>, act, objs)
  BY <1>1, <1>2 DEF P!Consistent
<1>4. P!OneActive(act)
  BY <1>2 DEF P!OneActive
<1>5. \A d, os : ~P!Queued(<<>>, d) /\ (d \in Callback => ~P!Asking(act, os, d))
  BY <1>1, <1>2 DEF P!Queued, P!Asking
<1>6. QED
  BY <1>3, <1>4, <1>5 DEF act, objs

\* The prompter's process ends.
LEMMA DiesTogether == ASSUME Together, PrompterDies PROVE Together'
<1>0. [Next]_protocolVars
  BY DEF Next
<1>1. /\ ProtocolInv /\ Registered /\ StampedAll /\ P!Records /\ gone = {}
  BY DEF Together
<1>2. /\ registered' = FALSE /\ callbacks' = {} /\ waiting' = <<>>
      /\ active' = [c \in Callback |-> NoObject]
      /\ Deliver(Orphaned(inbox, Object)) /\ outbox' = Orphaned(outbox, Object)
      /\ gone' = gone /\ client' = client
      /\ \A d \in Callback : sent'[d] = <<Vanished>>
  BY DEF PrompterDies
<1>3. obj' = [o \in Object |-> P!Free]
  BY DEF PrompterDies, Prompter!Free, P!Free
<1>4. P!Records'
  BY <1>1, <1>2, <1>3, EmptyRecords DEF P!Records
<1>5. ASSUME NEW d \in Callback PROVE Lock(d)' /\ IsBox(sent'[d]) /\ Stamped(sent'[d])
  <2>1. ~P!Queued(waiting', d) /\ ~P!Asking(active', obj', d)
    BY <1>2, EmptyRecords
  <2>2. /\ IsBox(<<Vanished>>) /\ Proper(<<Vanished>>)
        /\ None(<<Vanished>>, Ready) /\ None(<<Vanished>>, Answer)
        /\ None(<<Vanished>>, Calls) /\ ~None(<<Vanished>>, Relief)
    <3>1. /\ "kind" \in DOMAIN Vanished /\ Vanished.kind = "Vanished"
      BY Sayings
    <3>2. /\ Vanished.kind \notin Ready /\ Vanished.kind \notin Answer
          /\ Vanished.kind \notin Calls /\ Vanished.kind \in Relief
      BY <3>1 DEF Ready, Answer, Calls, Relief
    <3>3. QED
      BY <3>1, <3>2, SingleContents
  <2>3. Progress(sent'[d], P!Queued(waiting, d), P!Asking(active, obj, d),
                 P!About(active, obj, d), P!Queued(waiting', d),
                 P!Asking(active', obj', d), P!About(active', obj', d))
    BY <1>2, <2>1, <2>2 DEF Progress
  <2>4. Lock(d)'
    BY <1>2, <2>2, <2>3, OrphansLock
  <2>5. QED
    BY <1>2, <2>2, <2>4, StampedMessages
<1>6. StampedAll'
  BY <1>1, <1>2, <1>5, StampsStay
<1>7. QED
  BY <1>0, <1>2, <1>4, <1>5, <1>6, TogetherAgain

\* A step of a prompt.
LEMMA ClientTogether ==
    ASSUME Together, NEW c \in Callback, Client(c), Apart PROVE Together'
<1>0. [Next]_protocolVars
  BY DEF Next
<1>1. /\ ProtocolInv /\ Registered /\ StampedAll /\ P!Records
      /\ \A d \in Callback : Lock(d)
  BY DEF Together
<1>2. UNCHANGED <<gone, registered, callbacks, waiting, active, obj>>
  BY DEF Apart
<1>3. P!Records'
  BY <1>1, <1>2, RecordsUnchanged
<1>4. StampedAll'
  BY <1>1, ClientStamps
<1>5. ASSUME NEW d \in Callback PROVE Lock(d)'
  <2>1. CASE d # c
    <3>1. client'[d] = client[d] /\ inbox'[d] = inbox[d] /\ outbox'[d] = outbox[d]
      BY <1>1, <2>1, OnlyItself DEF Elsewhere
    <3>2. QED
      BY <1>1, <1>2, <3>1 DEF Lock
  <2>2. CASE d = c
    <3>1. /\ P!Queued(waiting, c) \in BOOLEAN /\ P!Asking(active, obj, c) \in BOOLEAN
          /\ registered \in BOOLEAN
      BY <1>1, Facts DEF Registered
    <3>2. Locked(client[c], inbox[c], outbox[c], P!Queued(waiting, c),
                 P!Asking(active, obj, c), P!About(active, obj, c), registered)
      BY <1>1 DEF Lock
    <3>3. Locked(client'[c], inbox'[c], outbox'[c], P!Queued(waiting, c),
                 P!Asking(active, obj, c), P!About(active, obj, c), registered)
      BY <1>1, <3>1, <3>2, ClientLocks
    <3>4. QED
      BY <1>2, <2>2, <3>3 DEF Lock
  <2>3. QED
    BY <2>1, <2>2
<1>6. QED
  BY <1>0, <1>2, <1>3, <1>4, <1>5, TogetherAgain

\* What the bus answers for a prompter that is gone.
BusReply(m) ==
    CASE m.kind = "Begin" -> <<P!BeginReply(FALSE)>>
      [] m.kind = "Perform" -> <<Vanished, P!PerformReply(FALSE)>>
      [] m.kind = "Stop" -> <<P!StopReply>>
      [] m.kind = "ReadyReply" -> <<>>

LEMMA PairJoins == ASSUME NEW a, NEW b PROVE <<a, b>> = <<a>> \o <<b>>
<1>1. <<a, b>> = Append(<<a>>, b)
  OBVIOUS
<1>2. Append(<<a>>, b) = <<a>> \o <<b>>
  <2>1. <<a>> \in Seq({a, b}) /\ b \in {a, b}
    OBVIOUS
  <2>2. QED
    BY <2>1
<1>3. QED
  BY <1>1, <1>2, Zenon

LEMMA BusRefuses ==
    LET h == <<Vanished, P!PerformReply(FALSE)>> IN
    /\ IsBox(h) /\ Proper(h) /\ Stamped(h) /\ None(h, Ready)
    /\ Few(h, Answer) /\ ~None(h, Answer) /\ Ordered(h) /\ ~Replied(h, TRUE)
<1> DEFINE a == Vanished
           b == P!PerformReply(FALSE)
           s == <<a>>
           t == <<b>>
<1>1. /\ "kind" \in DOMAIN a /\ a.kind = "Vanished"
      /\ "kind" \in DOMAIN b /\ b.kind = "PerformReply" /\ "ok" \in DOMAIN b
      /\ ~Says(b, TRUE)
  BY Sayings
<1> HIDE DEF a, b
<1>2. <<a, b>> = s \o t
  BY PairJoins
<1>3. /\ a.kind \notin Ready /\ a.kind \notin Answer /\ ~Says(a, TRUE)
      /\ b.kind \notin Ready /\ b.kind \in Answer
  BY <1>1 DEF Ready, Answer, Says
<1>4. /\ IsBox(s) /\ Proper(s) /\ None(s, Ready) /\ None(s, Answer) /\ Ordered(s)
      /\ ~Replied(s, TRUE)
  BY <1>1, <1>3, SingleContents
<1>5. /\ IsBox(t) /\ Proper(t) /\ None(t, Ready) /\ Few(t, Answer) /\ ~None(t, Answer)
      /\ Ordered(t) /\ ~Replied(t, TRUE)
  BY <1>1, <1>3, SingleContents
<1>6. Stamped(s) /\ Stamped(t)
  <2>1. Stamped(s)
    BY <1>1 DEF Stamped
  <2>2. Stamped(t)
    BY <1>1 DEF Stamped
  <2>3. QED
    BY <2>1, <2>2
<1> HIDE DEF s, t
<1>7. IsBox(s \o t) /\ Joined(s, t, s \o t) /\ Stamped(s \o t)
  BY <1>4, <1>5, <1>6, JoinedBoxes, StampedJoin
<1> DEFINE u == s \o t
<1> HIDE DEF u
<1>8. /\ Proper(u) /\ None(u, Ready) /\ Few(u, Answer) /\ ~None(u, Answer)
      /\ Ordered(u) /\ ~Replied(u, TRUE)
  BY <1>4, <1>5, <1>7 DEF Joined, u
<1>9. <<Vanished, P!PerformReply(FALSE)>> = u
  BY <1>2 DEF u, a, b
<1>10. QED
  BY <1>7, <1>8, <1>9 DEF u

\* h is an answer to m that keeps c in step.
BusFits(m, h) ==
    /\ IsBox(h) /\ Proper(h) /\ Stamped(h) /\ None(h, Ready)
    /\ m.kind = "Begin" => None(h, Answer)
    /\ m.kind = "Perform" =>
          Few(h, Answer) /\ ~None(h, Answer) /\ Ordered(h) /\ ~Replied(h, TRUE)
    /\ Plain(m.kind) => None(h, Answer) /\ None(h, Calls)

LEMMA BusReplies ==
    ASSUME NEW m, m.kind \in {"Begin", "Perform", "Stop", "ReadyReply"}
    PROVE  BusFits(m, BusReply(m))
<1>1. CASE m.kind = "Begin"
  <2> DEFINE b == P!BeginReply(FALSE)
  <2>1. BusReply(m) = <<b>>
    BY <1>1 DEF BusReply
  <2>2. "kind" \in DOMAIN b /\ b.kind = "BeginReply"
    BY Sayings
  <2>3. Plainly(<<b>>)
    BY Deliveries
  <2> HIDE DEF b
  <2>4. Stamped(<<b>>)
    BY <2>2 DEF Stamped
  <2>5. QED
    BY <1>1, <2>1, <2>3, <2>4 DEF BusFits, Plainly, Delivery, Plain
<1>2. CASE m.kind = "Perform"
  <2>1. BusReply(m) = <<Vanished, P!PerformReply(FALSE)>>
    BY <1>2 DEF BusReply
  <2>2. QED
    BY <1>2, <2>1, BusRefuses DEF BusFits, Plain
<1>3. CASE m.kind = "Stop"
  <2> DEFINE b == P!StopReply
  <2>1. BusReply(m) = <<b>>
    BY <1>3 DEF BusReply
  <2>2. "kind" \in DOMAIN b /\ b.kind = "StopReply"
    BY Sayings
  <2>3. Plainly(<<b>>)
    BY Deliveries
  <2> HIDE DEF b
  <2>4. Stamped(<<b>>)
    BY <2>2 DEF Stamped
  <2>5. QED
    BY <1>3, <2>1, <2>3, <2>4 DEF BusFits, Plainly, Delivery
<1>4. CASE m.kind = "ReadyReply"
  <2>1. BusReply(m) = <<>>
    BY <1>4 DEF BusReply
  <2>2. QED
    BY <1>4, <2>1, Deliveries, StampedMessages DEF BusFits, Plainly, Delivery
<1>5. QED
  BY <1>1, <1>2, <1>3, <1>4

\* The bus answers a message of c.
LEMMA BusAnswersTogether ==
    ASSUME Together, NEW c \in Callback, BusAnswers(c) PROVE Together'
<1> DEFINE m == Head(outbox[c])
           h == BusReply(m)
<1>0. [Next]_protocolVars
  BY DEF Next
<1>1. /\ ProtocolInv /\ Registered /\ StampedAll /\ P!Records
      /\ \A d \in Callback : Lock(d)
      /\ Sendable(inbox) /\ Sendable(outbox)
  BY DEF Together, ProtocolInv, Tables
<1>2. /\ outbox[c] # <<>> /\ ~registered
      /\ outbox' = With(outbox, c, Tail(outbox[c]))
      /\ UNCHANGED <<client, gone, registered, callbacks, waiting, active, obj>>
  BY DEF BusAnswers
<1>3. inbox' = With(inbox, c, inbox[c] \o h)
  BY DEF BusAnswers, BusReply, Prompter!BeginReply, P!BeginReply, Prompter!PerformReply,
         P!PerformReply, Prompter!StopReply, P!StopReply
<1>4. Taken(outbox[c], m, outbox'[c])
  BY <1>1, <1>2, Takes
<1>5. m.kind \in {"Begin", "Perform", "Stop", "ReadyReply"}
  <2>1. \A kind : Lacks(outbox[c], kind) => m.kind # kind
    BY <1>1, <1>2, BoxTail DEF Sendable
  <2>2. QED
    BY <1>1, <2>1 DEF ProtocolInv, Tables, Requests
<1> HIDE DEF m, h
<1>6. /\ IsBox(h) /\ Proper(h) /\ Stamped(h) /\ None(h, Ready)
      /\ m.kind = "Begin" => None(h, Answer)
      /\ m.kind = "Perform" =>
            Few(h, Answer) /\ ~None(h, Answer) /\ Ordered(h) /\ ~Replied(h, TRUE)
      /\ Plain(m.kind) => None(h, Answer) /\ None(h, Calls)
  <2>1. BusFits(m, h)
    BY <1>5, BusReplies DEF h
  <2>2. QED
    BY <2>1 DEF BusFits
<1>7. /\ inbox'[c] = inbox[c] \o h
      /\ \A d \in Callback : d # c => inbox'[d] = inbox[d] /\ outbox'[d] = outbox[d]
  BY <1>1, <1>2, <1>3 DEF With, Sendable
<1>8. P!Records'
  BY <1>1, <1>2, RecordsUnchanged
<1>9. StampedAll'
  <2>1. outbox'[c] = Tail(outbox[c])
    BY <1>1, <1>2 DEF With, Sendable
  <2>2. Stamped(outbox'[c])
    BY <1>1, <1>2, <2>1, StampedTail DEF Sendable, StampedAll
  <2>3. Stamped(inbox'[c])
    BY <1>1, <1>6, <1>7, StampedJoin DEF Sendable, StampedAll
  <2>4. QED
    BY <1>1, <1>7, <2>2, <2>3 DEF StampedAll
<1>10. ASSUME NEW d \in Callback PROVE Lock(d)'
  <2>1. CASE d # c
    BY <1>1, <1>2, <1>7, <2>1 DEF Lock
  <2>2. CASE d = c
    <3> DEFINE wait == P!Queued(waiting, c)
               ask == P!Asking(active, obj, c)
               about == P!About(active, obj, c)
    <3>1. /\ wait \in BOOLEAN /\ ask \in BOOLEAN /\ registered \in BOOLEAN
      BY <1>1, <1>2, Facts DEF Registered
    <3>2. Locked(client[c], inbox[c], outbox[c], wait, ask, about, registered)
      BY <1>1, <3>1 DEF Lock
    <3>3. Lock(d)' <=> Locked(client[c], inbox'[c], outbox'[c], wait, ask, about, registered)
      BY <1>2, <2>2, <3>1 DEF Lock
    <3> HIDE DEF wait, ask, about
    <3>4. Holds(outbox'[c])
      BY <1>1, <1>4, LockHolds, TakenHolds
    <3>5. Joined(inbox[c], h, inbox'[c])
      BY <1>1, <1>6, <1>7, JoinedBoxes DEF Sendable
    <3>6. Fed(inbox[c], h, inbox'[c], outbox'[c], registered, registered)
      BY <1>2, <1>6, <3>4, <3>5 DEF Fed, Holds
    <3>7. ClientWell(client[c])
      BY <1>1 DEF ProtocolInv
    <3>8. CASE m.kind = "Begin"
      <4>1. None(h, Answer) /\ Few(h, Ready) /\ (wait => None(h, Ready))
        BY <1>6, <3>8 DEF None, Few
      <4>2. Locked(client[c], inbox'[c], outbox'[c], wait, ask, about, registered)
        BY <1>4, <3>1, <3>2, <3>6, <3>8, <4>1, BegunLocks
      <4>3. QED
        BY <3>3, <4>2
    <3>9. CASE m.kind = "Perform"
      <4>1. PerformAnswered(registered, m, h, ask, ask, about)
        BY <1>6, <3>9 DEF PerformAnswered
      <4>2. Locked(client[c], inbox'[c], outbox'[c], wait, ask, about, registered)
        BY <1>4, <3>1, <3>2, <3>6, <3>7, <3>9, <4>1, PerformedLocks
      <4>3. QED
        BY <3>3, <4>2
    <3>10. CASE m.kind \in {"Stop", "ReadyReply"}
      <4>1. Plain(m.kind)
        BY <3>10 DEF Plain
      <4>2. Progress(h, wait, ask, about, wait, ask, about)
        BY <1>6, <4>1 DEF Progress
      <4>3. Keeps(outbox[c], outbox'[c])
        BY <1>4, <4>1, TakenKeeps
      <4>4. Locked(client[c], inbox'[c], outbox'[c], wait, ask, about, registered)
        BY <3>1, <3>2, <3>6, <4>2, <4>3, FlowLocks
      <4>5. QED
        BY <3>3, <4>4
    <3>11. QED
      BY <1>5, <3>8, <3>9, <3>10
  <2>3. QED
    BY <2>1, <2>2
<1>11. gone' = gone
  BY <1>2
<1>12. QED
  BY <1>0, <1>8, <1>9, <1>10, <1>11, TogetherAgain

LEMMA InitTogether == Init => Together
<1> SUFFICES ASSUME Init PROVE Together
  OBVIOUS
<1>1. ProtocolInv /\ Registered /\ gone = {}
  BY InitEstablishes DEF Init, Registered
<1>2. /\ callbacks = {} /\ waiting = <<>> /\ active = [c \in Callback |-> NoObject]
      /\ obj = [o \in Object |-> P!Free] /\ registered = TRUE
  BY DEF Init, Prompter!Free, P!Free
<1>3. P!Records
  BY <1>1, <1>2, EmptyRecords DEF P!Records
<1>4. \A d \in Callback : inbox[d] = <<>> /\ outbox[d] = <<>> /\ client[d] = NewClient(d)
  BY DEF Init, ClientInit
<1>5. StampedAll
  BY <1>4, StampedMessages DEF StampedAll
<1>6. ASSUME NEW d \in Callback PROVE Lock(d)
  <2> DEFINE cl == client[d]
  <2>1. /\ cl.pending = NoOp /\ cl.awaited = <<>> /\ cl.op = [k \in OpIndex |-> NewOp]
    <3>1. cl = NewClient(d)
      BY <1>4
    <3> HIDE DEF cl
    <3>2. QED
      BY <3>1 DEF NewClient
  <2> HIDE DEF cl
  <2>2. \A k \in OpIndex : cl.op[k] = NewOp
    BY <2>1
  <2>3. /\ ~NewOp.started /\ NewOp.call = "none" /\ ~NewOp.leaked /\ NewOp.idle = 0
    BY DEF NewOp
  <2>4. cl.pending \notin OpIndex /\ cl.pending \notin Questions /\ Questions \subseteq OpIndex
        /\ OpenOp \in OpIndex
    BY <2>1, Indices
  <2>5. Sane(cl)
    BY <2>2, <2>3, <2>4 DEF Sane
  <2>6. Fresh(cl) /\ ~Beginning(cl)
    BY <2>2, <2>3, <2>4 DEF Fresh, Beginning
  <2>7. Boxed(<<>>, <<>>, TRUE)
    BY SingleContents DEF Boxed
  <2>8. ~P!Queued(waiting, d) /\ ~P!Asking(active, obj, d)
    BY <1>2, EmptyRecords
  <2>9. Silence(<<>>, <<>>, FALSE, FALSE) /\ OneAnswer(<<>>, <<>>, FALSE, FALSE)
        /\ ~Outstanding(<<>>, <<>>)
    BY SingleContents DEF Silence, OneAnswer, Outstanding
  <2>10. \A about : InStep(cl, <<>>, <<>>, FALSE, FALSE, about)
    BY <2>1, <2>2, <2>3, <2>4, <2>9 DEF InStep
  <2>11. \A about : Locked(cl, <<>>, <<>>, FALSE, FALSE, about, TRUE)
    BY <2>5, <2>6, <2>7, <2>10 DEF Locked, Good
  <2>12. P!Queued(waiting, d) = FALSE /\ P!Asking(active, obj, d) = FALSE
    BY <2>8, Facts
  <2>13. QED
    BY <1>2, <1>4, <2>11, <2>12 DEF Lock, cl
<1>7. QED
  BY <1>1, <1>3, <1>5, <1>6 DEF Together

LEMMA StepTogether == Together /\ [Next]_protocolVars => Together'
<1> SUFFICES ASSUME Together, [Next]_protocolVars PROVE Together'
  OBVIOUS
<1>1. ASSUME NEW c \in Callback, PrompterReceives(c) PROVE Together'
  BY <1>1, PrompterReceivesTogether
<1>2. ASSUME NEW c \in Callback, UserCloses(c) PROVE Together'
  BY <1>2, UserTogether
<1>3. ASSUME NEW c \in Callback, BusAnswers(c) PROVE Together'
  BY <1>3, BusAnswersTogether
<1>4. ASSUME NEW o \in Object, PromptReadyGivenUp(o) \/ UserAnswers(o) PROVE Together'
  BY <1>4, UserTogether
<1>5. CASE PrompterDies
  BY <1>5, DiesTogether
<1>6. ASSUME NEW c \in Callback, Client(c) /\ Apart PROVE Together'
  BY <1>6, ClientTogether
<1>7. CASE UNCHANGED protocolVars
  <2>1. /\ UNCHANGED <<client, inbox, outbox, sent>>
        /\ UNCHANGED <<gone, registered, callbacks, waiting, active, obj>>
    BY <1>7 DEF protocolVars, clientVars, prompterVars
  <2>2. /\ StampedAll /\ P!Records /\ \A d \in Callback : Lock(d)
    BY DEF Together
  <2>3. P!Records'
    BY <2>1, <2>2, RecordsUnchanged
  <2>4. StampedAll'
    BY <2>1, <2>2 DEF StampedAll
  <2>5. \A d \in Callback : Lock(d)'
    BY <2>1, <2>2 DEF Lock
  <2>6. QED
    BY <2>1, <2>3, <2>4, <2>5, TogetherAgain
<1>8. QED
  BY <1>1, <1>2, <1>3, <1>4, <1>5, <1>6, <1>7 DEF Next

-----------------------------------------------------------------------------
(* What holds even of a prompt that was spoiled.                            *)
(*                                                                         *)
(* InStep is lost for good when PerformPrompt was cancelled or has failed:  *)
(* the caller may ask again while the prompter still works on the question  *)
(* before.  What such a prompt waits for is there all the same: Heeds says  *)
(* that a reply which accepts has the dialog, or what ends the question,    *)
(* behind it in the channel, and that a pending question which was accepted *)
(* has its own.  Once the prompter is gone that is the news of it, what     *)
(* this news has cancelled, or a leaked result that has taken the news.     *)

\* A question that was accepted has its dialog, or what ended it behind the
\* reply.
Followed(s, ask) == \A i \in DOMAIN s : Says(s[i], TRUE) =>
    ask \/ \E j \in DOMAIN s : i < j /\ s[j].kind \in Relief

LEMMA FollowedTail ==
    ASSUME NEW s, IsBox(s), s # <<>>, NEW ask \in BOOLEAN, Followed(s, ask)
    PROVE  /\ Followed(Tail(s), ask)
           /\ Says(Head(s), TRUE) => ask \/ ~None(Tail(s), Relief)
<1>1. PICK S : s \in Seq(S)
  BY DEF IsBox
<1> DEFINE t == Tail(s)
<1>2. /\ \A i \in DOMAIN t : i + 1 \in DOMAIN s /\ t[i] = s[i + 1]
      /\ \A j \in DOMAIN s : j \in Int /\ (1 < j => j - 1 \in DOMAIN t /\ t[j - 1] = s[j])
      /\ \A i \in DOMAIN t : i \in Int /\ 1 < i + 1
      /\ 1 \in DOMAIN s /\ Head(s) = s[1]
  BY <1>1
<1> HIDE DEF t
<1>3. ASSUME NEW i \in DOMAIN t, Says(t[i], TRUE), ~ask
      PROVE  \E j \in DOMAIN t : i < j /\ t[j].kind \in Relief
  <2>1. i + 1 \in DOMAIN s /\ Says(s[i + 1], TRUE)
    BY <1>2, <1>3
  <2>2. PICK j \in DOMAIN s : i + 1 < j /\ s[j].kind \in Relief
    BY <1>3, <2>1 DEF Followed
  <2>3. j - 1 \in DOMAIN t /\ t[j - 1] = s[j] /\ i < j - 1
    BY <1>2, <2>2
  <2>4. QED
    BY <2>2, <2>3
<1>4. ASSUME Says(Head(s), TRUE), ~ask PROVE ~None(t, Relief)
  <2>1. PICK j \in DOMAIN s : 1 < j /\ s[j].kind \in Relief
    BY <1>2, <1>4 DEF Followed
  <2>2. j - 1 \in DOMAIN t /\ t[j - 1] = s[j]
    BY <1>2, <2>1
  <2>3. QED
    BY <2>1, <2>2 DEF None
<1>5. QED
  BY <1>3, <1>4 DEF Followed, t

LEMMA FollowedJoin ==
    ASSUME NEW s, NEW t, IsBox(s), IsBox(t), NEW ask \in BOOLEAN, NEW ask2 \in BOOLEAN,
           Followed(s, ask), Followed(t, ask2), ask => ask2 \/ ~None(t, Relief)
    PROVE  Followed(s \o t, ask2)
<1>1. PICK S : s \in Seq(S)
  BY DEF IsBox
<1>2. PICK T : t \in Seq(T)
  BY DEF IsBox
<1>3. s \in Seq(S \cup T) /\ t \in Seq(S \cup T)
  BY <1>1, <1>2
<1> DEFINE u == s \o t
           n == Len(s)
<1>4. /\ n \in Nat
      /\ \A i \in DOMAIN u : /\ i \in Int
                             /\ \/ i \in DOMAIN s /\ u[i] = s[i]
                                \/ i - n \in DOMAIN t /\ u[i] = t[i - n] /\ n < i
      /\ \A i \in DOMAIN s : i \in DOMAIN u /\ u[i] = s[i] /\ i \in Int /\ i <= n
      /\ \A j \in DOMAIN t : j + n \in DOMAIN u /\ u[j + n] = t[j] /\ j \in Int /\ 0 < j
  BY <1>3
<1> HIDE DEF u, n
<1>5. ASSUME NEW i \in DOMAIN u, Says(u[i], TRUE), ~ask2
      PROVE  \E j \in DOMAIN u : i < j /\ u[j].kind \in Relief
  <2>1. CASE i \in DOMAIN s /\ u[i] = s[i]
    <3>1. CASE ask
      <4>1. PICK j \in DOMAIN t : t[j].kind \in Relief
        BY <1>5, <3>1 DEF None
      <4>2. j + n \in DOMAIN u /\ u[j + n] = t[j] /\ i < j + n
        BY <1>4, <2>1
      <4>3. QED
        BY <4>1, <4>2
    <3>2. CASE ~ask
      <4>1. PICK j \in DOMAIN s : i < j /\ s[j].kind \in Relief
        BY <1>5, <2>1, <3>2 DEF Followed
      <4>2. QED
        BY <1>4, <4>1
    <3>3. QED
      BY <3>1, <3>2
  <2>2. CASE i - n \in DOMAIN t /\ u[i] = t[i - n]
    <3>1. PICK j \in DOMAIN t : i - n < j /\ t[j].kind \in Relief
      BY <1>5, <2>2 DEF Followed
    <3>2. j + n \in DOMAIN u /\ u[j + n] = t[j] /\ i < j + n
      BY <1>4, <3>1
    <3>3. QED
      BY <3>1, <3>2
  <2>3. QED
    BY <1>4, <2>1, <2>2
<1>6. QED
  BY <1>5 DEF Followed, u

LEMMA FollowedOrphans ==
    ASSUME NEW f, Sendable(f), NEW S, NEW d \in Callback, Proper(f[d]), NEW ask,
           Followed(f[d], ask)
    PROVE  Followed(Orphaned(f, S)[d], ask)
<1> DEFINE s == f[d]
           t == Orphaned(f, S)[d]
<1>1. /\ DOMAIN t = DOMAIN s
      /\ \A i \in DOMAIN s : t[i] = IF "from" \in DOMAIN s[i] /\ s[i].from \in S
                                    THEN [s[i] EXCEPT !.from = NoObject] ELSE s[i]
  BY DEF Orphaned
<1>2. \A i \in DOMAIN s : "kind" \in DOMAIN s[i]
  BY DEF Sendable, IsBox
<1>3. Proper(s) /\ Followed(s, ask)
  BY DEF s
<1> HIDE DEF s, t
<1>4. \A i \in DOMAIN s :
        /\ t[i].kind = s[i].kind
        /\ "ok" \in DOMAIN s[i] => t[i].ok = s[i].ok
  BY <1>1, <1>2
<1>5. \A i \in DOMAIN s : Says(t[i], TRUE) => Says(s[i], TRUE)
  BY <1>3, <1>4 DEF Says, Proper
<1>6. Followed(t, ask)
  BY <1>1, <1>3, <1>4, <1>5 DEF Followed
<1>7. QED
  BY <1>6 DEF t

LEMMA NoWordIsFollowed ==
    ASSUME NEW s, ~Replied(s, TRUE) \/ None(s, Answer), NEW ask PROVE Followed(s, ask)
BY DEF Replied, None, Says, Answer, Followed

\* The pending question has not been answered, and once it was accepted its
\* result has the source that completes it when it is cancelled.
Undecided(cl) == LET o == cl.op[cl.pending] IN
    cl.exported /\ o.started /\ o.completions = 0 /\ (o.call = "none" => o.waiting)

\* Once accepted it has the dialog, or what ends it on its way, or it was told
\* that the prompter is gone, unless a leaked result took that news.
Heard(cl, in, ask, there) == LET o == cl.op[cl.pending] IN
    o.call = "none" => \/ ask \/ ~None(in, Relief)
                       \/ ~there /\ (o.cancelled \/ (Leaked(cl) /\ ~cl.owner))

\* What holds of every prompt, spoiled or not.
Heeds(cl, in, ask, there) ==
    \/ cl.closed
    \/ /\ \A k \in OpIndex : cl.op[k].idle = 0
       /\ Followed(in, ask)
       /\ cl.pending \in Questions => Undecided(cl) /\ Heard(cl, in, ask, there)

\* d waits for what cl did, or for nothing.
Attends(cl, d) ==
    /\ cl.closed => d.closed
    /\ \A k \in OpIndex : d.op[k].idle = cl.op[k].idle
    /\ d.pending \in Questions =>
          LET o == cl.op[d.pending]
              p == d.op[d.pending]
          IN  /\ d.pending = cl.pending /\ d.exported = cl.exported /\ d.owner = cl.owner
              /\ Leaked(cl) => Leaked(d)
              /\ p.started = o.started /\ p.completions = o.completions
              /\ p.call = o.call /\ p.waiting = o.waiting /\ (o.cancelled => p.cancelled)

LEMMA AttendsHeeds ==
    ASSUME NEW cl, NEW d, Attends(cl, d), NEW in, NEW in2, NEW ask \in BOOLEAN,
           NEW there \in BOOLEAN, Heeds(cl, in, ask, there), Followed(in, ask) => Followed(in2, ask),
           d.pending \in Questions => (None(in2, Relief) => None(in, Relief))
    PROVE  Heeds(d, in2, ask, there)
<1>1. CASE cl.closed
  BY <1>1 DEF Heeds, Attends
<1>2. CASE ~cl.closed
  <2>1. /\ \A k \in OpIndex : d.op[k].idle = 0
        /\ Followed(in2, ask)
    BY <1>2 DEF Heeds, Attends
  <2>2. ASSUME d.pending \in Questions
        PROVE  Undecided(d) /\ Heard(d, in2, ask, there)
    <3>1. cl.pending = d.pending /\ Undecided(cl) /\ Heard(cl, in, ask, there)
      BY <1>2, <2>2 DEF Heeds, Attends
    <3>2. QED
      BY <2>2, <3>1 DEF Attends, Undecided, Heard
  <2>3. QED
    BY <2>1, <2>2 DEF Heeds
<1>3. QED
  BY <1>1, <1>2

\* The message taken, and what is left to follow.
LEMMA ReadsOn ==
    ASSUME ProtocolInv, NEW c \in Callback, inbox[c] # <<>>, Receive(c), NEW ask \in BOOLEAN,
           Followed(inbox[c], ask)
    PROVE  /\ Followed(inbox'[c], ask)
           /\ Says(Head(inbox[c]), TRUE) => ask \/ ~None(inbox'[c], Relief)
<1>1. inbox'[c] = Tail(inbox[c]) /\ IsBox(inbox[c])
  BY DEF ProtocolInv, Tables, Sendable, Receive, With
<1>2. QED
  BY <1>1, FollowedTail

\* What the handlers are made of leaves the scheduled completions.
SameIdle(cl, d) == \A j \in OpIndex : d.op[j].idle = cl.op[j].idle

LEMMA PutIdle ==
    ASSUME NEW cl, Shape(cl), NEW k, NEW o,
           k \in OpIndex => OpShape(o) /\ o.idle = cl.op[k].idle
    PROVE  SameIdle(cl, Put(cl, k, o)) /\ Put(cl, k, o).pending = cl.pending
           /\ Shape(Put(cl, k, o))
<1>1. LET d == Put(cl, k, o) IN
      /\ Shape(d)
      /\ k \in OpIndex => d.op[k] = o
      /\ \A j \in OpIndex : j # k => d.op[j] = cl.op[j]
      /\ \A n \in ClientFields : n # "op" => d[n] = cl[n]
  BY PutFields
<1>2. QED
  BY <1>1 DEF SameIdle, ClientFields

LEMMA CompleteIdle ==
    ASSUME NEW cl, Shape(cl), NEW k, k \in OpIndex \/ k # OpenOp
    PROVE  SameIdle(cl, Complete(cl, k)) /\ Complete(cl, k).pending = cl.pending
<1>1. CASE k \in OpIndex
  BY <1>1, CompleteCompletes DEF Completes, Only, SameIdle
<1>2. CASE k \notin OpIndex
  <2>1. PICK p : Complete(cl, k) = Put(cl, k, p)
    BY <1>2 DEF Complete
  <2>2. QED
    BY <1>2, <2>1, PutIdle
<1>3. QED
  BY <1>1, <1>2

LEMMA FailPerformIdle ==
    ASSUME NEW cl, Shape(cl), NEW k, NEW error
    PROVE  LET d == FailPerform(cl, k, error) IN SameIdle(cl, d) /\ d.pending = NoOp
<1> DEFINE o == [cl.op[k] EXCEPT !.call = "none", !.error = error]
           d1 == Put(cl, k, o)
           d2 == [d1 EXCEPT !.pending = NoOp]
           p == cl.pending
           d3 == Leak(d2, p)
           d == Complete(d3, k)
<1>1. FailPerform(cl, k, error) = d
  BY DEF FailPerform
<1>2. k \in OpIndex => OpShape(o) /\ o.idle = cl.op[k].idle
  BY DEF Shape, OpShape, OpFields
<1> HIDE DEF o
<1>3. Shape(d1) /\ SameIdle(cl, d1)
  BY <1>2, PutIdle
<1> HIDE DEF d1
<1>4. Shape(d2) /\ d2.op = d1.op /\ d2.pending = NoOp
  BY <1>3 DEF Shape, ClientFields
<1>5. SameIdle(cl, d2)
  BY <1>3, <1>4 DEF SameIdle
<1> HIDE DEF d2
<1>6. Shape(d3) /\ SameIdle(cl, d3) /\ d3.pending = NoOp
  <2>1. CASE p = NoOp
    BY <1>4, <1>5, <2>1 DEF Leak
  <2>2. CASE p # NoOp
    <3> DEFINE q == [d2.op[p] EXCEPT !.leaked = TRUE]
    <3>1. p \in OpIndex
      BY <2>2 DEF Shape
    <3>2. OpShape(q) /\ q.idle = d2.op[p].idle
      BY <1>4, <3>1 DEF Shape, OpShape, OpFields
    <3>3. d3 = Put(d2, p, q)
      BY <2>2 DEF Leak
    <3> HIDE DEF q, d3
    <3>4. Shape(d3) /\ SameIdle(d2, d3) /\ d3.pending = NoOp
      BY <1>4, <3>2, <3>3, PutIdle
    <3>5. QED
      BY <1>5, <3>4 DEF SameIdle
  <2>3. QED
    BY <2>1, <2>2
<1> HIDE DEF d3
<1>7. k \in OpIndex \/ k # OpenOp
  BY Indices
<1>8. SameIdle(d3, d) /\ d.pending = NoOp
  BY <1>6, <1>7, CompleteIdle
<1>9. QED
  BY <1>1, <1>6, <1>8 DEF SameIdle

\* A prompt that is closed, or has no question pending any more.
LEMMA RestsHeeding ==
    ASSUME NEW cl, NEW d, NEW in, NEW in2, NEW ask \in BOOLEAN, NEW there \in BOOLEAN,
           Heeds(cl, in, ask, there), Followed(in, ask) => Followed(in2, ask),
           cl.closed => d.closed,
           d.closed \/ (d.pending \notin Questions /\ SameIdle(cl, d))
    PROVE  Heeds(d, in2, ask, there)
BY DEF Heeds, SameIdle

\* perform_close, after which nothing is asked of the prompt.
LEMMA ClosersHeed ==
    ASSUME ProtocolInv, NEW c \in Callback,
           \/ RealClose(c) \/ CloseAsync(c) \/ TimeoutFires(c)
           \/ \E k \in OpIndex : WaitingFires(c, k)
    PROVE  client'[c].closed
<1> DEFINE cl == client[c]
<1>1. Shape(cl) /\ OpenOp \in OpIndex
  BY Indices DEF ProtocolInv, ClientWell
<1>2. CASE RealClose(c)
  <2>1. PerformClose(cl).closed
    BY <1>1, PerformCloseFollows
  <2>2. QED
    BY <1>2, <2>1, Becomes DEF RealClose
<1>3. CASE CloseAsync(c)
  <2> DEFINE e == PerformClose(cl)
  <2>1. Shape(e) /\ e.closed
    BY <1>1, PerformCloseFollows
  <2>2. PICK v : Become(c, [e EXCEPT !.closing = v])
    BY <1>3 DEF CloseAsync
  <2> DEFINE d == [e EXCEPT !.closing = v]
  <2> HIDE DEF e
  <2>3. d.closed
    BY <2>1 DEF Shape, ClientFields
  <2>4. QED
    BY <2>2, <2>3, Becomes
<1>4. ASSUME NEW k \in OpIndex, WaitingFires(c, k) PROVE cl'.closed
  <2> DEFINE p == [cl.op[k] EXCEPT !.waiting = FALSE, !.error = "cancelled"]
             e == Put(cl, k, p)
             d == PerformClose(e)
  <2>1. OpShape(p)
    BY <1>1 DEF Shape, OpShape, OpFields
  <2> HIDE DEF p
  <2>2. Shape(e)
    BY <1>1, <2>1, PutFields
  <2>3. Become(c, d)
    BY <1>4 DEF WaitingFires, p
  <2> HIDE DEF e
  <2>4. d.closed
    BY <2>2, PerformCloseFollows
  <2>5. QED
    BY <2>3, <2>4, Becomes
<1>5. CASE TimeoutFires(c)
  <2> DEFINE p == [cl.op[OpenOp] EXCEPT !.timeout = FALSE]
             e == Put(cl, OpenOp, p)
             d == PerformClose(e)
             q == [d.op[OpenOp] EXCEPT !.error = "in-progress"]
             f == Put(d, OpenOp, q)
             g == Complete(f, OpenOp)
  <2>1. Become(c, g)
    BY <1>5 DEF TimeoutFires
  <2>2. OpShape(p)
    BY <1>1 DEF Shape, OpShape, OpFields
  <2> HIDE DEF p
  <2>3. Shape(e)
    BY <1>1, <2>2, PutFields
  <2> HIDE DEF e
  <2>4. Shape(d) /\ d.closed
    BY <2>3, PerformCloseFollows
  <2> HIDE DEF d
  <2>5. OpShape(q)
    BY <1>1, <2>4 DEF Shape, OpShape, OpFields
  <2> HIDE DEF q
  <2>6. Shape(f) /\ f.closed
    BY <1>1, <2>4, <2>5, PutFields DEF ClientFields
  <2> HIDE DEF f
  <2>7. g.closed
    BY <1>1, <2>6, CompleteCompletes DEF Completes, Follows
  <2>8. QED
    BY <2>1, <2>7, Becomes
<1>6. QED
  BY <1>2, <1>3, <1>4, <1>5

LEMMA ClosedHeeds == ASSUME NEW cl, cl.closed PROVE \A in, ask, there : Heeds(cl, in, ask, there)
BY DEF Heeds

\* gcr_system_prompt_open_async.
LEMMA OpenHeeds ==
    ASSUME ProtocolInv, NEW c \in Callback, Open(c), NEW ask \in BOOLEAN,
           NEW there \in BOOLEAN, Heeds(client[c], inbox[c], ask, there)
    PROVE  Heeds(client'[c], inbox'[c], ask, there)
<1> DEFINE cl == client[c]
           o == [NewOp EXCEPT !.started = TRUE, !.call = "connect"]
           d == Put(cl, OpenOp, o)
<1>1. Become(c, d) /\ inbox' = inbox /\ ~cl.op[OpenOp].started
  BY DEF Open
<1>2. Shape(cl) /\ Unopened(cl)
  BY <1>1 DEF ProtocolInv, ClientWell, Fresh
<1>3. OpShape(o) /\ o.idle = 0
  BY DEF NewOp, OpShape, OpFields
<1> HIDE DEF o
<1>4. SameIdle(cl, d) /\ d.pending = cl.pending
  BY <1>2, <1>3, PutIdle DEF Unopened
<1> HIDE DEF d
<1>5. d.pending \notin Questions /\ ~cl.closed
  BY <1>2, <1>4, Indices DEF Unopened
<1>6. client'[c] = d
  BY <1>1, Becomes
<1>7. QED
  BY <1>1, <1>4, <1>5, <1>6, RestsHeeding

\* perform_prompt_async: the question is still to be accepted.
LEMMA PerformHeeds ==
    ASSUME ProtocolInv, NEW c \in Callback, NEW k \in Questions, NEW b \in BOOLEAN,
           PerformPromptAsync(c, k, b), NEW ask \in BOOLEAN, NEW there \in BOOLEAN,
           Heeds(client[c], inbox[c], ask, there)
    PROVE  Heeds(client'[c], inbox'[c], ask, there)
<1> DEFINE cl == client[c]
           o == [NewOp EXCEPT !.started = TRUE, !.userCancelled = b, !.cancelled = b]
<1>1. Shape(cl) /\ inbox' = inbox
  BY DEF ProtocolInv, ClientWell, PerformPromptAsync
<1>2. CASE cl.closed
  <2> DEFINE p == [o EXCEPT !.idle = 1]
             e == Put(cl, k, p)
             d == [e EXCEPT !.last = "none"]
  <2>1. Become(c, d)
    BY <1>2 DEF PerformPromptAsync
  <2>2. OpShape(p)
    BY DEF NewOp, OpShape, OpFields
  <2> HIDE DEF p
  <2>3. Shape(e) /\ e.closed
    BY <1>1, <1>2, <2>2, PutFields DEF ClientFields
  <2> HIDE DEF e
  <2>4. d.closed
    BY <2>3 DEF Shape, ClientFields
  <2>5. QED
    BY <2>1, <2>4, Becomes, ClosedHeeds
<1>3. CASE ~cl.closed
  <2> DEFINE p == [o EXCEPT !.call = "perform"]
             e == Put(cl, k, p)
             w == IF b THEN e.awaited ELSE Append(e.awaited, k)
             d == [e EXCEPT !.pending = k, !.exported = TRUE, !.awaited = w]
  <2>1. Become(c, d)
    BY <1>3 DEF PerformPromptAsync
  <2>2. /\ OpShape(p) /\ p.started = TRUE /\ p.call = "perform" /\ p.completions = 0
        /\ p.idle = 0
    BY DEF NewOp, OpShape, OpFields
  <2> HIDE DEF p
  <2>3. /\ Shape(e) /\ e.op[k] = p
        /\ \A j \in OpIndex : j # k => e.op[j] = cl.op[j]
    BY <1>1, <2>2, PutFields, Indices
  <2> HIDE DEF e, w
  <2>4. d.op = e.op /\ d.pending = k /\ d.exported = TRUE
    BY <2>3 DEF Shape, ClientFields
  <2> HIDE DEF d
  <2>5. (\A j \in OpIndex : cl.op[j].idle = 0) /\ Followed(inbox[c], ask)
    BY <1>3 DEF Heeds
  <2>6. \A j \in OpIndex : d.op[j].idle = 0
    BY <2>2, <2>3, <2>4, <2>5
  <2>7. Undecided(d) /\ Heard(d, inbox[c], ask, there)
    BY <2>2, <2>3, <2>4 DEF Undecided, Heard
  <2>8. client'[c] = d
    BY <2>1, Becomes
  <2>9. QED
    BY <1>1, <2>5, <2>6, <2>7, <2>8 DEF Heeds
<1>4. QED
  BY <1>2, <1>3

\* g_cancellable_cancel.
LEMMA CancelHeeds ==
    ASSUME ProtocolInv, NEW c \in Callback, NEW k \in OpIndex, Cancel(c, k),
           NEW ask \in BOOLEAN, NEW there \in BOOLEAN, Heeds(client[c], inbox[c], ask, there)
    PROVE  Heeds(client'[c], inbox'[c], ask, there)
<1> DEFINE cl == client[c]
           p == [cl.op[k] EXCEPT !.userCancelled = TRUE, !.cancelled = TRUE]
           d == Put(cl, k, p)
<1>1. Become(c, d) /\ inbox' = inbox
  BY DEF Cancel
<1>2. Shape(cl)
  BY DEF ProtocolInv, ClientWell
<1>3. /\ OpShape(p) /\ p.call = cl.op[k].call /\ p.idle = cl.op[k].idle
      /\ p.started = cl.op[k].started /\ p.completions = cl.op[k].completions
      /\ p.leaked = cl.op[k].leaked /\ p.waiting = cl.op[k].waiting /\ p.cancelled = TRUE
  BY <1>2 DEF Shape, OpShape, OpFields
<1> HIDE DEF p
<1>4. /\ d.op[k] = p
      /\ \A j \in OpIndex : j # k => d.op[j] = cl.op[j]
      /\ \A n \in ClientFields : n # "op" => d[n] = cl[n]
  BY <1>2, <1>3, PutFields
<1> HIDE DEF d
<1>5. /\ d.pending = cl.pending /\ d.owner = cl.owner /\ d.exported = cl.exported
      /\ d.closed = cl.closed
  BY <1>4 DEF ClientFields
<1>6. \A j \in OpIndex :
         /\ d.op[j].call = cl.op[j].call /\ d.op[j].idle = cl.op[j].idle
         /\ d.op[j].started = cl.op[j].started /\ d.op[j].waiting = cl.op[j].waiting
         /\ d.op[j].completions = cl.op[j].completions
         /\ d.op[j].leaked = cl.op[j].leaked
         /\ cl.op[j].cancelled => d.op[j].cancelled
  BY <1>3, <1>4
<1>7. Attends(cl, d)
  BY <1>5, <1>6, Indices DEF Attends, Leaked
<1>8. client'[c] = d
  BY <1>1, Becomes
<1>9. QED
  BY <1>1, <1>7, <1>8, AttendsHeeds

\* on_prompter_stop_prompting, and closing that completes.
LEMMA ClosingHeeds ==
    ASSUME ProtocolInv, NEW c \in Callback, ReceiveStopReply(c) \/ CloseIdleFires(c),
           NEW ask \in BOOLEAN, NEW there \in BOOLEAN, Heeds(client[c], inbox[c], ask, there),
           NEW out, Boxed(inbox[c], out, there)
    PROVE  Heeds(client'[c], inbox'[c], ask, there)
<1> DEFINE cl == client[c]
<1>1. PICK v : Become(c, [cl EXCEPT !.closing = v])
  BY DEF ReceiveStopReply, CloseIdleFires
<1> DEFINE d == [cl EXCEPT !.closing = v]
<1>2. Shape(cl)
  BY DEF ProtocolInv, ClientWell
<1>3. /\ d.op = cl.op /\ d.closed = cl.closed /\ d.exported = cl.exported
      /\ d.pending = cl.pending /\ d.owner = cl.owner
  BY <1>2 DEF Shape, ClientFields
<1>4. client'[c] = d
  BY <1>1, Becomes
<1> HIDE DEF d
<1>5. Attends(cl, d)
  BY <1>3, Indices DEF Attends, Leaked
<1>6. CASE CloseIdleFires(c)
  <2>1. inbox'[c] = inbox[c]
    BY <1>6 DEF CloseIdleFires
  <2>2. QED
    BY <1>4, <1>5, <2>1, AttendsHeeds
<1>7. CASE ReceiveStopReply(c)
  <2> DEFINE m == Head(inbox[c])
  <2>1. inbox[c] # <<>> /\ m.kind = "StopReply" /\ Receive(c)
    BY <1>7 DEF ReceiveStopReply, Got
  <2>2. Taken(inbox[c], m, inbox'[c])
    BY <2>1, Reads
  <2>3. Followed(inbox[c], ask) => Followed(inbox'[c], ask)
    BY <2>1, ReadsOn
  <2> HIDE DEF m
  <2>4. None(inbox'[c], Relief) => None(inbox[c], Relief)
    BY <2>1, <2>2 DEF Taken, Relief
  <2>5. QED
    BY <1>4, <1>5, <2>3, <2>4, AttendsHeeds
<1>8. QED
  BY <1>6, <1>7

\* A call that is cancelled.
LEMMA CallCancelledHeeds ==
    ASSUME ProtocolInv, NEW c \in Callback, NEW k \in OpIndex, CallCancelled(c, k),
           Sane(client[c]), NEW ask \in BOOLEAN, NEW there \in BOOLEAN,
           Heeds(client[c], inbox[c], ask, there)
    PROVE  Heeds(client'[c], inbox'[c], ask, there)
<1> DEFINE cl == client[c]
           o == cl.op[k]
<1>1. Shape(cl) /\ inbox' = inbox
  BY DEF ProtocolInv, ClientWell, CallCancelled
<1>2. CASE /\ o.call = "begin"
           /\ Become(c, Complete(Put(cl, k, [o EXCEPT !.call = "none",
                                                     !.error = "cancelled"]), k))
  <2>1. k = OpenOp
    BY <1>2, Indices DEF Sane
  <2> DEFINE d == Complete(Put(cl, OpenOp, [cl.op[OpenOp] EXCEPT !.call = "none",
                                              !.error = "cancelled"]), OpenOp)
  <2>2. d.closed
    BY <1>1, OpeningFailsFollows
  <2>3. Become(c, d)
    BY <1>2, <2>1
  <2> HIDE DEF d
  <2>4. QED
    BY <2>2, <2>3, Becomes, ClosedHeeds
<1>3. CASE Become(c, FailPerform(cl, k, "cancelled"))
  <2> DEFINE d == FailPerform(cl, k, "cancelled")
  <2>1. SameIdle(cl, d) /\ d.pending = NoOp /\ Follows(cl, d)
    BY <1>1, FailPerformIdle, FailPerformFollows
  <2>2. client'[c] = d
    BY <1>3, Becomes
  <2> HIDE DEF d
  <2>3. d.pending \notin Questions /\ (cl.closed => d.closed)
    BY <2>1, Indices DEF Follows
  <2>4. QED
    BY <1>1, <2>1, <2>2, <2>3, RestsHeeding
<1>4. QED
  BY <1>2, <1>3 DEF CallCancelled

\* Nothing is completed from an idle callback but for what was closed.
LEMMA IdleHeeds ==
    ASSUME ProtocolInv, NEW c \in Callback, NEW k \in OpIndex, IdleFires(c, k),
           NEW ask \in BOOLEAN, NEW there \in BOOLEAN, Heeds(client[c], inbox[c], ask, there)
    PROVE  Heeds(client'[c], inbox'[c], ask, there)
<1> DEFINE cl == client[c]
           p == [cl.op[k] EXCEPT !.idle = @ - 1]
           e == Put(cl, k, p)
           d == Complete(e, k)
<1>1. Shape(cl) /\ cl.op[k].idle > 0 /\ Become(c, d)
  BY DEF ProtocolInv, ClientWell, IdleFires
<1>2. cl.closed
  BY <1>1 DEF Heeds
<1>3. OpFollows(cl.op[k], p)
  BY <1>1 DEF Shape, OpShape, OpFields, OpFollows
<1> HIDE DEF p
<1>4. Shape(e) /\ Follows(cl, e)
  BY <1>1, <1>3, PutFollows
<1> HIDE DEF e
<1>5. Follows(cl, d)
  BY <1>4, CompleteCompletes, FollowsTrans DEF Completes
<1> HIDE DEF d
<1>6. client'[c].closed
  BY <1>1, <1>2, <1>5, Becomes DEF Follows
<1>7. QED
  BY <1>6, ClosedHeeds

\* What is taken is neither a reply nor what ends a question.
LEMMA ReadsQuietly ==
    ASSUME ProtocolInv, NEW c \in Callback, inbox[c] # <<>>, Receive(c),
           Head(inbox[c]).kind \notin Relief, NEW out, NEW there \in BOOLEAN,
           Boxed(inbox[c], out, there)
    PROVE  None(inbox'[c], Relief) => None(inbox[c], Relief)
<1>1. Taken(inbox[c], Head(inbox[c]), inbox'[c])
  BY Reads
<1>2. QED
  BY <1>1 DEF Taken

\* on_bus_connected.
LEMMA BusConnectedHeeds ==
    ASSUME ProtocolInv, NEW c \in Callback, NEW ok \in BOOLEAN, NEW present,
           BusConnected(c, ok, present), NEW ask \in BOOLEAN, NEW there \in BOOLEAN,
           Heeds(client[c], inbox[c], ask, there)
    PROVE  Heeds(client'[c], inbox'[c], ask, there)
<1> DEFINE cl == client[c]
           o == cl.op[OpenOp]
<1>1. /\ Shape(cl) /\ Unopened(cl) /\ inbox' = inbox /\ OpenOp \in OpIndex
  BY Indices DEF ProtocolInv, ClientWell, BusConnected, Fresh
<1>2. ASSUME NEW error, error # "none",
             Become(c, Complete(Put(cl, OpenOp, [cl.op[OpenOp] EXCEPT !.call = "none",
                                      !.error = error]), OpenOp))
      PROVE  client'[c].closed
  <2> DEFINE d == Complete(Put(cl, OpenOp, [cl.op[OpenOp] EXCEPT !.call = "none",
                                              !.error = error]), OpenOp)
  <2>1. d.closed
    BY <1>1, <1>2, OpeningFailsFollows
  <2>2. Become(c, d)
    BY <1>2
  <2> HIDE DEF d
  <2>3. QED
    BY <2>1, <2>2, Becomes
<1>3. CASE \E error : /\ error # "none"
                      /\ Become(c, Complete(Put(cl, OpenOp, [o EXCEPT !.call = "none",
                                               !.error = error]), OpenOp))
  <2>1. client'[c].closed
    BY <1>2, <1>3
  <2>2. QED
    BY <2>1, ClosedHeeds
<1>4. CASE Become(c, [Put(cl, OpenOp, [o EXCEPT !.call = "begin"])
                           EXCEPT !.exported = TRUE, !.owner = present])
  <2> DEFINE p == [o EXCEPT !.call = "begin"]
             e == Put(cl, OpenOp, p)
             d == [e EXCEPT !.exported = TRUE, !.owner = present]
  <2>1. OpShape(p) /\ p.idle = o.idle
    BY <1>1 DEF Shape, OpShape, OpFields
  <2>2. Become(c, d)
    BY <1>4
  <2> HIDE DEF p
  <2>3. Shape(e) /\ SameIdle(cl, e) /\ e.pending = cl.pending
    BY <1>1, <2>1, PutIdle
  <2> HIDE DEF e
  <2>4. d.op = e.op /\ d.pending = e.pending
    BY <2>3 DEF Shape, ClientFields
  <2>5. d.pending \notin Questions /\ SameIdle(cl, d) /\ ~cl.closed
    BY <1>1, <2>3, <2>4, Indices DEF Unopened, SameIdle
  <2>6. client'[c] = d
    BY <2>2, Becomes
  <2> HIDE DEF d
  <2>7. QED
    BY <1>1, <2>5, <2>6 DEF Heeds, SameIdle
<1>5. QED
  <2>1. CASE /\ o.cancelled \/ ~ok
             /\ Become(c, Complete(Put(cl, OpenOp, [o EXCEPT !.call = "none",
                          !.error = IF o.cancelled THEN "cancelled" ELSE "failed"]),
                        OpenOp))
    <3>1. (IF o.cancelled THEN "cancelled" ELSE "failed") # "none"
      OBVIOUS
    <3>2. QED
      BY <1>3, <2>1, <3>1
  <2>2. QED
    BY <1>4, <2>1 DEF BusConnected

\* on_prompter_begin_prompting.
LEMMA BeginReplyHeeds ==
    ASSUME ProtocolInv, NEW c \in Callback, ReceiveBeginReply(c),
           NEW ask \in BOOLEAN, NEW there \in BOOLEAN, Heeds(client[c], inbox[c], ask, there),
           NEW out, Boxed(inbox[c], out, there)
    PROVE  Heeds(client'[c], inbox'[c], ask, there)
<1> DEFINE cl == client[c]
           o == cl.op[OpenOp]
           m == Head(inbox[c])
<1>1. /\ Shape(cl) /\ OpenOp \in OpIndex
      /\ inbox[c] # <<>> /\ m.kind = "BeginReply" /\ Receive(c)
      /\ o.call = "begin" => Unopened(cl)
  BY Indices DEF ProtocolInv, ClientWell, ReceiveBeginReply, Got, Beginning
<1>2. Followed(inbox[c], ask) => Followed(inbox'[c], ask)
  BY <1>1, ReadsOn
<1>3. None(inbox'[c], Relief) => None(inbox[c], Relief)
  BY <1>1, ReadsQuietly DEF Relief
<1>4. \/ o.call = "begin" /\ Become(c, [Put(cl, OpenOp, [o EXCEPT !.call = "none",
                                 !.waiting = TRUE, !.timeout = c \in Impatient])
                           EXCEPT !.begun = TRUE, !.pending = OpenOp])
      \/ \E error : /\ error # "none"
                    /\ Become(c, Complete(Put(cl, OpenOp, [o EXCEPT !.call = "none",
                                             !.error = error]), OpenOp))
      \/ o.call # "begin" /\ client' = client
  BY DEF ReceiveBeginReply
<1> HIDE DEF m
<1>5. CASE o.call = "begin" /\ Become(c, [Put(cl, OpenOp, [o EXCEPT !.call = "none",
                                 !.waiting = TRUE, !.timeout = c \in Impatient])
                           EXCEPT !.begun = TRUE, !.pending = OpenOp])
  <2> DEFINE p == [o EXCEPT !.call = "none", !.waiting = TRUE, !.timeout = c \in Impatient]
             e == Put(cl, OpenOp, p)
             d == [e EXCEPT !.begun = TRUE, !.pending = OpenOp]
  <2>1. OpShape(p) /\ p.idle = o.idle
    BY <1>1 DEF Shape, OpShape, OpFields
  <2>2. Become(c, d)
    BY <1>5
  <2> HIDE DEF p
  <2>3. Shape(e) /\ SameIdle(cl, e)
    BY <1>1, <2>1, PutIdle
  <2> HIDE DEF e
  <2>4. d.op = e.op /\ d.pending = OpenOp
    BY <2>3 DEF Shape, ClientFields
  <2>5. d.pending \notin Questions /\ SameIdle(cl, d) /\ ~cl.closed
    BY <1>1, <1>5, <2>3, <2>4, Indices DEF Unopened, SameIdle
  <2>6. client'[c] = d
    BY <2>2, Becomes
  <2> HIDE DEF d
  <2>7. QED
    BY <1>2, <2>5, <2>6 DEF Heeds, SameIdle
<1>6. ASSUME NEW error, error # "none",
             Become(c, Complete(Put(cl, OpenOp, [cl.op[OpenOp] EXCEPT !.call = "none",
                                      !.error = error]), OpenOp))
      PROVE  Heeds(client'[c], inbox'[c], ask, there)
  <2> DEFINE d == Complete(Put(cl, OpenOp, [cl.op[OpenOp] EXCEPT !.call = "none",
                                              !.error = error]), OpenOp)
  <2>1. d.closed
    BY <1>1, <1>6, OpeningFailsFollows
  <2>2. Become(c, d)
    BY <1>6
  <2> HIDE DEF d
  <2>3. QED
    BY <2>1, <2>2, Becomes, ClosedHeeds
<1>7. CASE client' = client
  <2>1. Attends(cl, cl)
    BY DEF Attends
  <2>2. QED
    BY <1>2, <1>3, <1>7, <2>1, AttendsHeeds
<1>8. QED
  BY <1>4, <1>5, <1>6, <1>7

\* prompt_method_ready.
LEMMA ReadyHeeds ==
    ASSUME ProtocolInv, NEW c \in Callback, ReceivePromptReady(c),
           NEW ask \in BOOLEAN, NEW there \in BOOLEAN, Heeds(client[c], inbox[c], ask, there)
    PROVE  Heeds(client'[c], inbox'[c], ask, there)
<1> DEFINE cl == client[c]
           m == Head(inbox[c])
<1>1. Shape(cl) /\ inbox[c] # <<>> /\ Receive(c)
  BY DEF ProtocolInv, ClientWell, ReceivePromptReady, Got
<1>2. Followed(inbox[c], ask) => Followed(inbox'[c], ask)
  BY <1>1, ReadsOn
<1>3. \/ /\ client' = client
         /\ ~cl.exported \/ ~Serving(cl) \/ cl.pending = NoOp
      \/ /\ cl.pending # NoOp
         /\ \E r, q : Become(c, Complete([cl EXCEPT !.last = r, !.lastQuestion = q,
                                                    !.pending = NoOp], cl.pending))
  BY DEF ReceivePromptReady
<1>4. CASE cl.closed /\ client' = client
  BY <1>4, ClosedHeeds
<1>5. CASE /\ client' = client /\ ~cl.closed
           /\ ~cl.exported \/ ~Serving(cl) \/ cl.pending = NoOp
  <2>1. ASSUME cl.pending \in Questions PROVE FALSE
    <3>1. Undecided(cl) /\ cl.pending \in OpIndex /\ cl.pending # NoOp
      BY <1>5, <2>1, Indices DEF Heeds
    <3>2. QED
      BY <1>5, <3>1 DEF Undecided, Serving, Blocked
  <2>2. SameIdle(cl, cl)
    BY DEF SameIdle
  <2>3. QED
    BY <1>2, <1>5, <2>1, <2>2, RestsHeeding
<1>6. CASE /\ cl.pending # NoOp
           /\ \E r, q : Become(c, Complete([cl EXCEPT !.last = r, !.lastQuestion = q,
                                                      !.pending = NoOp], cl.pending))
  <2>1. PICK r, q : Become(c, Complete([cl EXCEPT !.last = r, !.lastQuestion = q,
                                                  !.pending = NoOp], cl.pending))
    BY <1>6
  <2> DEFINE k == cl.pending
             e == [cl EXCEPT !.last = r, !.lastQuestion = q, !.pending = NoOp]
             d == Complete(e, k)
  <2>2. k \in OpIndex
    BY <1>1, <1>6 DEF Shape
  <2>3. Shape(e) /\ e.op = cl.op /\ e.pending = NoOp /\ e.closed = cl.closed
    BY <1>1 DEF Shape, ClientFields
  <2>4. Become(c, d)
    BY <2>1
  <2> HIDE DEF e, k
  <2>5. SameIdle(e, d) /\ d.pending = NoOp
    BY <2>2, <2>3, CompleteIdle
  <2>6. e.closed => d.closed
    BY <2>2, <2>3, CompleteCompletes DEF Completes, Follows
  <2> HIDE DEF d
  <2>7. client'[c] = d
    BY <2>4, Becomes
  <2>8. d.pending \notin Questions /\ SameIdle(cl, d) /\ (cl.closed => d.closed)
    BY <2>3, <2>5, <2>6, Indices DEF SameIdle
  <2>9. QED
    BY <1>2, <2>7, <2>8, RestsHeeding
<1>7. QED
  BY <1>3, <1>4, <1>5, <1>6

\* prompt_method_done.
LEMMA DoneHeeds ==
    ASSUME ProtocolInv, NEW c \in Callback, ReceivePromptDone(c),
           NEW ask \in BOOLEAN, NEW there \in BOOLEAN, Heeds(client[c], inbox[c], ask, there)
    PROVE  Heeds(client'[c], inbox'[c], ask, there)
<1> DEFINE cl == client[c]
<1>1. Shape(cl) /\ inbox[c] # <<>> /\ Receive(c)
  BY DEF ProtocolInv, ClientWell, ReceivePromptDone, Got
<1>2. Followed(inbox[c], ask) => Followed(inbox'[c], ask)
  BY <1>1, ReadsOn
<1>3. CASE cl.exported /\ Serving(cl)
  <2> DEFINE e == [cl EXCEPT !.begun = FALSE]
             d == PerformClose(e)
  <2>1. Become(c, d)
    BY <1>3 DEF ReceivePromptDone
  <2>2. Shape(e)
    <3>1. /\ DOMAIN e = ClientFields /\ e.op = cl.op /\ e.begun \in BOOLEAN
          /\ e.closed = cl.closed /\ e.exported = cl.exported /\ e.pending = cl.pending
      BY <1>1 DEF Shape, ClientFields
    <3> HIDE DEF e
    <3>2. QED
      BY <1>1, <3>1, MinorFollows
  <2> HIDE DEF e
  <2>3. d.closed
    BY <2>2, PerformCloseFollows
  <2> HIDE DEF d
  <2>4. QED
    BY <2>1, <2>3, Becomes, ClosedHeeds
<1>4. CASE ~(cl.exported /\ Serving(cl)) /\ cl.closed
  <2>1. client' = client
    BY <1>4 DEF ReceivePromptDone
  <2>2. QED
    BY <1>4, <2>1, ClosedHeeds
<1>5. CASE ~(cl.exported /\ Serving(cl)) /\ ~cl.closed
  <2>1. client' = client
    BY <1>5 DEF ReceivePromptDone
  <2>2. ASSUME cl.pending \in Questions PROVE FALSE
    <3>1. Undecided(cl) /\ cl.pending \in OpIndex
      BY <1>5, <2>2, Indices DEF Heeds
    <3>2. QED
      BY <1>5, <3>1 DEF Undecided, Serving, Blocked
  <2>3. SameIdle(cl, cl)
    BY DEF SameIdle
  <2>4. QED
    BY <1>2, <1>5, <2>1, <2>2, <2>3, RestsHeeding
<1>6. QED
  BY <1>3, <1>4, <1>5

\* on_perform_prompt_complete, for the pending question or for another.
LEMMA AcceptedHeeds ==
    ASSUME NEW cl, Shape(cl), NEW k, NEW p, k \in OpIndex => OpShape(p),
           k \in OpIndex => /\ p.call = "none" /\ p.started = cl.op[k].started
                            /\ p.completions = cl.op[k].completions
                            /\ p.idle = cl.op[k].idle /\ p.leaked = cl.op[k].leaked
                            /\ p.cancelled = cl.op[k].cancelled
                            /\ p.waiting = (cl.pending = k \/ cl.op[k].idle > 0),
           NEW in, NEW in2, NEW ask \in BOOLEAN, NEW there \in BOOLEAN,
           Heeds(cl, in, ask, there), Followed(in, ask) => Followed(in2, ask),
           Followed(in, ask) => ask \/ ~None(in2, Relief),
           None(in2, Relief) => None(in, Relief)
    PROVE  Heeds(Put(cl, k, p), in2, ask, there)
<1> DEFINE d == Put(cl, k, p)
<1>1. /\ Shape(d)
      /\ k \in OpIndex => d.op[k] = p
      /\ \A j \in OpIndex : j # k => d.op[j] = cl.op[j]
      /\ \A n \in ClientFields : n # "op" => d[n] = cl[n]
  BY PutFields
<1> HIDE DEF d
<1>2. /\ d.closed = cl.closed /\ d.pending = cl.pending /\ d.exported = cl.exported
      /\ d.owner = cl.owner
  BY <1>1 DEF ClientFields
<1>3. CASE cl.closed
  BY <1>2, <1>3 DEF Heeds, d
<1>4. CASE ~cl.closed
  <2>1. /\ \A j \in OpIndex : cl.op[j].idle = 0
        /\ Followed(in2, ask) /\ Followed(in, ask)
        /\ cl.pending \in Questions => Undecided(cl) /\ Heard(cl, in, ask, there)
    BY <1>4 DEF Heeds
  <2>2. \A j \in OpIndex : d.op[j].idle = 0 /\ d.op[j].leaked = cl.op[j].leaked
    BY <1>1, <2>1
  <2>3. ASSUME d.pending \in Questions
        PROVE  Undecided(d) /\ Heard(d, in2, ask, there)
    <3>1. cl.pending \in Questions /\ cl.pending \in OpIndex
      BY <1>2, <2>3, Indices
    <3>2. Leaked(cl) <=> Leaked(d)
      BY <2>2 DEF Leaked
    <3>3. CASE cl.pending = k
      <4>1. d.op[d.pending] = p /\ p.waiting
        BY <1>1, <1>2, <3>1, <3>3
      <4>2. Undecided(d)
        BY <1>2, <2>1, <3>1, <3>3, <4>1 DEF Undecided
      <4>3. Heard(d, in2, ask, there)
        BY <2>1 DEF Heard
      <4>4. QED
        BY <4>2, <4>3
    <3>4. CASE cl.pending # k
      <4>1. d.op[d.pending] = cl.op[cl.pending]
        BY <1>1, <1>2, <3>1, <3>4
      <4>2. QED
        BY <1>2, <2>1, <3>1, <3>2, <4>1 DEF Undecided, Heard
    <3>5. QED
      BY <3>3, <3>4
  <2>4. QED
    BY <2>1, <2>2, <2>3 DEF Heeds, d
<1>5. QED
  BY <1>3, <1>4

LEMMA PerformReplyHeeds ==
    ASSUME ProtocolInv, NEW c \in Callback, ReceivePerformReply(c),
           NEW ask \in BOOLEAN, NEW there \in BOOLEAN, Heeds(client[c], inbox[c], ask, there),
           NEW out, Boxed(inbox[c], out, there)
    PROVE  Heeds(client'[c], inbox'[c], ask, there)
<1> DEFINE cl == client[c]
           m == Head(inbox[c])
           k == Head(cl.awaited)
           e == [cl EXCEPT !.awaited = Tail(@)]
           o == e.op[k]
           p == [o EXCEPT !.call = "none", !.waiting = e.pending = k \/ o.idle > 0]
           error == IF o.userCancelled THEN "cancelled" ELSE "failed"
<1>1. Shape(cl) /\ inbox[c] # <<>> /\ m.kind = "PerformReply" /\ Receive(c)
  BY DEF ProtocolInv, ClientWell, ReceivePerformReply, Got
<1>2. /\ Followed(inbox[c], ask) => Followed(inbox'[c], ask)
      /\ Followed(inbox[c], ask) /\ Says(m, TRUE) => ask \/ ~None(inbox'[c], Relief)
  BY <1>1, ReadsOn
<1>3. None(inbox'[c], Relief) => None(inbox[c], Relief)
  BY <1>1, ReadsQuietly DEF Relief
<1>4. \/ m.ok /\ Become(c, Put(e, k, p))
      \/ Become(c, FailPerform(e, k, error))
      \/ Become(c, e)
  BY DEF ReceivePerformReply
<1>5. m.ok => Says(m, TRUE)
  BY <1>1 DEF Says
<1> HIDE DEF m, error
<1>6. /\ Shape(e) /\ e.op = cl.op /\ e.closed = cl.closed /\ e.pending = cl.pending
      /\ e.owner = cl.owner /\ e.exported = cl.exported
  BY <1>1 DEF Shape, ClientFields
<1> HIDE DEF e, k
<1>7. Attends(cl, e)
  BY <1>6 DEF Attends, Leaked
<1>8. CASE Become(c, e)
  <2>1. client'[c] = e
    BY <1>8, Becomes
  <2>2. QED
    BY <1>2, <1>3, <1>7, <2>1, AttendsHeeds
<1>9. CASE Become(c, FailPerform(e, k, error))
  <2> DEFINE d == FailPerform(e, k, error)
  <2>1. SameIdle(e, d) /\ d.pending = NoOp /\ Follows(e, d)
    BY <1>6, FailPerformIdle, FailPerformFollows
  <2>2. client'[c] = d
    BY <1>9, Becomes
  <2> HIDE DEF d
  <2>3. d.pending \notin Questions /\ (cl.closed => d.closed) /\ SameIdle(cl, d)
    BY <1>6, <2>1, Indices DEF Follows, SameIdle
  <2>4. QED
    BY <1>2, <2>2, <2>3 DEF Heeds, SameIdle
<1>10. CASE m.ok /\ Become(c, Put(e, k, p))
  <2>1. k \in OpIndex =>
           /\ OpShape(p) /\ p.call = "none" /\ p.started = e.op[k].started
           /\ p.completions = e.op[k].completions
           /\ p.idle = e.op[k].idle /\ p.leaked = e.op[k].leaked
           /\ p.cancelled = e.op[k].cancelled
           /\ p.waiting = (e.pending = k \/ e.op[k].idle > 0)
    BY <1>6 DEF Shape, OpShape, OpFields
  <2>2. client'[c] = Put(e, k, p)
    BY <1>10, Becomes
  <2> HIDE DEF p
  <2>3. Followed(inbox[c], ask) => ask \/ ~None(inbox'[c], Relief)
    BY <1>2, <1>5, <1>10
  <2>4. Heeds(e, inbox[c], ask, there)
    BY <1>7, AttendsHeeds
  <2>5. QED
    BY <1>2, <1>3, <1>6, <2>1, <2>2, <2>3, <2>4, AcceptedHeeds
<1>11. QED
  BY <1>4, <1>8, <1>9, <1>10

LEMMA ToldIsHeard ==
    ASSUME NEW cl, NEW in, NEW ask \in BOOLEAN, NEW there \in BOOLEAN, ~there,
           cl.op[cl.pending].cancelled
    PROVE  Heard(cl, in, ask, there)
BY DEF Heard

\* on_prompter_vanished.
LEMMA VanishedHeeds ==
    ASSUME ProtocolInv, NEW c \in Callback, ReceiveVanished(c),
           NEW wait \in BOOLEAN, NEW ask \in BOOLEAN, NEW about, NEW there \in BOOLEAN,
           Locked(client[c], inbox[c], outbox[c], wait, ask, about, there),
           Heeds(client[c], inbox[c], ask, there)
    PROVE  Heeds(client'[c], inbox'[c], ask, there)
<1> DEFINE cl == client[c]
           m == Head(inbox[c])
           watching == {k \in OpIndex : /\ Alive(cl, k) /\ Dispatched(cl, k)
                                        /\ cl.op[k].call # "connect"}
<1>1. /\ Shape(cl) /\ Sane(cl) /\ ClientWell(cl)
      /\ Boxed(inbox[c], outbox[c], there)
      /\ inbox[c] # <<>> /\ m.kind = "Vanished" /\ Receive(c)
  BY DEF ProtocolInv, ClientWell, Locked, ReceiveVanished, Got
<1>2. Taken(inbox[c], m, inbox'[c])
  BY <1>1, Reads
<1>3. Followed(inbox[c], ask) => Followed(inbox'[c], ask)
  BY <1>1, ReadsOn
<1>4. ~there
  <2>1. m.kind \in Loss
    BY <1>1 DEF Loss
  <2>2. QED
    BY <1>1, <1>2, <2>1 DEF Taken, Boxed
<1>5. \/ cl.owner /\ \E k \in watching :
             Become(c, [Put(cl, k, [cl.op[k] EXCEPT !.cancelled = TRUE])
                           EXCEPT !.owner = FALSE])
      \/ (~cl.owner \/ watching = {}) /\ client' = client
  BY DEF ReceiveVanished
<1> HIDE DEF m
\* A prompt that leaked nothing is in step.
<1>6. ASSUME ~cl.closed, ~Leaked(cl) PROVE InStep(cl, inbox[c], outbox[c], wait, ask, about)
  BY <1>6 DEF Locked, Spoiled, Leaked, Good
\* Only the pending operation watches then.
<1>7. ASSUME ~cl.closed, ~Leaked(cl), cl.pending \in Questions
      PROVE  \A j \in watching : j = cl.pending
  <2> SUFFICES ASSUME NEW j \in watching, j # cl.pending PROVE FALSE
    OBVIOUS
  <2>0. InStep(cl, inbox[c], outbox[c], wait, ask, about)
    BY <1>6, <1>7
  <2>1. cl.op[j].idle = 0 /\ ~cl.op[j].leaked
    BY <1>7, <2>0 DEF InStep, Leaked
  <2>2. cl.op[j].call = "none"
    <3>1. CASE j = OpenOp
      BY <1>1, <1>7, <3>1, PendingIsOpened
    <3>2. CASE j \in Questions
      BY <1>7, <2>0, <3>2 DEF InStep
    <3>3. QED
      BY <3>1, <3>2, Indices
  <2>3. QED
    BY <2>1, <2>2 DEF Alive
<1>8. ASSUME cl.owner, NEW k \in watching,
             Become(c, [Put(cl, k, [cl.op[k] EXCEPT !.cancelled = TRUE])
                           EXCEPT !.owner = FALSE])
      PROVE  Heeds(client'[c], inbox'[c], ask, there)
  <2> DEFINE p == [cl.op[k] EXCEPT !.cancelled = TRUE]
             e == Put(cl, k, p)
             d == [e EXCEPT !.owner = FALSE]
  <2>1. k \in OpIndex
    OBVIOUS
  <2>2. /\ OpFollows(cl.op[k], p) /\ p.cancelled
        /\ p.leaked = cl.op[k].leaked /\ p.idle = cl.op[k].idle
        /\ p.call = cl.op[k].call /\ p.started = cl.op[k].started
        /\ p.completions = cl.op[k].completions /\ p.waiting = cl.op[k].waiting
    BY <1>1, <2>1 DEF Shape, OpShape, OpFields, OpFollows
  <2>3. client'[c] = d
    BY <1>8, Becomes
  <2> HIDE DEF p
  <2>4. /\ Shape(e) /\ Only(cl, e, k) /\ e.op[k] = p
        /\ \A n \in ClientFields : n # "op" => e[n] = cl[n]
    BY <1>1, <2>1, <2>2, PutFollows
  <2> HIDE DEF e
  <2>5. /\ d.op = e.op /\ d.closed = cl.closed /\ d.pending = cl.pending
        /\ d.exported = cl.exported /\ d.owner = FALSE
    BY <2>4 DEF Shape, ClientFields
  <2> HIDE DEF d
  <2>6. \A j \in OpIndex :
              /\ d.op[j].idle = cl.op[j].idle /\ d.op[j].call = cl.op[j].call
              /\ d.op[j].started = cl.op[j].started
              /\ d.op[j].completions = cl.op[j].completions
              /\ d.op[j].waiting = cl.op[j].waiting
              /\ d.op[j].leaked = cl.op[j].leaked
    BY <2>2, <2>4, <2>5 DEF Only
  <2>7. Leaked(cl) <=> Leaked(d)
    BY <2>6 DEF Leaked
  <2>8. CASE cl.closed
    BY <2>3, <2>5, <2>8, ClosedHeeds
  <2>9. CASE ~cl.closed
    <3>1. /\ \A j \in OpIndex : d.op[j].idle = 0
          /\ Followed(inbox'[c], ask)
      BY <1>3, <2>6, <2>9 DEF Heeds
    <3>2. ASSUME d.pending \in Questions
          PROVE  Undecided(d) /\ Heard(d, inbox'[c], ask, there)
      <4>1. cl.pending \in Questions /\ Undecided(cl) /\ cl.pending \in OpIndex
        BY <2>5, <2>9, <3>2, Indices DEF Heeds
      <4>2. Undecided(d)
        BY <2>5, <2>6, <4>1 DEF Undecided
      <4>3. CASE Leaked(cl)
        <5>1. Leaked(d) /\ ~d.owner
          BY <2>5, <2>7, <4>3
        <5>2. Heard(d, inbox'[c], ask, there)
          BY <1>4, <5>1 DEF Heard
        <5>3. QED
          BY <4>2, <5>2
      <4>4. CASE ~Leaked(cl)
        <5>1. k = cl.pending
          BY <1>7, <2>9, <4>1, <4>4
        <5>2. d.op[d.pending].cancelled
          BY <2>2, <2>4, <2>5, <5>1
        <5>3. Heard(d, inbox'[c], ask, there)
          BY <1>4, <5>2, ToldIsHeard
        <5>4. QED
          BY <4>2, <5>3
      <4>5. QED
        BY <4>3, <4>4
    <3>3. QED
      BY <2>3, <3>1, <3>2 DEF Heeds
  <2>10. QED
    BY <2>8, <2>9
<1>9. CASE (~cl.owner \/ watching = {}) /\ client' = client /\ ~cl.closed
  <2>1. /\ \A j \in OpIndex : cl.op[j].idle = 0
        /\ Followed(inbox'[c], ask)
    BY <1>3, <1>9 DEF Heeds
  <2>2. ASSUME cl.pending \in Questions
        PROVE  Undecided(cl) /\ Heard(cl, inbox'[c], ask, there)
    <3>1. Undecided(cl) /\ cl.pending \in OpIndex
      BY <1>9, <2>2, Indices DEF Heeds
    <3>2. ASSUME cl.op[cl.pending].call = "none" PROVE ~cl.owner
      <4>1. Alive(cl, cl.pending) /\ Dispatched(cl, cl.pending)
        BY <3>1 DEF Alive, Dispatched, Blocked, Undecided
      <4>2. cl.pending \in watching
        BY <3>1, <3>2, <4>1
      <4>3. QED
        BY <1>9, <4>2
    <3>3. ASSUME cl.op[cl.pending].call = "none", ~Leaked(cl)
          PROVE  cl.op[cl.pending].cancelled
      <4>1. Served(cl, inbox[c], ask)
        BY <1>6, <1>9, <2>2, <3>3 DEF InStep
      <4>2. QED
        BY <3>2, <3>3, <4>1 DEF Served
    <3>4. QED
      BY <1>4, <3>1, <3>2, <3>3 DEF Heard
  <2>3. QED
    BY <1>9, <2>1, <2>2 DEF Heeds
<1>10. CASE client' = client /\ cl.closed
  BY <1>10, ClosedHeeds
<1>11. QED
  BY <1>5, <1>8, <1>9, <1>10

\* Every step of a prompt.
LEMMA ClientHeeds ==
    ASSUME ProtocolInv, NEW c \in Callback, Client(c),
           NEW wait \in BOOLEAN, NEW ask \in BOOLEAN, NEW about, registered \in BOOLEAN,
           Locked(client[c], inbox[c], outbox[c], wait, ask, about, registered),
           Heeds(client[c], inbox[c], ask, registered)
    PROVE  Heeds(client'[c], inbox'[c], ask, registered)
<1>0. Boxed(inbox[c], outbox[c], registered) /\ Sane(client[c])
  BY DEF Locked
<1>1. CASE \/ RealClose(c) \/ CloseAsync(c) \/ TimeoutFires(c)
           \/ \E k \in OpIndex : WaitingFires(c, k)
  BY <1>1, ClosersHeed, ClosedHeeds
<1>2. CASE ClientReceives(c)
  BY <1>0, <1>2, BeginReplyHeeds, PerformReplyHeeds, ClosingHeeds, ReadyHeeds, DoneHeeds,
     VanishedHeeds DEF ClientReceives
<1>3. CASE ClientDispatches(c)
  BY <1>0, <1>1, <1>3, BusConnectedHeeds, CallCancelledHeeds, IdleHeeds, ClosingHeeds
     DEF ClientDispatches
<1>4. CASE Application(c)
  BY <1>1, <1>4, OpenHeeds, PerformHeeds, CancelHeeds DEF Application
<1>5. QED
  BY <1>1, <1>2, <1>3, <1>4 DEF Client

\* What the prompter sends, for a prompt that had a dialog or is given one.
Carries(h, ask, ask2) ==
    IsBox(h) /\ Followed(h, ask2) /\ (ask => ask2 \/ ~None(h, Relief))

LEMMA FedHeeds ==
    ASSUME NEW cl, NEW in, IsBox(in), NEW h, NEW ask \in BOOLEAN, NEW ask2 \in BOOLEAN,
           NEW there \in BOOLEAN, NEW there2 \in BOOLEAN, there2 => there,
           Heeds(cl, in, ask, there), Carries(h, ask, ask2)
    PROVE  Heeds(cl, in \o h, ask2, there2)
<1> DEFINE in2 == in \o h
<1>1. IsBox(h) /\ Followed(h, ask2) /\ (ask => ask2 \/ ~None(h, Relief))
  BY DEF Carries
<1>2. None(in2, Relief) <=> None(in, Relief) /\ None(h, Relief)
  BY <1>1, JoinedBoxes DEF Joined
<1>3. Followed(in, ask) => Followed(in2, ask2)
  BY <1>1, FollowedJoin
<1> HIDE DEF in2
<1>4. cl.pending \in Questions /\ Heard(cl, in, ask, there) => Heard(cl, in2, ask2, there2)
  BY <1>1, <1>2 DEF Heard
<1>5. Heeds(cl, in2, ask2, there2)
  BY <1>3, <1>4 DEF Heeds
<1>6. QED
  BY <1>5 DEF in2

LEMMA SilenceCarries ==
    ASSUME NEW h, IsBox(h), None(h, Answer) \/ ~Replied(h, TRUE), NEW ask \in BOOLEAN,
           NEW ask2 \in BOOLEAN, ask => ask2 \/ ~None(h, Relief)
    PROVE  Carries(h, ask, ask2)
BY NoWordIsFollowed DEF Carries

Ask(d) == P!Asking(active, obj, d)

\* d is fed by a handler of the prompter.
Carried(d) == Carries(sent'[d], Ask(d), Ask(d)')

LEMMA ServesCarries == ASSUME NEW d, Serves(d) PROVE Carried(d)
<1> DEFINE h == sent'[d]
<1>1. /\ IsBox(h) /\ None(h, Answer)
      /\ Ask(d) => Ask(d)' \/ ~None(h, Relief)
  BY DEF Serves, Progress, Delivery, Ask
<1>2. Ask(d) \in BOOLEAN /\ Ask(d)' \in BOOLEAN
  BY DEF Ask, P!Asking
<1> HIDE DEF h
<1>3. Carries(h, Ask(d), Ask(d)')
  BY <1>1, <1>2, SilenceCarries
<1>4. QED
  BY <1>3 DEF Carried, h

Heeding(d) == Heeds(client[d], inbox[d], Ask(d), registered)

LEMMA DeliveredHeeds ==
    ASSUME Together, NEW d \in Callback, Heeding(d), Carried(d), client' = client,
           Deliver(inbox), registered' = registered
    PROVE  Heeding(d)'
<1>1. Ask(d) \in BOOLEAN /\ Ask(d)' \in BOOLEAN /\ registered \in BOOLEAN
  BY DEF Ask, P!Asking, Together, Registered
<1>2. IsBox(inbox[d]) /\ inbox'[d] = inbox[d] \o sent'[d]
  BY DEF Together, ProtocolInv, Tables, Sendable, Deliver
<1>3. Heeds(client[d], inbox[d] \o sent'[d], Ask(d)', registered)
  BY <1>1, <1>2, FedHeeds DEF Heeding, Carried
<1>4. QED
  BY <1>2, <1>3 DEF Heeding

LEMMA OrphanedHeeds ==
    ASSUME Together, NEW d \in Callback, Heeding(d), Carried(d), client' = client,
           NEW S, Deliver(Orphaned(inbox, S)), registered' \in BOOLEAN,
           registered' => registered
    PROVE  Heeding(d)'
<1> DEFINE in == Orphaned(inbox, S)[d]
<1>1. Ask(d) \in BOOLEAN /\ Ask(d)' \in BOOLEAN /\ registered \in BOOLEAN
  BY DEF Ask, P!Asking, Together, Registered
<1>2. /\ Sendable(inbox) /\ Lock(d)
  BY DEF Together, ProtocolInv, Tables
<1>3. Proper(inbox[d])
  BY <1>2, LockBoxed DEF Boxed
<1>4. Same(inbox[d], in) /\ IsBox(in)
  BY <1>2, <1>3, OrphanedSame, OrphanedKinds DEF KeepsKinds, Sendable
<1>5. Followed(inbox[d], Ask(d)) => Followed(in, Ask(d))
  BY <1>2, <1>3, FollowedOrphans
<1>6. inbox'[d] = in \o sent'[d]
  BY DEF Deliver
<1> HIDE DEF in
<1>7. None(in, Relief) => None(inbox[d], Relief)
  BY <1>4 DEF Same
<1>8. Attends(client[d], client[d])
  BY DEF Attends
<1>9. Heeds(client[d], in, Ask(d), registered)
  BY <1>1, <1>5, <1>7, <1>8, AttendsHeeds DEF Heeding
<1>10. Heeds(client[d], in \o sent'[d], Ask(d)', registered')
  BY <1>1, <1>4, <1>9, FedHeeds DEF Carried
<1>11. QED
  BY <1>6, <1>10 DEF Heeding

\* BeginPrompting: a prompt that has a dialog has begun already.
LEMMA BeginCarries ==
    ASSUME Together, NEW c \in Callback, P!BeginPrompting(c), NEW d \in Callback
    PROVE  Carried(d)
<1>1. P!Records
  BY DEF Together
<1>2. /\ d # c => P!Bystander(d)
      /\ d = c => \/ P!Kept(d) /\ sent'[d] = <<P!BeginReply(FALSE)>>
                  \/ /\ P!Asking(active', obj', d) => P!Asking(active, obj, d)
                     /\ sent'[d] = <<P!BeginReply(TRUE)>>
                  \/ /\ ~P!Queued(waiting', d) /\ ~P!Asking(active', obj', d)
                     /\ \E o : sent'[d] = Append(<<P!BeginReply(TRUE)>>, P!Invitation(o))
  BY <1>1, Assumptions, P!BeginFor
<1>3. CASE d # c
  BY <1>2, <1>3, BystanderServes, ServesCarries
<1>4. CASE d = c
  <2>1. IsBox(sent'[d]) /\ None(sent'[d], Answer)
    <3>1. ASSUME NEW ok, sent'[d] = <<P!BeginReply(ok)>>
          PROVE  IsBox(sent'[d]) /\ None(sent'[d], Answer)
      BY <3>1, Deliveries DEF Plainly, Delivery
    <3>2. ASSUME NEW o, sent'[d] = Append(<<P!BeginReply(TRUE)>>, P!Invitation(o))
          PROVE  IsBox(sent'[d]) /\ None(sent'[d], Answer)
      <4> DEFINE a == P!BeginReply(TRUE)
                 b == P!Invitation(o)
      <4>1. /\ Delivery(<<a>>) /\ None(<<a>>, Answer)
            /\ Delivery(<<b>>) /\ None(<<b>>, Answer)
        BY Deliveries DEF Plainly
      <4> HIDE DEF a, b
      <4>2. Delivery(Append(<<a>>, b)) /\ None(Append(<<a>>, b), Answer)
        BY <4>1, Pairs
      <4>3. QED
        BY <3>2, <4>2 DEF a, b, Delivery
    <3>3. QED
      BY <1>2, <1>4, <3>1, <3>2
  <2>2. Ask(d) => Ask(d)'
    <3>1. ASSUME Ask(d) PROVE c \in callbacks
      BY <1>1, <1>4, <3>1 DEF Ask, P!Asking, P!Records, P!Consistent
    <3>2. c \in callbacks => active' = active /\ obj' = obj
      BY DEF P!BeginPrompting, P!bookkeeping
    <3>3. QED
      BY <3>1, <3>2 DEF Ask
  <2>3. Ask(d) \in BOOLEAN /\ Ask(d)' \in BOOLEAN
    BY DEF Ask, P!Asking
  <2>4. QED
    BY <2>1, <2>2, <2>3, SilenceCarries DEF Carried
<1>5. QED
  BY <1>3, <1>4

\* PerformPrompt: a question that is accepted has its dialog.
LEMMA PerformCarries ==
    ASSUME Together, NEW c \in Callback, NEW q, P!PerformPrompt(c, "confirm", q, TRUE),
           NEW d \in Callback
    PROVE  Carried(d)
<1>1. P!Records
  BY DEF Together
<1>2. /\ d # c => P!Bystander(d)
      /\ d = c => \/ P!Kept(d) /\ sent'[d] = <<P!PerformReply(FALSE)>>
                  \/ /\ P!Queued(waiting', d) <=> P!Queued(waiting, d)
                     /\ P!Asking(active', obj', d) /\ P!About(active', obj', d) = q
                     /\ sent'[d] = <<P!PerformReply(TRUE)>>
  BY <1>1, Assumptions, P!PerformFor
<1>3. Ask(d) \in BOOLEAN /\ Ask(d)' \in BOOLEAN
  BY DEF Ask, P!Asking
<1>4. CASE d # c
  BY <1>2, <1>4, BystanderServes, ServesCarries
<1>5. CASE P!Kept(d) /\ sent'[d] = <<P!PerformReply(FALSE)>>
  <2>1. IsBox(sent'[d]) /\ ~Replied(sent'[d], TRUE)
    BY <1>5, Deliveries DEF Delivery
  <2>2. Ask(d) => Ask(d)'
    BY <1>5 DEF P!Kept, P!AsBefore, Ask
  <2>3. QED
    BY <1>3, <2>1, <2>2, SilenceCarries DEF Carried
<1>6. CASE P!Asking(active', obj', d) /\ sent'[d] = <<P!PerformReply(TRUE)>>
  <2>1. IsBox(sent'[d])
    BY <1>6, Deliveries DEF Delivery
  <2>2. Ask(d)'
    BY <1>6 DEF Ask
  <2>3. QED
    BY <1>3, <2>1, <2>2 DEF Carried, Carries, Followed
<1>7. QED
  BY <1>2, <1>4, <1>5, <1>6

\* The inductive invariant of NobodyWaits.
Heeded == Together /\ \A d \in Callback : Heeding(d)

LEMMA PrompterReceivesHeeds ==
    ASSUME Together, NEW c \in Callback, PrompterReceives(c), NEW d \in Callback, Heeding(d)
    PROVE  Heeding(d)'
<1> DEFINE m == Head(outbox[c])
<1>1. /\ P!Records /\ IsBox(outbox[c]) /\ Stamped(outbox[c])
  BY DEF Together, ProtocolInv, Tables, Sendable, StampedAll
<1>2. outbox[c] # <<>> /\ Deliver(inbox) /\ client' = client
  BY DEF PrompterReceives
<1>3. m.kind = "ReadyReply" => m.from \in Object \cup {NoObject} /\ m.ok \in BOOLEAN
  BY <1>1, <1>2, StampedTail
<1>4. CASE m.kind = "Begin" /\ Prompter!BeginPrompting(c)
  <2>1. P!BeginPrompting(c)
    BY <1>4, SameBegin
  <2>2. registered' = registered
    BY <2>1 DEF P!BeginPrompting
  <2>3. QED
    BY <1>2, <2>1, <2>2, BeginCarries, DeliveredHeeds
<1>5. CASE m.kind = "Perform" /\ Prompter!PerformPrompt(c, "confirm", m.question, TRUE)
  <2>1. P!PerformPrompt(c, "confirm", m.question, TRUE)
    BY <1>5, SamePerform
  <2>2. registered' = registered
    BY <2>1 DEF P!PerformPrompt
  <2>3. QED
    BY <1>2, <2>1, <2>2, PerformCarries, DeliveredHeeds
<1>6. CASE m.kind = "Stop" /\ Prompter!StopPrompting(c)
  <2>1. P!StopPrompting(c)
    BY <1>6, SameStop
  <2>2. registered' = registered
    BY <2>1 DEF P!StopPrompting
  <2>3. QED
    BY <1>2, <2>1, <2>2, StopServes, ServesCarries, DeliveredHeeds
<1>7. CASE /\ m.kind = "ReadyReply" /\ m.from # NoObject
           /\ Prompter!PromptReadyComplete(m.from, m.ok)
  <2>1. P!PromptReadyComplete(m.from, m.ok) /\ m.from \in Object /\ m.ok \in BOOLEAN
    BY <1>3, <1>7, SameReadyComplete
  <2>2. registered' = registered
    BY <2>1 DEF P!PromptReadyComplete
  <2>3. Serves(d)
    BY <2>1, ReadyCompleteServes
  <2>4. QED
    BY <1>2, <2>2, <2>3, ServesCarries, DeliveredHeeds
<1>8. CASE /\ m.kind = "ReadyReply" /\ m.from = NoObject
           /\ sent' = Prompter!Nothing
           /\ UNCHANGED <<gone, registered, callbacks, waiting, active, obj>>
  <2>1. P!Kept(d)
    BY <1>1, <1>8, RecordsUnchanged
  <2>2. sent'[d] = <<>>
    BY <1>8 DEF Prompter!Nothing
  <2>3. Serves(d)
    BY <2>1, <2>2, KeptServes, Deliveries
  <2>4. QED
    BY <1>2, <1>8, <2>3, ServesCarries, DeliveredHeeds
<1>9. QED
  BY <1>4, <1>5, <1>6, <1>7, <1>8 DEF PrompterReceives

LEMMA UserHeeds ==
    ASSUME Together, NEW d \in Callback, Heeding(d),
           \/ \E o \in Object : PromptReadyGivenUp(o) \/ UserAnswers(o)
           \/ \E c \in Callback : UserCloses(c)
    PROVE  Heeding(d)'
<1>0. registered \in BOOLEAN
  BY DEF Together, Registered
<1>1. ASSUME NEW o \in Object, PromptReadyGivenUp(o) PROVE Heeding(d)'
  <2>1. P!PromptReadyComplete(o, FALSE)
    BY <1>1, SameReadyComplete DEF PromptReadyGivenUp
  <2>2. registered' = registered
    BY <2>1 DEF P!PromptReadyComplete
  <2>3. Deliver(Orphaned(inbox, {o})) /\ client' = client
    BY <1>1 DEF PromptReadyGivenUp
  <2>4. Carried(d)
    BY <2>1, ReadyCompleteServes, ServesCarries
  <2>5. QED
    BY <1>0, <2>2, <2>3, <2>4, OrphanedHeeds
<1>2. ASSUME NEW o \in Object, UserAnswers(o) PROVE Heeding(d)'
  <2>1. PICK r \in {"yes", "no"} : P!PromptComplete(o, r)
    BY <1>2, SameComplete DEF UserAnswers
  <2>2. registered' = registered
    BY <2>1 DEF P!PromptComplete
  <2>3. Deliver(inbox) /\ client' = client
    BY <1>2 DEF UserAnswers
  <2>4. QED
    BY <2>1, <2>2, <2>3, CompleteServes, ServesCarries, DeliveredHeeds
<1>3. ASSUME NEW c \in Callback, UserCloses(c) PROVE Heeding(d)'
  <2>1. P!PromptClosed(c)
    BY <1>3, SameClosed DEF UserCloses
  <2>2. registered' = registered
    BY <2>1 DEF P!PromptClosed
  <2>3. Deliver(inbox) /\ client' = client
    BY <1>3 DEF UserCloses
  <2>4. QED
    BY <2>1, <2>2, <2>3, ClosedServes, ServesCarries, DeliveredHeeds
<1>4. QED
  BY <1>1, <1>2, <1>3

\* The end of the prompter is news to everyone.
LEMMA DiesHeeds ==
    ASSUME Together, PrompterDies, NEW d \in Callback, Heeding(d) PROVE Heeding(d)'
<1>1. /\ registered' = FALSE /\ client' = client /\ Deliver(Orphaned(inbox, Object))
      /\ sent'[d] = <<Vanished>>
  BY DEF PrompterDies
<1>2. /\ IsBox(<<Vanished>>) /\ None(<<Vanished>>, Answer) /\ ~None(<<Vanished>>, Relief)
  <2>1. "kind" \in DOMAIN Vanished /\ Vanished.kind \notin Answer /\ Vanished.kind \in Relief
    BY Sayings DEF Answer, Relief
  <2>2. QED
    BY <2>1, SingleContents
<1>3. Ask(d) \in BOOLEAN /\ Ask(d)' \in BOOLEAN
  BY DEF Ask, P!Asking
<1>4. Carried(d)
  BY <1>1, <1>2, <1>3, SilenceCarries DEF Carried
<1>5. QED
  BY <1>1, <1>4, OrphanedHeeds

\* The bus accepts no question for a prompter that is gone.
LEMMA BusAnswersHeeds ==
    ASSUME Together, NEW c \in Callback, BusAnswers(c), NEW d \in Callback, Heeding(d)
    PROVE  Heeding(d)'
<1> DEFINE m == Head(outbox[c])
           h == BusReply(m)
<1>1. /\ Sendable(inbox) /\ Sendable(outbox) /\ ProtocolInv /\ registered \in BOOLEAN
  BY DEF Together, ProtocolInv, Tables, Registered
<1>2. /\ outbox[c] # <<>>
      /\ UNCHANGED <<client, registered, active, obj>>
  BY DEF BusAnswers
<1>3. inbox' = With(inbox, c, inbox[c] \o h)
  BY DEF BusAnswers, BusReply, Prompter!BeginReply, P!BeginReply, Prompter!PerformReply,
         P!PerformReply, Prompter!StopReply, P!StopReply
<1>4. m.kind \in {"Begin", "Perform", "Stop", "ReadyReply"}
  <2>1. \A kind : Lacks(outbox[c], kind) => m.kind # kind
    BY <1>1, <1>2, BoxTail DEF Sendable
  <2>2. QED
    BY <1>1, <2>1 DEF ProtocolInv, Tables, Requests
<1> HIDE DEF m, h
<1>5. IsBox(h) /\ (None(h, Answer) \/ ~Replied(h, TRUE))
  <2>1. BusFits(m, h)
    BY <1>4, BusReplies DEF h
  <2>2. QED
    BY <1>4, <2>1 DEF BusFits, Plain
<1>6. Ask(d) \in BOOLEAN /\ Ask(d)' = Ask(d)
  BY <1>2 DEF Ask, P!Asking
<1>7. CASE d # c
  <2>1. inbox'[d] = inbox[d]
    BY <1>1, <1>3, <1>7 DEF With, Sendable
  <2>2. QED
    BY <1>2, <1>6, <2>1 DEF Heeding
<1>8. CASE d = c
  <2>1. inbox'[d] = inbox[d] \o h /\ IsBox(inbox[d])
    BY <1>1, <1>3, <1>8 DEF With, Sendable
  <2>2. Carries(h, Ask(d), Ask(d))
    BY <1>5, <1>6, SilenceCarries
  <2>3. Heeds(client[d], inbox[d] \o h, Ask(d), registered)
    BY <1>1, <1>6, <2>1, <2>2, FedHeeds DEF Heeding
  <2>4. QED
    BY <1>2, <1>6, <2>1, <2>3 DEF Heeding
<1>9. QED
  BY <1>7, <1>8

\* A step of a prompt touches no other.
LEMMA ClientIsHeeding ==
    ASSUME Together, NEW c \in Callback, Client(c), Apart, NEW d \in Callback, Heeding(d)
    PROVE  Heeding(d)'
<1>1. /\ ProtocolInv /\ Lock(c) /\ registered \in BOOLEAN
  BY DEF Together, Registered
<1>2. Ask(d)' = Ask(d) /\ registered' = registered /\ Ask(d) \in BOOLEAN
  BY DEF Apart, Ask, P!Asking
<1>3. CASE d # c
  <2>1. client'[d] = client[d] /\ inbox'[d] = inbox[d]
    BY <1>1, <1>3, OnlyItself DEF Elsewhere
  <2>2. QED
    BY <1>2, <2>1 DEF Heeding
<1>4. CASE d = c
  <2>1. /\ P!Queued(waiting, c) \in BOOLEAN /\ P!Asking(active, obj, c) \in BOOLEAN
    BY Facts
  <2>2. /\ Locked(client[c], inbox[c], outbox[c], P!Queued(waiting, c),
                  P!Asking(active, obj, c), P!About(active, obj, c), registered)
        /\ Heeds(client[c], inbox[c], P!Asking(active, obj, c), registered)
    BY <1>1, <1>4 DEF Lock, Heeding, Ask
  <2>3. Heeds(client'[c], inbox'[c], P!Asking(active, obj, c), registered)
    BY <1>1, <2>1, <2>2, ClientHeeds
  <2>4. QED
    BY <1>2, <1>4, <2>3 DEF Heeding, Ask
<1>5. QED
  BY <1>3, <1>4

LEMMA InitHeeded == Init => Heeded
<1> SUFFICES ASSUME Init PROVE Heeded
  OBVIOUS
<1>1. Together
  BY InitTogether
<1>2. ASSUME NEW d \in Callback PROVE Heeding(d)
  <2>1. client[d] = NewClient(d) /\ inbox[d] = <<>>
    BY DEF Init, ClientInit
  <2>2. /\ client[d].pending = NoOp
        /\ \A k \in OpIndex : client[d].op[k].idle = 0
    BY <2>1 DEF NewClient, NewOp
  <2>3. Followed(inbox[d], Ask(d))
    BY <2>1 DEF Followed
  <2>4. QED
    BY <2>2, <2>3, Indices DEF Heeding, Heeds
<1>3. QED
  BY <1>1, <1>2 DEF Heeded

LEMMA StepHeeded == Heeded /\ [Next]_protocolVars => Heeded'
<1> SUFFICES ASSUME Heeded, [Next]_protocolVars PROVE Heeded'
  OBVIOUS
<1>1. Together /\ Together'
  BY StepTogether DEF Heeded
<1>2. ASSUME NEW d \in Callback PROVE Heeding(d)'
  <2>0. Heeding(d)
    BY DEF Heeded
  <2>1. ASSUME NEW c \in Callback, PrompterReceives(c) PROVE Heeding(d)'
    BY <1>1, <2>0, <2>1, PrompterReceivesHeeds
  <2>2. ASSUME NEW c \in Callback, UserCloses(c) PROVE Heeding(d)'
    BY <1>1, <2>0, <2>2, UserHeeds
  <2>3. ASSUME NEW c \in Callback, BusAnswers(c) PROVE Heeding(d)'
    BY <1>1, <2>0, <2>3, BusAnswersHeeds
  <2>4. ASSUME NEW o \in Object, PromptReadyGivenUp(o) \/ UserAnswers(o) PROVE Heeding(d)'
    BY <1>1, <2>0, <2>4, UserHeeds
  <2>5. CASE PrompterDies
    BY <1>1, <2>0, <2>5, DiesHeeds
  <2>6. ASSUME NEW c \in Callback, Client(c) /\ Apart PROVE Heeding(d)'
    BY <1>1, <2>0, <2>6, ClientIsHeeding
  <2>7. CASE UNCHANGED protocolVars
    BY <2>0, <2>7 DEF protocolVars, clientVars, prompterVars, Heeding, Ask
  <2>8. QED
    BY <2>1, <2>2, <2>3, <2>4, <2>5, <2>6, <2>7 DEF Next
<1>3. QED
  BY <1>1, <1>2 DEF Heeded

\* A question that was cancelled in a prompt that still waits for it: the
\* source that completes it is due, unless nobody dispatches it.
LEMMA CancelledIsDue ==
    ASSUME NEW cl, cl.pending \in Questions, Undecided(cl),
           cl.op[cl.pending].call = "none", cl.op[cl.pending].cancelled, ~cl.sync
    PROVE  WaitingDue(cl, cl.pending)
BY DEF Undecided, WaitingDue, Alive, Dispatched

LEMMA HeededServes == Heeded => NobodyWaitsForNothing
<1> SUFFICES ASSUME Heeded, NEW c \in Callback, client[c].pending > 0,
                    client[c].op[client[c].pending].call = "none"
             PROVE  \/ active[c] # NoObject /\ obj[active[c]].op \in {"confirm", "password"}
                    \/ \E i \in DOMAIN inbox[c] :
                          inbox[c][i].kind \in {"PromptReady", "PromptDone", "Vanished"}
                    \/ ~registered /\ (CancellationIsDue(c) \/ NewsWasLost(c))
  BY DEF NobodyWaitsForNothing
<1> DEFINE cl == client[c]
<1>1. ClientWell(cl) /\ Heeding(c)
  BY DEF Heeded, Together, ProtocolInv
<1>2. cl.pending \in Questions /\ cl.pending # NoOp
  BY <1>1, PerformAssumption DEF ClientWell, Shape, Questions, OpIndex, NoOp
<1>3. ~cl.closed
  BY <1>1, <1>2 DEF ClientWell, Clean
<1>4. Undecided(cl) /\ Heard(cl, inbox[c], Ask(c), registered)
  BY <1>1, <1>2, <1>3 DEF Heeding, Heeds
<1>5. \/ Ask(c) \/ ~None(inbox[c], Relief)
      \/ ~registered /\ cl.op[cl.pending].cancelled
      \/ ~registered /\ Leaked(cl) /\ ~cl.owner
  BY <1>4 DEF Heard
<1>6. CASE Ask(c) \/ ~None(inbox[c], Relief)
  BY <1>6 DEF Ask, P!Asking, None, Relief
<1>7. CASE ~registered /\ cl.op[cl.pending].cancelled
  <2>1. CancellationIsDue(c)
    BY <1>2, <1>4, <1>7, CancelledIsDue DEF CancellationIsDue
  <2>2. QED
    BY <1>7, <2>1
<1>8. CASE ~registered /\ Leaked(cl) /\ ~cl.owner
  <2>1. NewsWasLost(c)
    BY <1>8 DEF NewsWasLost, Leaky, Leaked
  <2>2. QED
    BY <1>8, <2>1
<1>9. QED
  BY <1>5, <1>6, <1>7, <1>8

\* A prompt whose question was accepted, and that is still to be answered, has
\* its dialog on the screen or an answer or refusal on its way, whatever was
\* cancelled, closed or dismissed or has failed before, and in the questions
\* after it too.  Once the prompter is gone, the news of it is on its way or
\* has cancelled the question; the two kinds of prompts that the code leaves
\* waiting are those of NewsWasLost and, for a blocking call, of
\* CancellationIsDue.
THEOREM NobodyWaits == Spec => []NobodyWaitsForNothing
BY InitHeeded, StepHeeded, HeededServes, PTL DEF Spec
=============================================================================
