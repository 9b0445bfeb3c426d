-------------------------- MODULE PromptAnswersProofs --------------------------
(***************************************************************************)
(* What the callbacks of a prompt are told: where nothing is cancelled,     *)
(* every answer belongs to its question and is told once, for any number of *)
(* prompts and questions, also when the prompter crashes or the bus fails.  *)
(*                                                                         *)
(* An answer is read from the prompt when the operation completes.  So the  *)
(* invariant says of every question that is under way that it is the one    *)
(* that the prompt is waiting for, or that the prompt is closed and only    *)
(* errors and refusals are left; that a PromptReady is about that question  *)
(* is shown in PromptProtocolProofs.                                        *)
(***************************************************************************)
EXTENDS PromptProtocolProofs

-----------------------------------------------------------------------------
(* Where nothing is cancelled: the callers cancel nothing and close no      *)
(* prompt that asks, and the user closes no dialog.                         *)

Calm == Cancelling = {} /\ Hasty = {} /\ ~Dismissable

Undone(cl, k) == cl.op[k].started /\ cl.op[k].completions = 0

\* What question k can still be told: nothing but an error or a refusal in a
\* prompt that is closed, and its own answer while it is the pending one.
Bound(cl, k) == IF cl.closed THEN cl.op[k].error # "none" \/ cl.last # "yes"
                ELSE cl.pending = k

Honest(cl, k) ==
    LET o == cl.op[k] IN
    /\ o.outcome = "continue" => o.answered = k
    /\ Undone(cl, k) => Bound(cl, k)
    /\ o.call # "none" => ~o.waiting
    /\ ~cl.closed /\ o.leaked => o.call = "none" /\ ~o.waiting

\* An operation has completed, is scheduled to, or is still to be told.
Once(cl, k) ==
    LET o == cl.op[k] IN
    /\ o.completions \in Nat /\ o.idle \in Nat /\ o.completions + o.idle <= 1
    /\ cl.pending = k \/ o.call # "none" \/ ~o.started => o.completions = 0 /\ o.idle = 0
    /\ o.call # "none" => o.started

\* A timeout completes opening twice.
Counted(k) == k \in Questions \/ Impatient = {}

Fine(cl, k) ==
    LET o == cl.op[k] IN
    /\ ~o.userCancelled
    /\ k = OpenOp => ~o.leaked /\ (Impatient = {} => ~o.timeout)
    /\ k \in Questions => Honest(cl, k)
    /\ Counted(k) => Once(cl, k)

Truthful(cl) == \A k \in OpIndex : Fine(cl, k)

\* A step that changes operation k.
LEMMA TruthfulAgain ==
    ASSUME NEW cl, NEW d, NEW k \in OpIndex, Only(cl, d, k),
           \A j \in OpIndex : j # k => Fine(cl, j),
           Fine(d, k), cl.closed => d.closed, d.pending \in {cl.pending, NoOp, k},
           \A j \in Questions : j # k /\ Undone(cl, j) => Bound(d, j)
    PROVE  Truthful(d)
<1> SUFFICES ASSUME NEW j \in OpIndex, j # k PROVE Fine(d, j)
  BY DEF Truthful
<1>1. d.op[j] = cl.op[j] /\ Fine(cl, j) /\ j # NoOp
  BY Indices DEF Only
<1>2. ASSUME j \in Questions PROVE Honest(d, j)
  BY <1>1, <1>2 DEF Fine, Honest, Undone
<1>3. ASSUME Once(cl, j) PROVE Once(d, j)
  BY <1>1, <1>3 DEF Once
<1>4. QED
  BY <1>1, <1>2, <1>3 DEF Fine

\* A step that changes nothing else.
LEMMA TruthfulBut ==
    ASSUME NEW cl, NEW d, NEW k \in OpIndex, Only(cl, d, k), Truthful(cl), Fine(d, k),
           d.closed = cl.closed, d.pending = cl.pending, d.last = cl.last
    PROVE  Truthful(d)
<1>1. ASSUME NEW j \in Questions, j # k, Undone(cl, j) PROVE Bound(d, j)
  <2>1. j \in OpIndex
    BY Indices
  <2>2. d.op[j] = cl.op[j] /\ Honest(cl, j)
    BY <1>1, <2>1 DEF Only, Truthful, Fine
  <2>3. QED
    BY <1>1, <2>2 DEF Honest, Bound
<1>2. QED
  BY <1>1, TruthfulAgain DEF Truthful

\* A step that changes no operation, and nothing that binds one.
LEMMA TruthfulStill ==
    ASSUME NEW cl, NEW d, Truthful(cl), \A k \in OpIndex : d.op[k] = cl.op[k],
           d.closed = cl.closed, d.pending = cl.pending, d.last = cl.last
    PROVE  Truthful(d)
<1>1. OpenOp \in OpIndex /\ Only(cl, d, OpenOp)
  BY Indices DEF Only
<1>2. Fine(cl, OpenOp) /\ OpenOp \notin Questions
  BY <1>1, Indices DEF Truthful
<1>3. Fine(d, OpenOp)
  BY <1>1, <1>2 DEF Fine, Once
<1>4. QED
  BY <1>1, <1>3, TruthfulBut

\* What completing an operation tells.
LEMMA CompleteTells ==
    ASSUME NEW cl, Shape(cl), NEW k \in OpIndex
    PROVE  LET d == Complete(cl, k)
               o == cl.op[k]
               p == d.op[k]
           IN
           /\ Shape(d) /\ Only(cl, d, k) /\ d.pending = cl.pending /\ d.last = cl.last
           /\ d.closed <=> cl.closed \/ (k = OpenOp /\ o.error # "none")
           /\ p.started = o.started /\ p.call = o.call /\ p.waiting = o.waiting
           /\ p.timeout = o.timeout /\ p.idle = o.idle /\ p.error = o.error
           /\ p.leaked = o.leaked /\ p.userCancelled = o.userCancelled
           /\ p.completions = o.completions + 1
           /\ o.completions = 0 /\ p.outcome = "continue" =>
                 /\ o.error = "none" /\ cl.last = "yes" /\ p.answered = cl.lastQuestion
<1> DEFINE o == cl.op[k]
           outcome == IF o.error # "none" THEN "error"
                      ELSE IF k = OpenOp THEN "opened"
                      ELSE IF cl.last = "yes" THEN "continue" ELSE "cancel"
           told == Told(o, outcome, cl.lastQuestion)
           fails == k = OpenOp /\ outcome = "error"
           cut == [cl EXCEPT !.closed = TRUE, !.exported = FALSE]
           base == IF fails THEN cut ELSE cl
           d == Complete(cl, k)
<1>1. d = Put(base, k, told)
  BY DEF Complete, Told
<1>2. fails <=> k = OpenOp /\ o.error # "none"
  OBVIOUS
<1>3. outcome = "continue" => o.error = "none" /\ cl.last = "yes"
  OBVIOUS
<1> HIDE DEF outcome
<1>4. /\ Shape(base) /\ base.op = cl.op /\ base.pending = cl.pending /\ base.last = cl.last
      /\ base.closed <=> cl.closed \/ fails
  <2>1. /\ Shape(cut) /\ cut.op = cl.op /\ cut.pending = cl.pending /\ cut.last = cl.last
        /\ cut.closed = TRUE
    BY DEF Shape, ClientFields
  <2> HIDE DEF cut, fails
  <2>2. QED
    BY <2>1
<1> HIDE DEF base, fails
<1>5. /\ OpShape(told)
      /\ told.started = o.started /\ told.call = o.call /\ told.waiting = o.waiting
      /\ told.timeout = o.timeout /\ told.idle = o.idle /\ told.error = o.error
      /\ told.leaked = o.leaked /\ told.userCancelled = o.userCancelled
      /\ told.completions = o.completions + 1
      /\ o.completions = 0 => told.outcome = outcome
      /\ o.completions = 0 /\ outcome = "continue" => told.answered = cl.lastQuestion
  <2>1. OpShape(o) /\ DOMAIN o = OpFields
    BY DEF Shape, OpShape
  <2> HIDE DEF o
  <2>2. QED
    BY <2>1 DEF Told, OpShape, OpFields
<1> HIDE DEF told
<1>6. /\ Shape(d) /\ d.op[k] = told
      /\ \A j \in OpIndex : j # k => d.op[j] = base.op[j]
      /\ \A n \in ClientFields : n # "op" => d[n] = base[n]
  BY <1>1, <1>4, <1>5, PutFields
<1> HIDE DEF d
<1>7. /\ d.pending = base.pending /\ d.last = base.last /\ d.closed = base.closed
      /\ Only(cl, d, k)
  BY <1>4, <1>6 DEF ClientFields, Only
<1>8. QED
  BY <1>2, <1>3, <1>4, <1>5, <1>6, <1>7 DEF d

\* An operation whose result is due: it is completed for the first time, and
\* question k with its own answer, an error or a refusal.
Due(cl, k) ==
    LET o == cl.op[k] IN
    /\ ~o.userCancelled
    /\ k = OpenOp => ~o.leaked /\ (Impatient = {} => ~o.timeout)
    /\ k \in Questions =>
          /\ o.error # "none" \/ cl.last # "yes" \/ cl.lastQuestion = k
          /\ ~cl.closed /\ o.leaked => ~o.waiting
    /\ Counted(k) => /\ o.completions = 0 /\ o.idle = 0 /\ o.started
                     /\ o.call = "none" /\ cl.pending # k

\* An operation that is due is completed well,
LEMMA DueIsFine ==
    ASSUME NEW cl, Shape(cl), NEW k \in OpIndex, Due(cl, k)
    PROVE  Fine(Complete(cl, k), k)
<1> DEFINE d == Complete(cl, k)
           o == cl.op[k]
           p == d.op[k]
<1>1. /\ d.pending = cl.pending
      /\ cl.closed => d.closed
      /\ p.started = o.started /\ p.call = o.call /\ p.waiting = o.waiting
      /\ p.timeout = o.timeout /\ p.idle = o.idle /\ p.error = o.error
      /\ p.leaked = o.leaked /\ p.userCancelled = o.userCancelled
      /\ p.completions = o.completions + 1
      /\ o.completions = 0 /\ p.outcome = "continue" =>
            /\ o.error = "none" /\ cl.last = "yes" /\ p.answered = cl.lastQuestion
  BY CompleteTells
<1> HIDE DEF d
<1>2. ASSUME Counted(k) PROVE Once(d, k) /\ p.completions = 1
  BY <1>1, <1>2 DEF Due, Once
<1>3. ASSUME k \in Questions PROVE Honest(d, k)
  <2>1. Counted(k)
    BY <1>3 DEF Counted
  <2>2. ~Undone(d, k)
    BY <1>2, <2>1 DEF Undone
  <2>3. p.outcome = "continue" => p.answered = k
    BY <1>1, <1>3, <2>1 DEF Due
  <2>4. p.call = "none" /\ (~d.closed /\ p.leaked => ~p.waiting)
    BY <1>1, <1>3, <2>1 DEF Due
  <2>5. QED
    BY <2>2, <2>3, <2>4 DEF Honest
<1>4. QED
  BY <1>1, <1>2, <1>3 DEF Fine, Due, d

\* and its prompt goes on telling the truth.
LEMMA CompleteTruthful ==
    ASSUME NEW cl, Shape(cl), NEW k \in OpIndex, Due(cl, k),
           \A j \in OpIndex : j # k => Fine(cl, j),
           k = OpenOp /\ cl.op[k].error # "none" /\ ~cl.closed =>
              \A j \in Questions : ~Undone(cl, j)
    PROVE  Truthful(Complete(cl, k))
<1> DEFINE d == Complete(cl, k)
<1>1. /\ Only(cl, d, k) /\ d.pending = cl.pending /\ d.last = cl.last
      /\ d.closed <=> cl.closed \/ (k = OpenOp /\ cl.op[k].error # "none")
  BY CompleteTells
<1>2. Fine(d, k)
  BY DueIsFine
<1> HIDE DEF d
<1>3. ASSUME NEW j \in Questions, j # k, Undone(cl, j) PROVE Bound(d, j)
  <2>1. j \in OpIndex
    BY Indices
  <2>2. d.op[j] = cl.op[j] /\ Bound(cl, j)
    BY <1>1, <1>3, <2>1 DEF Only, Fine, Honest
  <2>3. d.closed <=> cl.closed
    BY <1>1, <1>3
  <2>4. QED
    BY <1>1, <2>2, <2>3 DEF Bound
<1>4. Truthful(d)
  BY <1>1, <1>2, <1>3, TruthfulAgain
<1>5. QED
  BY <1>4 DEF d

\* What perform_close leaves.
LEMMA PerformCloseLeaves ==
    ASSUME NEW cl, Shape(cl)
    PROVE  LET d == PerformClose(cl)
               k == cl.pending
           IN
           /\ Shape(d) /\ d.closed /\ d.pending = NoOp /\ d.last = cl.last
           /\ k = NoOp => d.op = cl.op
           /\ k # NoOp => /\ k \in OpIndex /\ Only(cl, d, k)
                          /\ d.op[k] = [cl.op[k] EXCEPT !.cancelled = TRUE, !.idle = @ + 1]
<1> DEFINE cut == [cl EXCEPT !.closed = TRUE, !.pending = NoOp, !.exported = FALSE,
                             !.begun = FALSE]
           d == PerformClose(cl)
           k == cl.pending
           p == [cl.op[k] EXCEPT !.cancelled = TRUE, !.idle = @ + 1]
<1>1. /\ Shape(cut) /\ cut.op = cl.op /\ cut.pending = NoOp /\ cut.closed = TRUE
      /\ cut.last = cl.last
  BY DEF Shape, ClientFields
<1>2. d = IF k = NoOp THEN cut ELSE Put(cut, k, p)
  BY DEF PerformClose
<1> HIDE DEF cut, d
<1>3. CASE k = NoOp
  BY <1>1, <1>2, <1>3 DEF d
<1>4. CASE k # NoOp
  <2>1. k \in OpIndex
    BY <1>4 DEF Shape
  <2>2. OpShape(p)
    BY <1>1, <2>1 DEF Shape, OpShape, OpFields
  <2>3. d = Put(cut, k, p)
    BY <1>2, <1>4
  <2> DEFINE q == p
  <2>4. q = [cl.op[k] EXCEPT !.cancelled = TRUE, !.idle = @ + 1]
    OBVIOUS
  <2> HIDE DEF q
  <2>5. OpShape(q) /\ d = Put(cut, k, q)
    BY <2>2, <2>3 DEF q
  <2>6. /\ Shape(d) /\ d.op[k] = q
        /\ \A j \in OpIndex : j # k => d.op[j] = cut.op[j]
        /\ \A n \in ClientFields : n # "op" => d[n] = cut[n]
    BY <1>1, <2>1, <2>5, PutFields
  <2>7. d.closed /\ d.pending = NoOp /\ d.last = cl.last /\ Only(cl, d, k)
    BY <1>1, <2>6 DEF ClientFields, Only
  <2>8. QED
    BY <1>4, <2>1, <2>4, <2>6, <2>7 DEF d
<1>5. QED
  BY <1>3, <1>4

\* Closing a prompt none of whose questions could still be told an answer.
LEMMA CloseTruthful ==
    ASSUME NEW cl, Shape(cl), Truthful(cl),
           \A j \in Questions : Undone(cl, j) => cl.op[j].error # "none" \/ cl.last # "yes",
           cl.pending # NoOp /\ Counted(cl.pending) =>
              cl.op[cl.pending].call = "none" /\ cl.op[cl.pending].started
    PROVE  Truthful(PerformClose(cl))
<1> DEFINE d == PerformClose(cl)
           k == cl.pending
           p == [cl.op[k] EXCEPT !.cancelled = TRUE, !.idle = @ + 1]
<1>1. /\ Shape(d) /\ d.closed /\ d.pending = NoOp /\ d.last = cl.last
      /\ k = NoOp => d.op = cl.op
      /\ k # NoOp => k \in OpIndex /\ Only(cl, d, k) /\ d.op[k] = p
  BY PerformCloseLeaves
<1>2. OpenOp \in OpIndex /\ \A j \in Questions : j \in OpIndex /\ j # OpenOp
  BY Indices
<1> HIDE DEF d
<1>3. CASE k = NoOp
  <2>1. Only(cl, d, OpenOp) /\ d.op[OpenOp] = cl.op[OpenOp]
    BY <1>1, <1>2, <1>3 DEF Only
  <2>2. Fine(d, OpenOp)
    BY <1>1, <1>2, <1>3, <2>1 DEF Fine, Truthful, Once
  <2>3. ASSUME NEW j \in Questions, j # OpenOp, Undone(cl, j) PROVE Bound(d, j)
    BY <1>1, <1>3, <2>3 DEF Bound
  <2>4. QED
    BY <1>1, <1>2, <2>1, <2>2, <2>3, TruthfulAgain DEF Truthful, d
<1>4. CASE k # NoOp
  <2>1. k \in OpIndex /\ Only(cl, d, k) /\ d.op[k] = p /\ Fine(cl, k)
    BY <1>1, <1>4 DEF Truthful
  <2>2. LET o == cl.op[k] IN
        /\ p.started = o.started /\ p.call = o.call /\ p.waiting = o.waiting
        /\ p.timeout = o.timeout /\ p.idle = o.idle + 1 /\ p.error = o.error
        /\ p.leaked = o.leaked /\ p.userCancelled = o.userCancelled
        /\ p.completions = o.completions /\ p.outcome = o.outcome
        /\ p.answered = o.answered
    BY <2>1 DEF Shape, OpShape, OpFields
  <2> HIDE DEF p
  <2>3. ASSUME k \in Questions PROVE Honest(d, k)
    BY <1>1, <2>1, <2>2, <2>3 DEF Fine, Honest, Undone, Bound
  <2>4. ASSUME Counted(k) PROVE Once(d, k)
    <3>1. /\ cl.op[k].completions = 0 /\ cl.op[k].idle = 0
          /\ cl.op[k].call = "none" /\ cl.op[k].started
      BY <1>4, <2>1, <2>4 DEF Fine, Once
    <3>2. k # NoOp /\ d.pending = NoOp
      BY <1>1, <1>4
    <3>3. QED
      BY <2>1, <2>2, <3>1, <3>2 DEF Once
  <2>5. Fine(d, k)
    BY <2>1, <2>2, <2>3, <2>4 DEF Fine
  <2>6. ASSUME NEW j \in Questions, j # k, Undone(cl, j) PROVE Bound(d, j)
    BY <1>1, <1>2, <2>1, <2>6 DEF Bound, Only
  <2>7. QED
    BY <1>1, <2>1, <2>5, <2>6, TruthfulAgain DEF Truthful, d
<1>5. QED
  BY <1>3, <1>4

-----------------------------------------------------------------------------
(* The steps of a prompt, where nothing is cancelled.                      *)

\* What being in step comes to for a prompt that is not closed.
Harmony(cl, in) ==
    /\ Sane(cl)
    /\ ~cl.closed =>
          /\ \A k \in OpIndex : cl.op[k].idle = 0
          /\ \A k \in Questions : cl.op[k].call # "none" => cl.pending = k
          /\ cl.pending \in Questions => /\ Undone(cl, cl.pending)
                                         /\ Concerns(in, Ready, {cl.pending})

\* What the invariant of the first theorems says of such a prompt.
LEMMA InHarmony ==
    ASSUME NEW cl, Truthful(cl), NEW in, NEW out, NEW wait, NEW ask, NEW about, NEW there,
           Locked(cl, in, out, wait, ask, about, there)
    PROVE  Harmony(cl, in)
<1>1. ASSUME ~cl.closed PROVE ~Spoiled(cl)
  BY <1>1 DEF Spoiled, Truthful, Fine
<1>2. ASSUME ~cl.closed PROVE InStep(cl, in, out, wait, ask, about)
  BY <1>1, <1>2 DEF Locked, Good
<1>3. Sane(cl)
  BY DEF Locked
<1>4. QED
  BY <1>2, <1>3 DEF Harmony, InStep, Asked, Undone

\* An operation whose sources fire is the one that is pending, as far as a
\* question waits for an answer.
LEMMA AliveIsPending ==
    ASSUME NEW cl, ClientWell(cl), Truthful(cl), NEW in, Harmony(cl, in), ~cl.closed,
           NEW k \in OpIndex, Alive(cl, k), cl.op[k].waiting \/ k = OpenOp,
           cl.pending \in OpIndex \/ k \in Questions
    PROVE  cl.pending = k /\ cl.op[k].call = "none"
<1>1. /\ Fine(cl, k) /\ cl.op[k].idle = 0
      /\ k \in Questions \/ k = OpenOp
      /\ OpenOp \notin Questions
  BY Indices DEF Truthful, Harmony
<1>2. CASE k \in Questions
  <2>1. Honest(cl, k) /\ cl.op[k].waiting
    BY <1>1, <1>2 DEF Fine
  <2>2. cl.op[k].call = "none" /\ ~cl.op[k].leaked
    BY <2>1 DEF Honest
  <2>3. QED
    BY <1>1, <2>2 DEF Alive
<1>3. CASE k = OpenOp
  <2>1. cl.pending # NoOp /\ ~cl.op[k].leaked
    BY <1>1, <1>3, Indices DEF Fine
  <2>2. ~Fresh(cl) /\ ~Beginning(cl)
    BY <2>1 DEF ClientWell, Unopened
  <2>3. cl.op[k].call = "none"
    BY <1>3, <2>2 DEF Fresh, Beginning, ClientWell, OpenWell, Harmony, Sane
  <2>4. QED
    BY <1>1, <2>1, <2>3 DEF Alive
<1>4. QED
  BY <1>1, <1>2, <1>3

\* gcr_system_prompt_open_async.
LEMMA OpenTells ==
    ASSUME ProtocolInv, NEW c \in Callback, Truthful(client[c]), Open(c)
    PROVE  Truthful(client'[c])
<1> DEFINE cl == client[c]
           o == [NewOp EXCEPT !.started = TRUE, !.call = "connect"]
           d == Put(cl, OpenOp, o)
<1>1. Become(c, d) /\ ~cl.op[OpenOp].started
  BY DEF Open
<1>2. Shape(cl) /\ Unopened(cl) /\ OpenOp \in OpIndex /\ OpenOp \notin Questions
  BY <1>1, Indices DEF ProtocolInv, ClientWell, Fresh
<1>3. /\ OpShape(o) /\ o.started /\ o.call = "connect" /\ o.idle = 0 /\ o.leaked = FALSE
      /\ o.userCancelled = FALSE /\ o.timeout = FALSE /\ o.completions = 0
  BY DEF NewOp, OpShape, OpFields
<1> HIDE DEF o
<1>4. /\ Shape(d) /\ d.op[OpenOp] = o
      /\ \A j \in OpIndex : j # OpenOp => d.op[j] = cl.op[j]
      /\ \A n \in ClientFields : n # "op" => d[n] = cl[n]
  BY <1>2, <1>3, PutFields
<1> HIDE DEF d
<1>5. /\ d.closed = cl.closed /\ d.pending = cl.pending /\ d.last = cl.last
      /\ Only(cl, d, OpenOp)
  BY <1>4 DEF ClientFields, Only
<1>6. Fine(d, OpenOp)
  BY <1>2, <1>3, <1>4 DEF Fine, Once
<1>7. Truthful(d)
  BY <1>2, <1>5, <1>6, TruthfulBut
<1>8. QED
  BY <1>1, <1>7, Becomes

\* gcr_prompt_password_async and gcr_prompt_confirm_async.
LEMMA PerformTells ==
    ASSUME ProtocolInv, Calm, NEW c \in Callback, Truthful(client[c]),
           NEW k \in Questions, NEW b \in BOOLEAN, PerformPromptAsync(c, k, b)
    PROVE  Truthful(client'[c])
<1> DEFINE cl == client[c]
           o == [NewOp EXCEPT !.started = TRUE, !.userCancelled = b, !.cancelled = b]
           p == [o EXCEPT !.idle = 1]
           q == [o EXCEPT !.call = "perform"]
           d == [Put(cl, k, p) EXCEPT !.last = "none"]
           e == [Put(cl, k, q) EXCEPT !.pending = k, !.exported = TRUE,
                       !.awaited = IF b THEN @ ELSE Append(@, k)]
<1>1. b = FALSE
  BY DEF Calm, PerformPromptAsync
<1>2. /\ ~cl.op[k].started /\ cl.pending = NoOp
      /\ (cl.closed /\ Become(c, d)) \/ (~cl.closed /\ Become(c, e))
  BY DEF PerformPromptAsync
<1>3. Shape(cl) /\ k \in OpIndex /\ k # OpenOp
  BY Indices DEF ProtocolInv, ClientWell
<1>4. /\ OpShape(p) /\ p.started /\ p.call = "none" /\ p.idle = 1 /\ p.leaked = FALSE
      /\ p.userCancelled = FALSE /\ p.completions = 0 /\ p.outcome = "none"
      /\ OpShape(q) /\ q.started /\ q.call = "perform" /\ q.idle = 0 /\ q.leaked = FALSE
      /\ q.userCancelled = FALSE /\ q.completions = 0 /\ q.outcome = "none"
      /\ q.waiting = FALSE
  BY <1>1 DEF NewOp, OpShape, OpFields
<1> HIDE DEF o, p, q
<1>5. /\ Shape(Put(cl, k, p)) /\ Put(cl, k, p).op[k] = p
      /\ \A j \in OpIndex : j # k => Put(cl, k, p).op[j] = cl.op[j]
      /\ \A n \in ClientFields : n # "op" => Put(cl, k, p)[n] = cl[n]
  BY <1>3, <1>4, PutFields
<1>6. /\ Shape(Put(cl, k, q)) /\ Put(cl, k, q).op[k] = q
      /\ \A j \in OpIndex : j # k => Put(cl, k, q).op[j] = cl.op[j]
      /\ \A n \in ClientFields : n # "op" => Put(cl, k, q)[n] = cl[n]
  BY <1>3, <1>4, PutFields
<1>7. CASE cl.closed /\ Become(c, d)
  <2>1. /\ d.op[k] = p /\ Only(cl, d, k) /\ d.closed /\ d.pending = NoOp
        /\ d.last = "none"
    BY <1>2, <1>5, <1>7 DEF Only, Shape, ClientFields
  <2> HIDE DEF d
  <2>2. Honest(d, k)
    BY <1>4, <2>1 DEF Honest, Bound
  <2>3. Once(d, k)
    BY <1>3, <1>4, <2>1, Indices DEF Once
  <2>4. Fine(d, k)
    BY <1>3, <1>4, <2>1, <2>2, <2>3 DEF Fine
  <2>5. \A j \in Questions : Bound(d, j)
    BY <2>1 DEF Bound
  <2>6. Truthful(d)
    BY <1>3, <2>1, <2>4, <2>5, TruthfulAgain DEF Truthful
  <2>7. QED
    BY <1>7, <2>6, Becomes
<1>8. CASE ~cl.closed /\ Become(c, e)
  <2>1. /\ e.op[k] = q /\ Only(cl, e, k) /\ ~e.closed /\ e.pending = k
    BY <1>6, <1>8 DEF Only, Shape, ClientFields
  <2> HIDE DEF e
  <2>2. Honest(e, k)
    BY <1>4, <2>1 DEF Honest, Bound
  <2>3. Once(e, k)
    BY <1>4, <2>1 DEF Once
  <2>4. Fine(e, k)
    BY <1>3, <1>4, <2>1, <2>2, <2>3 DEF Fine
  <2>5. ASSUME NEW j \in Questions, Undone(cl, j) PROVE FALSE
    <3>1. j \in OpIndex /\ j # NoOp
      BY Indices
    <3>2. Bound(cl, j)
      BY <2>5, <3>1 DEF Truthful, Fine, Honest
    <3>3. QED
      BY <1>2, <1>8, <3>1, <3>2 DEF Bound
  <2>6. Truthful(e)
    BY <1>3, <1>8, <2>1, <2>4, <2>5, TruthfulAgain DEF Truthful
  <2>7. QED
    BY <1>8, <2>6, Becomes
<1>9. QED
  BY <1>2, <1>7, <1>8

\* gcr_prompt_close and gcr_system_prompt_close_async: every operation that was
\* started has completed.
LEMMA CloseTells ==
    ASSUME ProtocolInv, Calm, NEW c \in Callback, Truthful(client[c]),
           Harmony(client[c], inbox[c]), RealClose(c) \/ CloseAsync(c)
    PROVE  Truthful(client'[c]) /\ client'[c].closed
<1> DEFINE cl == client[c]
           e == PerformClose(cl)
           k == cl.pending
<1>1. Shape(cl) /\ Clean(cl) /\ MayCallClose(c)
  BY DEF ProtocolInv, ClientWell, RealClose, CloseAsync
<1>2. \A j \in OpIndex : cl.op[j].started => cl.op[j].completions > 0
  BY <1>1 DEF MayCallClose, Calm
<1>3. \A j \in Questions : ~Undone(cl, j)
  BY <1>2, Indices DEF Undone
<1>4. ASSUME k # NoOp, Counted(k) PROVE FALSE
  <2>1. k \in OpIndex
    BY <1>1, <1>4 DEF Shape
  <2>2. cl.op[k].started /\ cl.op[k].completions = 0
    BY <1>4, <2>1 DEF Truthful, Fine, Once, Harmony, Sane
  <2>3. QED
    BY <1>2, <2>1, <2>2
<1>5. Truthful(e) /\ Shape(e) /\ e.closed
  BY <1>1, <1>3, <1>4, CloseTruthful, PerformCloseLeaves
<1> HIDE DEF e
<1>6. \E x : Become(c, e) \/ Become(c, [e EXCEPT !.closing = x])
  BY DEF RealClose, CloseAsync, e
<1>7. PICK x : Become(c, e) \/ Become(c, [e EXCEPT !.closing = x])
  BY <1>6
<1> DEFINE d == [e EXCEPT !.closing = x]
<1>8. d.op = e.op /\ d.closed = e.closed /\ d.pending = e.pending /\ d.last = e.last
  BY <1>5 DEF Shape, ClientFields
<1> HIDE DEF d
<1>9. Truthful(d)
  BY <1>5, <1>8, TruthfulStill
<1>10. Become(c, e) \/ Become(c, d)
  BY <1>7 DEF d
<1>11. client'[c] = e \/ client'[c] = d
  BY <1>10, Becomes
<1>12. QED
  BY <1>5, <1>8, <1>9, <1>11

\* on_prompter_stop_prompting, and closing that completes.
LEMMA ClosingTells ==
    ASSUME ProtocolInv, NEW c \in Callback, Truthful(client[c]),
           ReceiveStopReply(c) \/ CloseIdleFires(c)
    PROVE  Truthful(client'[c])
<1> DEFINE cl == client[c]
<1>1. \E x : Become(c, [cl EXCEPT !.closing = x])
  BY DEF ReceiveStopReply, CloseIdleFires
<1>2. PICK x : Become(c, [cl EXCEPT !.closing = x])
  BY <1>1
<1> DEFINE d == [cl EXCEPT !.closing = x]
<1>3. Shape(cl)
  BY DEF ProtocolInv, ClientWell
<1>4. d.op = cl.op /\ d.closed = cl.closed /\ d.pending = cl.pending /\ d.last = cl.last
  BY <1>3 DEF Shape, ClientFields
<1>5. Become(c, d)
  BY <1>2
<1> HIDE DEF d
<1>6. Truthful(d)
  BY <1>4, TruthfulStill
<1>7. QED
  BY <1>5, <1>6, Becomes

\* on_call_cancelled.
LEMMA WaitingTells ==
    ASSUME ProtocolInv, NEW c \in Callback, Truthful(client[c]),
           Harmony(client[c], inbox[c]), NEW k \in OpIndex, WaitingFires(c, k)
    PROVE  Truthful(client'[c]) /\ client'[c].closed
<1> DEFINE cl == client[c]
           o == cl.op[k]
           p == [o EXCEPT !.waiting = FALSE, !.error = "cancelled"]
           e == Put(cl, k, p)
           d == PerformClose(e)
<1>1. Become(c, d) /\ Alive(cl, k) /\ o.waiting
  BY DEF WaitingFires, WaitingDue
<1>2. ClientWell(cl) /\ Shape(cl) /\ Clean(cl) /\ Fine(cl, k)
  BY DEF ProtocolInv, ClientWell, Truthful
<1>3. /\ OpShape(p) /\ p.started = o.started /\ p.call = o.call /\ p.idle = o.idle
      /\ p.timeout = o.timeout /\ p.error = "cancelled" /\ p.waiting = FALSE
      /\ p.leaked = o.leaked /\ p.userCancelled = o.userCancelled
      /\ p.completions = o.completions /\ p.outcome = o.outcome /\ p.answered = o.answered
  BY <1>2 DEF Shape, OpShape, OpFields
<1> HIDE DEF p
<1>4. /\ Shape(e) /\ e.op[k] = p
      /\ \A j \in OpIndex : j # k => e.op[j] = cl.op[j]
      /\ \A n \in ClientFields : n # "op" => e[n] = cl[n]
  BY <1>2, <1>3, PutFields
<1> HIDE DEF e
<1>5. /\ e.closed = cl.closed /\ e.pending = cl.pending /\ e.last = cl.last
      /\ Only(cl, e, k)
  BY <1>4 DEF ClientFields, Only
<1>6. Fine(e, k)
  <2>1. k \in Questions => Honest(e, k)
    BY <1>2, <1>3, <1>4, <1>5 DEF Fine, Honest, Undone, Bound
  <2>2. Counted(k) => Once(e, k)
    BY <1>2, <1>3, <1>4, <1>5 DEF Fine, Once
  <2>3. QED
    BY <1>2, <1>3, <1>4, <2>1, <2>2 DEF Fine
<1>7. Truthful(e)
  BY <1>5, <1>6, TruthfulBut
<1>8. ASSUME NEW j \in Questions, Undone(e, j) PROVE e.op[j].error # "none" \/ e.last # "yes"
  <2>1. j \in OpIndex /\ Honest(e, j)
    BY <1>7, Indices DEF Truthful, Fine
  <2>2. CASE cl.closed
    BY <1>5, <1>8, <2>1, <2>2 DEF Honest, Bound
  <2>3. CASE ~cl.closed
    <3>1. cl.pending = j
      BY <1>5, <1>8, <2>1, <2>3 DEF Honest, Bound
    <3>2. cl.pending = k
      BY <1>1, <1>2, <2>1, <2>3, <3>1, AliveIsPending
    <3>3. QED
      BY <1>3, <1>4, <3>1, <3>2
  <2>4. QED
    BY <2>2, <2>3
<1>9. ASSUME e.pending # NoOp PROVE e.op[e.pending].call = "none" /\ e.op[e.pending].started
  <2>1. cl.pending \in OpIndex /\ ~cl.closed
    BY <1>2, <1>5, <1>9 DEF Shape, Clean
  <2>2. cl.pending = k /\ o.call = "none"
    BY <1>1, <1>2, <2>1, AliveIsPending
  <2>3. QED
    BY <1>1, <1>3, <1>4, <1>5, <2>2 DEF Alive
<1>10. Truthful(d) /\ d.closed
  BY <1>4, <1>7, <1>8, <1>9, CloseTruthful, PerformCloseLeaves
<1> HIDE DEF d
<1>11. QED
  BY <1>1, <1>10, Becomes

\* prompt_method_done: nobody has stopped this prompt, unless it is closed.
LEMMA DoneTells ==
    ASSUME ProtocolInv, NEW c \in Callback, Truthful(client[c]), client[c].closed,
           ReceivePromptDone(c)
    PROVE  Truthful(client'[c]) /\ client'[c].closed
<1>1. Clean(client[c])
  BY DEF ProtocolInv, ClientWell
<1>2. ~client[c].exported
  BY <1>1 DEF Clean
<1>3. client' = client
  BY <1>2 DEF ReceivePromptDone
<1>4. QED
  BY <1>3

\* on_call_timeout.
LEMMA TimeoutTells ==
    ASSUME ProtocolInv, NEW c \in Callback, Truthful(client[c]),
           Harmony(client[c], inbox[c]), TimeoutFires(c)
    PROVE  Truthful(client'[c]) /\ client'[c].closed
<1> DEFINE cl == client[c]
           p == [cl.op[OpenOp] EXCEPT !.timeout = FALSE]
           e == Put(cl, OpenOp, p)
           d == PerformClose(e)
           q == [d.op[OpenOp] EXCEPT !.error = "in-progress"]
           f == Put(d, OpenOp, q)
           g == Complete(f, OpenOp)
<1>1. /\ OpenOp \in OpIndex /\ OpenOp \notin Questions
      /\ \A j \in Questions : j \in OpIndex /\ j # OpenOp
  BY Indices
<1>2. ClientWell(cl) /\ Shape(cl) /\ Clean(cl) /\ Fine(cl, OpenOp)
  BY <1>1 DEF ProtocolInv, ClientWell, Truthful
<1>3. Become(c, g) /\ Alive(cl, OpenOp) /\ ~Counted(OpenOp)
  BY <1>1, <1>2 DEF TimeoutFires, Fine, Counted
<1>4. /\ OpShape(p) /\ p.userCancelled = cl.op[OpenOp].userCancelled
      /\ p.leaked = cl.op[OpenOp].leaked
  BY <1>1, <1>2 DEF Shape, OpShape, OpFields
<1> HIDE DEF p
<1>5. /\ Shape(e) /\ e.op[OpenOp] = p
      /\ \A j \in OpIndex : j # OpenOp => e.op[j] = cl.op[j]
      /\ \A n \in ClientFields : n # "op" => e[n] = cl[n]
  BY <1>1, <1>2, <1>4, PutFields
<1> HIDE DEF e
<1>6. /\ e.closed = cl.closed /\ e.pending = cl.pending /\ e.last = cl.last
      /\ Only(cl, e, OpenOp)
  BY <1>5 DEF ClientFields, Only
<1>7. Fine(e, OpenOp)
  BY <1>1, <1>2, <1>3, <1>4, <1>5 DEF Fine, Counted
<1>8. Truthful(e)
  BY <1>1, <1>6, <1>7, TruthfulBut
<1>9. ASSUME ~cl.closed, cl.pending \in OpIndex PROVE cl.pending = OpenOp
  BY <1>1, <1>2, <1>3, <1>9, AliveIsPending
<1>10. ASSUME NEW j \in Questions, Undone(e, j) PROVE e.op[j].error # "none" \/ e.last # "yes"
  <2>1. Bound(e, j)
    BY <1>1, <1>8, <1>10 DEF Truthful, Fine, Honest
  <2>2. QED
    BY <1>1, <1>6, <1>9, <2>1 DEF Bound
<1>11. ASSUME e.pending # NoOp, Counted(e.pending) PROVE FALSE
  <2>1. ~cl.closed /\ cl.pending \in OpIndex
    BY <1>2, <1>6, <1>11 DEF Shape, Clean
  <2>2. QED
    BY <1>3, <1>6, <1>9, <1>11, <2>1
<1>12. Truthful(d) /\ d.closed /\ Shape(d)
  BY <1>5, <1>8, <1>10, <1>11, CloseTruthful, PerformCloseLeaves
<1> HIDE DEF d
<1>13. /\ OpShape(q) /\ q.userCancelled = d.op[OpenOp].userCancelled
       /\ q.leaked = d.op[OpenOp].leaked
  BY <1>1, <1>12 DEF Shape, OpShape, OpFields
<1> HIDE DEF q
<1>14. /\ Shape(f) /\ f.op[OpenOp] = q
       /\ \A j \in OpIndex : j # OpenOp => f.op[j] = d.op[j]
       /\ \A n \in ClientFields : n # "op" => f[n] = d[n]
  BY <1>1, <1>12, <1>13, PutFields
<1> HIDE DEF f
<1>15. /\ f.closed = d.closed /\ f.pending = d.pending /\ f.last = d.last
       /\ Only(d, f, OpenOp)
  BY <1>14 DEF ClientFields, Only
<1>16. Fine(d, OpenOp)
  BY <1>1, <1>12 DEF Truthful
<1>17. Fine(f, OpenOp)
  BY <1>1, <1>3, <1>13, <1>14, <1>16 DEF Fine, Counted
<1>18. Truthful(f)
  BY <1>1, <1>12, <1>15, <1>17, TruthfulBut
<1>19. Due(f, OpenOp)
  BY <1>1, <1>3, <1>17 DEF Due, Fine, Counted
<1>20. Truthful(g) /\ g.closed
  BY <1>1, <1>12, <1>14, <1>15, <1>18, <1>19, CompleteTruthful, CompleteTells DEF Truthful
<1> HIDE DEF g
<1>21. QED
  BY <1>3, <1>20, Becomes

\* The callback of complete_in_idle.
LEMMA IdleTells ==
    ASSUME ProtocolInv, NEW c \in Callback, Truthful(client[c]),
           Harmony(client[c], inbox[c]), NEW k \in OpIndex, IdleFires(c, k)
    PROVE  Truthful(client'[c]) /\ client'[c].closed
<1> DEFINE cl == client[c]
           o == cl.op[k]
           p == [o EXCEPT !.idle = @ - 1]
           e == Put(cl, k, p)
           d == Complete(e, k)
<1>1. Become(c, d) /\ o.idle > 0
  BY DEF IdleFires
<1>2. Shape(cl) /\ Fine(cl, k)
  BY DEF ProtocolInv, ClientWell, Truthful
<1>3. cl.closed
  BY <1>1 DEF Harmony
<1>4. ASSUME Counted(k)
      PROVE  /\ o.idle = 1 /\ o.completions = 0 /\ o.started /\ o.call = "none"
             /\ cl.pending # k
  <2>1. /\ o.completions \in Nat /\ o.idle \in Nat /\ o.completions + o.idle <= 1
        /\ cl.pending = k \/ o.call # "none" \/ ~o.started => o.completions = 0 /\ o.idle = 0
    BY <1>2, <1>4 DEF Fine, Once
  <2>2. o.idle > 0
    BY <1>1
  <2> HIDE DEF o
  <2>3. o.idle = 1 /\ o.completions = 0
    BY <2>1, <2>2
  <2>4. QED
    BY <2>1, <2>3
<1>5. /\ OpShape(p) /\ p.started = o.started /\ p.call = o.call /\ p.idle = o.idle - 1
      /\ p.timeout = o.timeout /\ p.error = o.error /\ p.waiting = o.waiting
      /\ p.leaked = o.leaked /\ p.userCancelled = o.userCancelled
      /\ p.completions = o.completions
  BY <1>2 DEF Shape, OpShape, OpFields
<1> HIDE DEF p
<1>6. /\ Shape(e) /\ e.op[k] = p
      /\ \A j \in OpIndex : j # k => e.op[j] = cl.op[j]
      /\ \A n \in ClientFields : n # "op" => e[n] = cl[n]
  BY <1>2, <1>5, PutFields
<1> HIDE DEF e
<1>7. e.closed = cl.closed /\ e.pending = cl.pending /\ e.last = cl.last
  BY <1>6 DEF ClientFields
<1>8. Due(e, k)
  <2>1. ASSUME k \in Questions PROVE o.error # "none" \/ cl.last # "yes"
    <3>1. Counted(k) /\ Honest(cl, k)
      BY <1>2, <2>1 DEF Counted, Fine
    <3>2. QED
      BY <1>3, <1>4, <3>1 DEF Honest, Undone, Bound
  <2>2. Counted(k) => o.idle - 1 = 0
    BY <1>4
  <2>3. QED
    BY <1>2, <1>3, <1>4, <1>5, <1>6, <1>7, <2>1, <2>2 DEF Due, Fine
<1>9. ASSUME NEW j \in OpIndex, j # k PROVE Fine(e, j)
  <2>1. Fine(cl, j) /\ e.op[j] = cl.op[j]
    BY <1>6, <1>9 DEF Truthful
  <2>2. j \in Questions => Honest(e, j)
    BY <1>7, <2>1 DEF Fine, Honest, Undone, Bound
  <2>3. Counted(j) => Once(e, j)
    BY <1>7, <2>1 DEF Fine, Once
  <2>4. QED
    BY <2>1, <2>2, <2>3 DEF Fine
<1>10. Truthful(d) /\ d.closed
  BY <1>3, <1>6, <1>7, <1>8, <1>9, CompleteTruthful, CompleteTells
<1> HIDE DEF d
<1>11. QED
  BY <1>1, <1>10, Becomes

\* Opening fails.
LEMMA OpeningFailsTells ==
    ASSUME NEW cl, ClientWell(cl), Truthful(cl),
           cl.op[OpenOp].call \in {"connect", "begin"}, NEW error
    PROVE  Truthful(Complete(Put(cl, OpenOp, [cl.op[OpenOp] EXCEPT !.call = "none",
                                                                !.error = error]), OpenOp))
<1> DEFINE o == cl.op[OpenOp]
           p == [o EXCEPT !.call = "none", !.error = error]
           e == Put(cl, OpenOp, p)
<1>1. /\ OpenOp \in OpIndex /\ OpenOp \notin Questions
      /\ \A j \in Questions : j \in OpIndex /\ j # OpenOp
      /\ OpenOp # NoOp
  BY Indices
<1>2. Shape(cl) /\ Fine(cl, OpenOp) /\ Unopened(cl) /\ OpenWell(cl)
  BY <1>1 DEF ClientWell, Truthful, Fresh, Beginning
<1>3. /\ OpShape(p) /\ p.started = o.started /\ p.call = "none" /\ p.idle = o.idle
      /\ p.timeout = o.timeout /\ p.leaked = o.leaked
      /\ p.userCancelled = o.userCancelled /\ p.completions = o.completions
  BY <1>1, <1>2 DEF Shape, OpShape, OpFields
<1>4. Counted(OpenOp) => o.completions = 0 /\ o.idle = 0 /\ o.started /\ cl.pending = NoOp
  BY <1>2 DEF Fine, Once, OpenWell, Unopened
<1> HIDE DEF p
<1>5. /\ Shape(e) /\ e.op[OpenOp] = p
      /\ \A j \in OpIndex : j # OpenOp => e.op[j] = cl.op[j]
      /\ \A n \in ClientFields : n # "op" => e[n] = cl[n]
  BY <1>1, <1>2, <1>3, PutFields
<1> HIDE DEF e
<1>6. e.closed = cl.closed /\ e.pending = cl.pending /\ e.last = cl.last
  BY <1>5 DEF ClientFields
<1>7. Due(e, OpenOp)
  BY <1>1, <1>2, <1>3, <1>4, <1>5, <1>6 DEF Due, Fine
<1>8. ASSUME NEW j \in OpIndex, j # OpenOp PROVE Fine(e, j)
  <2>1. Fine(cl, j) /\ e.op[j] = cl.op[j]
    BY <1>5, <1>8 DEF Truthful
  <2>2. j \in Questions => Honest(e, j)
    BY <1>6, <2>1 DEF Fine, Honest, Undone, Bound
  <2>3. Counted(j) => Once(e, j)
    BY <1>6, <2>1 DEF Fine, Once
  <2>4. QED
    BY <1>8, <2>1, <2>2, <2>3 DEF Fine
<1>9. \A j \in Questions : ~Undone(e, j)
  BY <1>1, <1>2, <1>5 DEF Undone, Unopened
<1>10. Truthful(Complete(e, OpenOp))
  BY <1>1, <1>5, <1>7, <1>8, <1>9, CompleteTruthful
<1>11. QED
  BY <1>10 DEF e, p

\* on_bus_connected.
LEMMA BusConnectedTells ==
    ASSUME ProtocolInv, NEW c \in Callback, Truthful(client[c]),
           NEW ok \in BOOLEAN, NEW present, BusConnected(c, ok, present)
    PROVE  Truthful(client'[c])
<1> DEFINE cl == client[c]
           o == cl.op[OpenOp]
           error == IF o.cancelled THEN "cancelled" ELSE "failed"
           p == [o EXCEPT !.call = "none", !.error = error]
           d == Complete(Put(cl, OpenOp, p), OpenOp)
           q == [o EXCEPT !.call = "begin"]
           e == [Put(cl, OpenOp, q) EXCEPT !.exported = TRUE, !.owner = present]
<1>1. o.call = "connect" /\ (Become(c, d) \/ Become(c, e))
  BY DEF BusConnected
<1>2. ClientWell(cl) /\ Shape(cl) /\ OpenOp \in OpIndex /\ OpenOp \notin Questions
  BY Indices DEF ProtocolInv, ClientWell
<1>3. Fine(cl, OpenOp)
  BY <1>2 DEF Truthful
<1>4. CASE Become(c, d)
  <2>1. Truthful(d)
    BY <1>1, <1>2, OpeningFailsTells
  <2> HIDE DEF d
  <2>2. QED
    BY <1>4, <2>1, Becomes
<1>5. CASE Become(c, e)
  <2>1. /\ OpShape(q) /\ q.started = o.started /\ q.call = "begin" /\ q.idle = o.idle
        /\ q.timeout = o.timeout /\ q.leaked = o.leaked
        /\ q.userCancelled = o.userCancelled /\ q.completions = o.completions
    BY <1>2 DEF Shape, OpShape, OpFields
  <2> HIDE DEF q
  <2>2. /\ Shape(Put(cl, OpenOp, q)) /\ Put(cl, OpenOp, q).op[OpenOp] = q
        /\ \A j \in OpIndex : j # OpenOp => Put(cl, OpenOp, q).op[j] = cl.op[j]
        /\ \A n \in ClientFields : n # "op" => Put(cl, OpenOp, q)[n] = cl[n]
    BY <1>2, <2>1, PutFields
  <2>3. /\ e.closed = cl.closed /\ e.pending = cl.pending /\ e.last = cl.last
        /\ Only(cl, e, OpenOp) /\ e.op[OpenOp] = q
    BY <2>2 DEF ClientFields, Only, Shape
  <2> HIDE DEF e
  <2>4. Counted(OpenOp) => Once(e, OpenOp)
    BY <1>1, <1>3, <2>1, <2>3 DEF Fine, Once
  <2>5. Fine(e, OpenOp)
    BY <1>2, <1>3, <2>1, <2>3, <2>4 DEF Fine
  <2>6. Truthful(e)
    BY <1>2, <2>3, <2>5, TruthfulBut
  <2>7. QED
    BY <1>5, <2>6, Becomes
<1>6. QED
  BY <1>1, <1>4, <1>5

\* A call whose cancellable is cancelled.
LEMMA CallCancelledTells ==
    ASSUME ProtocolInv, NEW c \in Callback, Truthful(client[c]),
           Harmony(client[c], inbox[c]), NEW k \in OpIndex, CallCancelled(c, k)
    PROVE  Truthful(client'[c])
<1> DEFINE cl == client[c]
           o == cl.op[k]
           d == Complete(Put(cl, k, [o EXCEPT !.call = "none", !.error = "cancelled"]), k)
<1>1. ~o.userCancelled
  BY DEF Truthful, Fine
<1>2. o.call = "begin" /\ Become(c, d)
  BY <1>1 DEF CallCancelled
<1>3. k = OpenOp /\ ClientWell(cl)
  BY <1>2, Indices DEF Harmony, Sane, ProtocolInv
<1>4. Truthful(d)
  BY <1>2, <1>3, OpeningFailsTells
<1> HIDE DEF d
<1>5. QED
  BY <1>2, <1>4, Becomes

\* on_prompter_begin_prompting.
LEMMA BeginReplyTells ==
    ASSUME ProtocolInv, NEW c \in Callback, Truthful(client[c]), ReceiveBeginReply(c)
    PROVE  Truthful(client'[c])
<1> DEFINE cl == client[c]
           o == cl.op[OpenOp]
           error == IF o.cancelled THEN "cancelled" ELSE "failed"
           p == [o EXCEPT !.call = "none", !.error = error]
           d == Complete(Put(cl, OpenOp, p), OpenOp)
           q == [o EXCEPT !.call = "none", !.waiting = TRUE, !.timeout = c \in Impatient]
           e == [Put(cl, OpenOp, q) EXCEPT !.begun = TRUE, !.pending = OpenOp]
<1>1. \/ client' = client
      \/ o.call = "begin" /\ Become(c, d)
      \/ o.call = "begin" /\ Become(c, e)
  BY DEF ReceiveBeginReply
<1>2. ClientWell(cl) /\ Shape(cl) /\ OpenOp \in OpIndex /\ OpenOp \notin Questions
  BY Indices DEF ProtocolInv, ClientWell
<1>3. Fine(cl, OpenOp)
  BY <1>2 DEF Truthful
<1>4. CASE o.call = "begin" /\ Become(c, d)
  <2>1. Truthful(d)
    BY <1>2, <1>4, OpeningFailsTells
  <2> HIDE DEF d
  <2>2. QED
    BY <1>4, <2>1, Becomes
<1>5. CASE o.call = "begin" /\ Become(c, e)
  <2>0. Unopened(cl)
    BY <1>2, <1>5 DEF ClientWell, Beginning
  <2>1. /\ OpShape(q) /\ q.started = o.started /\ q.call = "none" /\ q.idle = o.idle
        /\ q.timeout = (c \in Impatient) /\ q.leaked = o.leaked
        /\ q.userCancelled = o.userCancelled /\ q.completions = o.completions
    BY <1>2 DEF Shape, OpShape, OpFields
  <2> HIDE DEF q
  <2>2. /\ Shape(Put(cl, OpenOp, q)) /\ Put(cl, OpenOp, q).op[OpenOp] = q
        /\ \A j \in OpIndex : j # OpenOp => Put(cl, OpenOp, q).op[j] = cl.op[j]
        /\ \A n \in ClientFields : n # "op" => Put(cl, OpenOp, q)[n] = cl[n]
    BY <1>2, <2>1, PutFields
  <2>3. /\ e.closed = cl.closed /\ e.pending = OpenOp
        /\ Only(cl, e, OpenOp) /\ e.op[OpenOp] = q
    BY <2>2 DEF ClientFields, Only, Shape
  <2> HIDE DEF e
  <2>4. Counted(OpenOp) => Once(e, OpenOp)
    BY <1>3, <1>5, <2>1, <2>3 DEF Fine, Once
  <2>5. Impatient = {} => ~q.timeout
    BY <2>1
  <2>6. Fine(e, OpenOp)
    BY <1>2, <1>3, <2>1, <2>3, <2>4, <2>5 DEF Fine
  <2>7. \A j \in Questions : ~Undone(cl, j)
    BY <2>0 DEF Unopened, Undone
  <2>8. Truthful(e)
    BY <1>2, <2>3, <2>6, <2>7, TruthfulAgain DEF Truthful
  <2>9. QED
    BY <1>5, <2>8, Becomes
<1>6. QED
  BY <1>1, <1>4, <1>5

\* on_prompter_vanished.
LEMMA VanishedTells ==
    ASSUME ProtocolInv, NEW c \in Callback, Truthful(client[c]), ReceiveVanished(c)
    PROVE  Truthful(client'[c])
<1> DEFINE cl == client[c]
<1>1. CASE client' = client
  BY <1>1
<1>2. ASSUME NEW k \in OpIndex,
             Become(c, [Put(cl, k, [cl.op[k] EXCEPT !.cancelled = TRUE])
                           EXCEPT !.owner = FALSE])
      PROVE  Truthful(client'[c])
  <2> DEFINE o == cl.op[k]
             p == [o EXCEPT !.cancelled = TRUE]
             e == [Put(cl, k, p) EXCEPT !.owner = FALSE]
  <2>1. Become(c, e)
    BY <1>2
  <2>2. Shape(cl) /\ Fine(cl, k)
    BY DEF ProtocolInv, ClientWell, Truthful
  <2>3. /\ OpShape(p) /\ p.started = o.started /\ p.call = o.call /\ p.idle = o.idle
        /\ p.timeout = o.timeout /\ p.error = o.error /\ p.waiting = o.waiting
        /\ p.leaked = o.leaked /\ p.userCancelled = o.userCancelled
        /\ p.completions = o.completions /\ p.outcome = o.outcome
        /\ p.answered = o.answered
    BY <2>2 DEF Shape, OpShape, OpFields
  <2> HIDE DEF p
  <2>4. /\ Shape(Put(cl, k, p)) /\ Put(cl, k, p).op[k] = p
        /\ \A j \in OpIndex : j # k => Put(cl, k, p).op[j] = cl.op[j]
        /\ \A n \in ClientFields : n # "op" => Put(cl, k, p)[n] = cl[n]
    BY <2>2, <2>3, PutFields
  <2>5. /\ e.closed = cl.closed /\ e.pending = cl.pending /\ e.last = cl.last
        /\ Only(cl, e, k) /\ e.op[k] = p
    BY <2>4 DEF ClientFields, Only, Shape
  <2> HIDE DEF e
  <2>6. k \in Questions => Honest(e, k)
    BY <2>2, <2>3, <2>5 DEF Fine, Honest, Undone, Bound
  <2>7. Counted(k) => Once(e, k)
    BY <2>2, <2>3, <2>5 DEF Fine, Once
  <2>8. Fine(e, k)
    BY <2>2, <2>3, <2>5, <2>6, <2>7 DEF Fine
  <2>9. Truthful(e)
    BY <2>5, <2>8, TruthfulBut
  <2>10. QED
    BY <2>1, <2>9, Becomes
<1>3. QED
  BY <1>1, <1>2 DEF ReceiveVanished

\* A prompt that is not closed is in step.
LEMMA TruthfulInStep ==
    ASSUME NEW cl, Truthful(cl), ~cl.closed,
           NEW in, NEW out, NEW wait, NEW ask, NEW about, NEW there,
           Locked(cl, in, out, wait, ask, about, there)
    PROVE  InStep(cl, in, out, wait, ask, about)
<1>1. ~Spoiled(cl)
  BY DEF Spoiled, Truthful, Fine
<1>2. QED
  BY <1>1 DEF Locked, Good

\* What happens to the operation that is pending concerns no other question.
LEMMA OthersFine ==
    ASSUME NEW cl, Truthful(cl), ~cl.closed, NEW k \in OpIndex, cl.pending = k,
           NEW d, Only(cl, d, k), ~d.closed, d.pending \in {k, NoOp}
    PROVE  /\ \A j \in OpIndex : j # k => Fine(d, j)
           /\ \A j \in Questions : j # k => ~Undone(d, j)
<1>1. ASSUME NEW j \in Questions, j # k PROVE ~Undone(d, j)
  BY <1>1, Indices DEF Truthful, Fine, Honest, Undone, Bound, Only
<1>2. ASSUME NEW j \in OpIndex, j # k PROVE Fine(d, j)
  <2>1. Fine(cl, j) /\ d.op[j] = cl.op[j] /\ j # NoOp
    BY <1>2, Indices DEF Truthful, Only
  <2>2. j \in Questions => Honest(d, j)
    BY <1>1, <1>2, <2>1 DEF Fine, Honest
  <2>3. Counted(j) => Once(d, j)
    BY <1>2, <2>1 DEF Fine, Once
  <2>4. QED
    BY <2>1, <2>2, <2>3 DEF Fine
<1>3. QED
  BY <1>1, <1>2

\* In a prompt that is closed, it leaves the others as they are.
LEMMA OthersStay ==
    ASSUME NEW cl, Truthful(cl), cl.closed, NEW k \in OpIndex,
           NEW d, Only(cl, d, k), d.closed, d.pending = cl.pending, d.last = cl.last
    PROVE  \A j \in OpIndex : j # k => Fine(d, j)
<1> SUFFICES ASSUME NEW j \in OpIndex, j # k PROVE Fine(d, j)
  OBVIOUS
<1>1. Fine(cl, j) /\ d.op[j] = cl.op[j]
  BY DEF Truthful, Only
<1>2. j \in Questions => Honest(d, j)
  BY <1>1 DEF Fine, Honest, Undone, Bound
<1>3. Counted(j) => Once(d, j)
  BY <1>1 DEF Fine, Once
<1>4. QED
  BY <1>1, <1>2, <1>3 DEF Fine

\* An answer that arrives is the one to the question that is pending.
LEMMA ReadyConcerns ==
    ASSUME NEW cl, NEW in, NEW in2, NEW m, Taken(in, m, in2), m.kind = "PromptReady",
           NEW out, NEW wait \in BOOLEAN, NEW ask \in BOOLEAN, NEW about,
           InStep(cl, in, out, wait, ask, about), cl.pending \in Questions
    PROVE  m.question = cl.pending /\ cl.op[cl.pending].call # "perform"
<1>1. m.kind \in Ready /\ m.kind \notin Answer /\ m.kind # "PerformReply"
  BY DEF Ready, Answer
<1>2. ~None(in, Ready) /\ None(in2, Answer)
  BY <1>1 DEF InStep, OneAnswer, Taken
<1>3. None(out, Calls) /\ ~Silence(in, out, wait, ask)
  BY <1>2 DEF InStep, OneAnswer, Silence
<1>4. None(in, Answer) /\ None(out, Request)
  BY <1>1, <1>2, <1>3 DEF InStep, OneAnswer, Taken
<1>5. Asked(cl, in, out, wait, ask, about)
  BY DEF InStep
<1>6. m.question \in {cl.pending}
  BY <1>1, <1>5 DEF Asked, Taken
<1>7. QED
  BY <1>3, <1>4, <1>5, <1>6 DEF Asked, Outstanding

\* prompt_method_ready: the answer is the one to the question that is asked.
LEMMA ReadyTells ==
    ASSUME ProtocolInv, NEW c \in Callback, Truthful(client[c]), ReceivePromptReady(c),
           NEW wait \in BOOLEAN, NEW ask \in BOOLEAN, NEW about, NEW there \in BOOLEAN,
           Locked(client[c], inbox[c], outbox[c], wait, ask, about, there)
    PROVE  Truthful(client'[c])
<1> DEFINE cl == client[c]
           m == Head(inbox[c])
           k == cl.pending
           e == [cl EXCEPT !.last = m.response, !.lastQuestion = m.question,
                           !.pending = NoOp]
           d == Complete(e, k)
<1>1. /\ Shape(cl) /\ Sane(cl) /\ ClientWell(cl) /\ Clean(cl)
      /\ Boxed(inbox[c], outbox[c], there)
      /\ inbox[c] # <<>> /\ m.kind = "PromptReady" /\ Receive(c)
  BY DEF ProtocolInv, ClientWell, Locked, ReceivePromptReady, Got
<1>2. CASE client' = client
  BY <1>2
<1>3. CASE cl.exported /\ k # NoOp /\ Become(c, d)
  <2>1. ~cl.closed /\ k \in OpIndex
    BY <1>1, <1>3 DEF Shape, Clean
  <2>2. InStep(cl, inbox[c], outbox[c], wait, ask, about)
    BY <2>1, TruthfulInStep
  <2>3. Taken(inbox[c], m, inbox'[c])
    BY <1>1, Reads
  <2>4. k \in Questions => m.question = k /\ cl.op[k].call # "perform"
    <3>1. m.kind = "PromptReady"
      BY <1>1
    <3> HIDE DEF m, cl, k
    <3>2. ASSUME cl.pending \in Questions
          PROVE  m.question = cl.pending /\ cl.op[cl.pending].call # "perform"
      BY <2>2, <2>3, <3>1, <3>2, ReadyConcerns
    <3>3. QED
      BY <3>2 DEF k
  <2>5. /\ Shape(e) /\ e.op = cl.op /\ e.closed = cl.closed /\ e.pending = NoOp
        /\ e.lastQuestion = m.question
    BY <1>1 DEF Shape, ClientFields
  <2> HIDE DEF e, m
  <2>6. cl.op[k].call = "none"
    <3>1. CASE k \in Questions
      BY <1>1, <2>4, <3>1 DEF Sane
    <3>2. CASE k = OpenOp
      <4>1. ~Fresh(cl) /\ ~Beginning(cl)
        BY <1>1, <1>3 DEF ClientWell, Unopened
      <4>2. QED
        BY <1>1, <2>1, <3>2, <4>1 DEF Fresh, Beginning, ClientWell, OpenWell, Sane
    <3>3. QED
      BY <2>1, <3>1, <3>2, Indices
  <2>7. Fine(cl, k) /\ k # NoOp /\ cl.op[k].started
    BY <1>1, <1>3, <2>1 DEF Truthful, Sane
  <2>8. Due(e, k)
    <3>1. k \in Questions => ~cl.op[k].leaked \/ ~cl.op[k].waiting
      BY <2>1, <2>7 DEF Fine, Honest
    <3>2. Counted(k) => cl.op[k].completions = 0 /\ cl.op[k].idle = 0
      BY <2>7 DEF Fine, Once
    <3>3. QED
      BY <2>4, <2>5, <2>6, <2>7, <3>1, <3>2 DEF Due, Fine
  <2>9. Only(cl, e, k)
    BY <2>5 DEF Only
  <2>10. /\ \A j \in OpIndex : j # k => Fine(e, j)
         /\ \A j \in Questions : j # k => ~Undone(e, j)
    BY <2>1, <2>5, <2>9, OthersFine
  <2>11. k = OpenOp => \A j \in Questions : ~Undone(e, j)
    BY <2>10, Indices
  <2>12. Truthful(d)
    BY <2>1, <2>5, <2>8, <2>10, <2>11, CompleteTruthful
  <2> HIDE DEF d
  <2>13. QED
    BY <1>3, <2>12, Becomes
<1>4. QED
  BY <1>2, <1>3 DEF ReceivePromptReady

\* on_perform_prompt_complete with an error, for the question that is pending
\* or after the prompt was closed.
LEMMA FailPerformTells ==
    ASSUME NEW cl, ClientWell(cl), Truthful(cl), NEW k \in OpIndex, cl.op[k].call = "perform",
           cl.closed \/ cl.pending = k, NEW error, error # "none"
    PROVE  Truthful(FailPerform(cl, k, error))
<1> DEFINE o == cl.op[k]
           p == [o EXCEPT !.call = "none", !.error = error]
           d1 == Put(cl, k, p)
           d2 == [d1 EXCEPT !.pending = NoOp]
           q == [d2.op[k] EXCEPT !.leaked = TRUE]
           d3 == Put(d2, k, q)
           e == IF cl.pending = NoOp THEN d2 ELSE d3
           d == Complete(e, k)
<1>1. Shape(cl) /\ Clean(cl) /\ OpenWell(cl) /\ Fine(cl, k) /\ k # NoOp
  BY Indices DEF ClientWell, Truthful
<1>2. k \in Questions /\ Counted(k) /\ cl.pending \in {k, NoOp}
  BY <1>1, Indices DEF OpenWell, Counted, Clean
<1>3. FailPerform(cl, k, error) = d
  <2>1. CASE cl.pending = NoOp
    BY <2>1 DEF FailPerform, Leak
  <2>2. CASE cl.pending = k
    BY <1>1, <2>2 DEF FailPerform, Leak
  <2>3. QED
    BY <1>2, <2>1, <2>2
<1>4. /\ OpShape(p) /\ p.started = o.started /\ p.call = "none" /\ p.idle = o.idle
      /\ p.error = error /\ p.waiting = o.waiting /\ p.leaked = o.leaked
      /\ p.userCancelled = o.userCancelled /\ p.completions = o.completions
      /\ DOMAIN p = OpFields
  BY <1>1 DEF Shape, OpShape, OpFields
<1> HIDE DEF p
<1>5. /\ Shape(d1) /\ d1.op[k] = p
      /\ \A j \in OpIndex : j # k => d1.op[j] = cl.op[j]
      /\ \A n \in ClientFields : n # "op" => d1[n] = cl[n]
  BY <1>1, <1>4, PutFields
<1> HIDE DEF d1
<1>6. /\ Shape(d2) /\ d2.op = d1.op /\ d2.pending = NoOp
      /\ d2.closed = cl.closed /\ d2.last = cl.last
  BY <1>5 DEF Shape, ClientFields
<1> HIDE DEF d2
<1>7. /\ OpShape(q) /\ q.started = o.started /\ q.call = "none" /\ q.idle = o.idle
      /\ q.error = error /\ q.waiting = o.waiting
      /\ q.userCancelled = o.userCancelled /\ q.completions = o.completions
  BY <1>4, <1>5, <1>6 DEF OpShape, OpFields
<1> HIDE DEF q
<1>8. /\ Shape(d3) /\ d3.op[k] = q
      /\ \A j \in OpIndex : j # k => d3.op[j] = d2.op[j]
      /\ \A n \in ClientFields : n # "op" => d3[n] = d2[n]
  BY <1>6, <1>7, PutFields
<1> HIDE DEF d3
<1>9. /\ Shape(e) /\ Only(cl, e, k) /\ e.pending = NoOp
      /\ e.closed = cl.closed /\ e.last = cl.last
      /\ e.op[k] = p \/ e.op[k] = q
  BY <1>5, <1>6, <1>8 DEF Only, ClientFields
<1> HIDE DEF e
<1>10. ~o.waiting /\ o.started /\ o.completions = 0 /\ o.idle = 0 /\ ~o.userCancelled
  BY <1>1, <1>2 DEF Fine, Honest, Once
<1>11. Due(e, k)
  <2>1. LET r == e.op[k] IN
        /\ r.started /\ r.call = "none" /\ r.idle = 0 /\ r.error = error
        /\ ~r.waiting /\ ~r.userCancelled /\ r.completions = 0
    BY <1>4, <1>7, <1>9, <1>10
  <2>2. k # OpenOp
    BY <1>2, Indices
  <2>3. QED
    BY <1>1, <1>9, <2>1, <2>2 DEF Due
<1>12. \A j \in OpIndex : j # k => Fine(e, j)
  <2>1. CASE cl.closed
    <3>1. cl.pending = NoOp
      BY <1>1, <2>1 DEF Clean
    <3>2. QED
      BY <1>9, <2>1, <3>1, OthersStay
  <2>2. CASE ~cl.closed
    BY <1>9, <2>2, OthersFine
  <2>3. QED
    BY <2>1, <2>2
<1>13. Truthful(d)
  BY <1>2, <1>9, <1>11, <1>12, CompleteTruthful, Indices
<1>14. QED
  BY <1>3, <1>13

\* The reply of a question that is none of this prompt's.
LEMMA PutAway ==
    ASSUME NEW cl, Shape(cl), Truthful(cl), NEW k, k \notin OpIndex, NEW p
    PROVE  Truthful(Put(cl, k, p)) /\ Shape(Put(cl, k, p))
<1> DEFINE d == Put(cl, k, p)
<1>1. /\ Shape(d) /\ \A j \in OpIndex : d.op[j] = cl.op[j]
      /\ \A n \in ClientFields : n # "op" => d[n] = cl[n]
  BY PutFields
<1> HIDE DEF d
<1>2. d.closed = cl.closed /\ d.pending = cl.pending /\ d.last = cl.last
  BY <1>1 DEF ClientFields
<1>3. Truthful(d)
  BY <1>1, <1>2, TruthfulStill
<1>4. QED
  BY <1>1, <1>3 DEF d

\* Failing a call that is no operation's changes nothing of the others.
LEMMA FailPerformAway ==
    ASSUME NEW cl, Shape(cl), Truthful(cl), cl.pending = NoOp, NEW k, k \notin OpIndex,
           NEW error
    PROVE  Truthful(FailPerform(cl, k, error))
<1> DEFINE p == [cl.op[k] EXCEPT !.call = "none", !.error = error]
           d1 == Put(cl, k, p)
           d2 == [d1 EXCEPT !.pending = NoOp]
<1>1. FailPerform(cl, k, error) = Complete(d2, k)
  BY DEF FailPerform, Leak
<1>2. /\ Shape(d1) /\ Truthful(d1)
      /\ \A n \in ClientFields : n # "op" => d1[n] = cl[n]
  BY PutAway, PutFields
<1>3. d1.pending = NoOp
  BY <1>2 DEF ClientFields
<1> HIDE DEF d1
<1>4. /\ Shape(d2) /\ d2.op = d1.op /\ d2.pending = d1.pending
      /\ d2.closed = d1.closed /\ d2.last = d1.last
  BY <1>2, <1>3 DEF Shape, ClientFields
<1> HIDE DEF d2
<1>5. Truthful(d2)
  BY <1>2, <1>4, TruthfulStill
<1>6. k # OpenOp
  BY Indices
<1>7. PICK q : Complete(d2, k) = Put(d2, k, q)
  BY <1>6 DEF Complete
<1>8. QED
  BY <1>1, <1>4, <1>5, <1>7, PutAway

\* on_perform_prompt_complete.
LEMMA PerformReplyTells ==
    ASSUME ProtocolInv, NEW c \in Callback, Truthful(client[c]), ReceivePerformReply(c),
           NEW wait \in BOOLEAN, NEW ask \in BOOLEAN, NEW about, NEW there \in BOOLEAN,
           Locked(client[c], inbox[c], outbox[c], wait, ask, about, there)
    PROVE  Truthful(client'[c])
<1> DEFINE cl == client[c]
           m == Head(inbox[c])
           k == Head(cl.awaited)
           e == [cl EXCEPT !.awaited = Tail(@)]
           o == e.op[k]
           p == [o EXCEPT !.call = "none", !.waiting = e.pending = k \/ o.idle > 0]
           error == IF o.userCancelled THEN "cancelled" ELSE "failed"
<1>1. /\ Shape(cl) /\ Sane(cl) /\ ClientWell(cl)
      /\ Boxed(inbox[c], outbox[c], there)
      /\ inbox[c] # <<>> /\ m.kind = "PerformReply" /\ Receive(c)
  BY DEF ProtocolInv, ClientWell, Locked, ReceivePerformReply, Got
<1>2. Taken(inbox[c], m, inbox'[c])
  BY <1>1, Reads
<1>3. \/ o.call = "perform" /\ Become(c, Put(e, k, p))
      \/ o.call = "perform" /\ Become(c, FailPerform(e, k, error))
      \/ Become(c, e)
  BY DEF ReceivePerformReply
<1>4. ASSUME ~cl.closed PROVE k = cl.pending /\ k \in Questions
  <2>1. InStep(cl, inbox[c], outbox[c], wait, ask, about)
    BY <1>4, TruthfulInStep
  <2>2. AtReply(cl, inbox[c], inbox'[c], m, outbox[c], wait, ask, about)
    <3>1. m.kind = "PerformReply"
      BY <1>1
    <3> HIDE DEF m, cl
    <3>2. QED
      BY <1>2, <2>1, <3>1, ReplyInStep
  <2>3. QED
    BY <2>2 DEF AtReply
<1> HIDE DEF m
<1>5. error # "none"
  OBVIOUS
<1> HIDE DEF error
<1>6. /\ Shape(e) /\ e.op = cl.op /\ e.closed = cl.closed /\ e.pending = cl.pending
      /\ e.last = cl.last /\ e.begun = cl.begun /\ e.exported = cl.exported
  BY <1>1 DEF Shape, ClientFields
<1> HIDE DEF e, k
<1>7. Truthful(e) /\ ClientWell(e)
  <2>1. Truthful(e)
    BY <1>6, TruthfulStill
  <2>2. ClientWell(e)
    BY <1>1, <1>6 DEF ClientWell, Clean, OpenWell, Fresh, Beginning, Unopened
  <2>3. QED
    BY <2>1, <2>2
<1>8. CASE o.call = "perform" /\ Become(c, Put(e, k, p))
  <2>1. CASE k \notin OpIndex
    BY <1>6, <1>7, <1>8, <2>1, PutAway, Becomes
  <2>2. CASE k \in OpIndex
    <3> DEFINE d == Put(e, k, p)
    <3>1. Fine(e, k) /\ k \in Questions /\ Counted(k) /\ k # NoOp
      BY <1>7, <1>8, <2>2, Indices DEF Truthful, ClientWell, OpenWell, Counted
    <3>2. /\ OpShape(p) /\ p.started = o.started /\ p.call = "none" /\ p.idle = o.idle
          /\ p.error = o.error /\ p.leaked = o.leaked /\ p.timeout = o.timeout
          /\ p.userCancelled = o.userCancelled /\ p.completions = o.completions
          /\ p.outcome = o.outcome /\ p.answered = o.answered
          /\ p.waiting = (e.pending = k \/ o.idle > 0)
      BY <1>6, <2>2 DEF Shape, OpShape, OpFields
    <3> HIDE DEF p
    <3>3. /\ Shape(d) /\ d.op[k] = p
          /\ \A j \in OpIndex : j # k => d.op[j] = e.op[j]
          /\ \A n \in ClientFields : n # "op" => d[n] = e[n]
      BY <1>6, <2>2, <3>2, PutFields
    <3>4. /\ d.closed = e.closed /\ d.pending = e.pending /\ d.last = e.last
          /\ Only(e, d, k) /\ Become(c, d)
      BY <1>8, <3>3 DEF ClientFields, Only
    <3> HIDE DEF d
    <3>5. Honest(d, k)
      BY <1>8, <3>1, <3>2, <3>3, <3>4 DEF Fine, Honest, Undone, Bound
    <3>6. Once(d, k)
      BY <1>8, <3>1, <3>2, <3>3, <3>4 DEF Fine, Once
    <3>7. Fine(d, k)
      BY <3>1, <3>2, <3>3, <3>5, <3>6, Indices DEF Fine
    <3>8. Truthful(d)
      BY <1>7, <2>2, <3>4, <3>7, TruthfulBut
    <3>9. QED
      BY <3>4, <3>8, Becomes
  <2>3. QED
    BY <2>1, <2>2
<1>9. CASE o.call = "perform" /\ Become(c, FailPerform(e, k, error))
  <2>1. CASE k \notin OpIndex
    <3>1. cl.closed
      BY <1>4, <2>1, Indices
    <3>2. e.pending = NoOp
      BY <1>6, <1>7, <3>1 DEF ClientWell, Clean
    <3>3. QED
      BY <1>6, <1>7, <1>9, <2>1, <3>2, FailPerformAway, Becomes
  <2>2. CASE k \in OpIndex
    BY <1>4, <1>5, <1>6, <1>7, <1>9, <2>2, FailPerformTells, Becomes
  <2>3. QED
    BY <2>1, <2>2
<1>10. CASE Become(c, e)
  BY <1>7, <1>10, Becomes
<1>11. QED
  BY <1>3, <1>8, <1>9, <1>10

-----------------------------------------------------------------------------
(* A prompt that is closed stays closed.                                   *)

Endures(cl, d) == DOMAIN d = ClientFields /\ (cl.closed => d.closed)

\* No assignment but that of closed matters to it,
LEMMA MinorEndure ==
    ASSUME NEW cl, DOMAIN cl = ClientFields
    PROVE  /\ \A x : Endures(cl, [cl EXCEPT !.op = x])
           /\ \A x : Endures(cl, [cl EXCEPT !.closing = x])
           /\ \A x : Endures(cl, [cl EXCEPT !.awaited = x])
           /\ \A x : Endures(cl, [cl EXCEPT !.owner = x])
           /\ \A x : Endures(cl, [cl EXCEPT !.last = x])
           /\ \A x : Endures(cl, [cl EXCEPT !.begun = x])
           /\ \A x : Endures(cl, [cl EXCEPT !.pending = x])
           /\ \A x, y : Endures(cl, [cl EXCEPT !.begun = x, !.pending = y])
           /\ \A x, y : Endures(cl, [cl EXCEPT !.exported = x, !.owner = y])
           /\ \A x, y, z : Endures(cl, [cl EXCEPT !.pending = x, !.exported = y, !.awaited = z])
           /\ \A x, y, z : Endures(cl, [cl EXCEPT !.last = x, !.lastQuestion = y, !.pending = z])
           /\ \A x : Endures(cl, [cl EXCEPT !.closed = TRUE, !.exported = x])
           /\ \A x, y, z : Endures(cl, [cl EXCEPT !.closed = TRUE, !.pending = x,
                                                  !.exported = y, !.begun = z])
BY DEF Endures, ClientFields

\* the steps can be put together,
LEMMA EnduresTrans ==
    ASSUME NEW cl, NEW d, NEW e, Endures(cl, d), Endures(d, e) PROVE Endures(cl, e)
BY DEF Endures

\* and the helpers the handlers are made of keep it.
LEMMA PartsEndure ==
    ASSUME NEW cl, DOMAIN cl = ClientFields
    PROVE  /\ \A k, o : Endures(cl, Put(cl, k, o))
           /\ \A k : Endures(cl, Complete(cl, k))
           /\ Endures(cl, PerformClose(cl))
           /\ \A k, error : Endures(cl, FailPerform(cl, k, error))
<1>1. ASSUME NEW d, DOMAIN d = ClientFields, NEW k, NEW o PROVE Endures(d, Put(d, k, o))
  BY <1>1, MinorEndure DEF Put
<1>2. ASSUME NEW d, DOMAIN d = ClientFields, NEW k PROVE Endures(d, Complete(d, k))
  <2> DEFINE cut == [d EXCEPT !.closed = TRUE, !.exported = FALSE]
  <2>1. Endures(d, cut) /\ Endures(d, d)
    BY <1>2, MinorEndure DEF Endures
  <2>2. \E o : Complete(d, k) = Put(cut, k, o) \/ Complete(d, k) = Put(d, k, o)
    BY DEF Complete
  <2> HIDE DEF cut
  <2>3. PICK o : Complete(d, k) = Put(cut, k, o) \/ Complete(d, k) = Put(d, k, o)
    BY <2>2
  <2>4. Endures(cut, Put(cut, k, o)) /\ Endures(d, Put(d, k, o))
    BY <1>1, <2>1 DEF Endures
  <2>5. QED
    BY <2>1, <2>3, <2>4, EnduresTrans
<1>3. Endures(cl, PerformClose(cl))
  <2> DEFINE cut == [cl EXCEPT !.closed = TRUE, !.pending = NoOp, !.exported = FALSE,
                               !.begun = FALSE]
  <2>1. Endures(cl, cut)
    BY MinorEndure
  <2>2. \E o : PerformClose(cl) = cut \/ PerformClose(cl) = Put(cut, cl.pending, o)
    BY DEF PerformClose
  <2> HIDE DEF cut
  <2>3. PICK o : PerformClose(cl) = cut \/ PerformClose(cl) = Put(cut, cl.pending, o)
    BY <2>2
  <2>4. Endures(cut, Put(cut, cl.pending, o))
    BY <1>1, <2>1 DEF Endures
  <2>5. QED
    BY <2>1, <2>3, <2>4, EnduresTrans
<1>4. ASSUME NEW k, NEW error PROVE Endures(cl, FailPerform(cl, k, error))
  <2> DEFINE d1 == Put(cl, k, [cl.op[k] EXCEPT !.call = "none", !.error = error])
             d2 == [d1 EXCEPT !.pending = NoOp]
             d3 == Leak(d2, cl.pending)
  <2>1. Endures(cl, d1)
    BY <1>1
  <2> HIDE DEF d1
  <2>2. Endures(d1, d2)
    BY <2>1, MinorEndure DEF Endures
  <2> HIDE DEF d2
  <2>3. Endures(d2, d3)
    BY <1>1, <2>2 DEF Leak, Endures
  <2> HIDE DEF d3
  <2>4. Endures(d3, Complete(d3, k))
    BY <1>2, <2>3 DEF Endures
  <2>5. FailPerform(cl, k, error) = Complete(d3, k)
    BY DEF FailPerform, d1, d2, d3
  <2>6. QED
    BY <2>1, <2>2, <2>3, <2>4, <2>5, EnduresTrans
<1>5. QED
  BY <1>1, <1>2, <1>3, <1>4

\* A prompt that becomes one which endures.
LEMMA EndingOf ==
    ASSUME ProtocolInv, NEW c \in Callback,
           client' = client \/ \E d : Become(c, d) /\ Endures(client[c], d)
    PROVE  client[c].closed => client'[c].closed
BY Becomes DEF Endures

\* What the main loop receives,
LEMMA ReceivesEndures ==
    ASSUME ProtocolInv, NEW c \in Callback, ClientReceives(c)
    PROVE  client[c].closed => client'[c].closed
<1> DEFINE cl == client[c]
<1>1. DOMAIN cl = ClientFields
  BY DEF ProtocolInv, ClientWell, Shape
<1>2. CASE ReceiveBeginReply(c)
  <2>1. \/ client' = client
        \/ \E o : Become(c, [Put(cl, OpenOp, o) EXCEPT !.begun = TRUE, !.pending = OpenOp])
        \/ \E o : Become(c, Complete(Put(cl, OpenOp, o), OpenOp))
    BY <1>2 DEF ReceiveBeginReply
  <2>2. ASSUME NEW o
        PROVE  /\ Endures(cl, [Put(cl, OpenOp, o) EXCEPT !.begun = TRUE, !.pending = OpenOp])
               /\ Endures(cl, Complete(Put(cl, OpenOp, o), OpenOp))
    <3> DEFINE e == Put(cl, OpenOp, o)
    <3>1. Endures(cl, e)
      BY <1>1, PartsEndure
    <3> HIDE DEF e
    <3>2. /\ Endures(e, [e EXCEPT !.begun = TRUE, !.pending = OpenOp])
          /\ Endures(e, Complete(e, OpenOp))
      BY <3>1, MinorEndure, PartsEndure DEF Endures
    <3>3. QED
      BY <3>1, <3>2, EnduresTrans DEF e
  <2>3. QED
    BY <2>1, <2>2, EndingOf
<1>3. CASE ReceivePerformReply(c)
  <2> DEFINE k == Head(cl.awaited)
             e == [cl EXCEPT !.awaited = Tail(@)]
  <2>1. Endures(cl, e)
    BY <1>1, MinorEndure
  <2>2. \/ \E o : Become(c, Put(e, k, o))
        \/ \E error : Become(c, FailPerform(e, k, error))
        \/ Become(c, e)
    BY <1>3 DEF ReceivePerformReply
  <2> HIDE DEF e, k
  <2>3. /\ \A o : Endures(e, Put(e, k, o))
        /\ \A error : Endures(e, FailPerform(e, k, error))
    BY <2>1, PartsEndure DEF Endures
  <2>4. QED
    BY <2>1, <2>2, <2>3, EnduresTrans, EndingOf
<1>4. CASE ReceiveStopReply(c)
  <2>1. \E x : Become(c, [cl EXCEPT !.closing = x])
    BY <1>4 DEF ReceiveStopReply
  <2>2. QED
    BY <1>1, <2>1, MinorEndure, EndingOf
<1>5. CASE ReceivePromptReady(c)
  <2>1. \/ client' = client
        \/ \E r, q : Become(c, Complete([cl EXCEPT !.last = r, !.lastQuestion = q,
                                                   !.pending = NoOp], cl.pending))
    BY <1>5 DEF ReceivePromptReady
  <2>2. ASSUME NEW r, NEW q
        PROVE  Endures(cl, Complete([cl EXCEPT !.last = r, !.lastQuestion = q,
                                               !.pending = NoOp], cl.pending))
    <3> DEFINE e == [cl EXCEPT !.last = r, !.lastQuestion = q, !.pending = NoOp]
    <3>1. Endures(cl, e)
      BY <1>1, MinorEndure
    <3> HIDE DEF e
    <3>2. Endures(e, Complete(e, cl.pending))
      BY <3>1, PartsEndure DEF Endures
    <3>3. QED
      BY <3>1, <3>2, EnduresTrans DEF e
  <2>3. QED
    BY <2>1, <2>2, EndingOf
<1>6. CASE ReceivePromptDone(c)
  <2> DEFINE e == [cl EXCEPT !.begun = FALSE]
  <2>1. client' = client \/ Become(c, PerformClose(e))
    BY <1>6 DEF ReceivePromptDone
  <2>2. Endures(cl, e)
    BY <1>1, MinorEndure
  <2> HIDE DEF e
  <2>3. Endures(e, PerformClose(e))
    BY <2>2, PartsEndure DEF Endures
  <2>4. QED
    BY <2>1, <2>2, <2>3, EnduresTrans, EndingOf
<1>7. CASE ReceiveVanished(c)
  <2>1. client' = client \/ \E k, o : Become(c, [Put(cl, k, o) EXCEPT !.owner = FALSE])
    BY <1>7 DEF ReceiveVanished
  <2>2. ASSUME NEW k, NEW o PROVE Endures(cl, [Put(cl, k, o) EXCEPT !.owner = FALSE])
    <3> DEFINE e == Put(cl, k, o)
    <3>1. Endures(cl, e)
      BY <1>1, PartsEndure
    <3> HIDE DEF e
    <3>2. Endures(e, [e EXCEPT !.owner = FALSE])
      BY <3>1, MinorEndure DEF Endures
    <3>3. QED
      BY <3>1, <3>2, EnduresTrans DEF e
  <2>3. QED
    BY <2>1, <2>2, EndingOf
<1>8. QED
  BY <1>2, <1>3, <1>4, <1>5, <1>6, <1>7 DEF ClientReceives

\* what it dispatches, and what the application does.
LEMMA DispatchesEndures ==
    ASSUME ProtocolInv, NEW c \in Callback, ClientDispatches(c) \/ Application(c)
    PROVE  client[c].closed => client'[c].closed
<1> DEFINE cl == client[c]
<1>1. DOMAIN cl = ClientFields
  BY DEF ProtocolInv, ClientWell, Shape
<1>2. ASSUME NEW d, Endures(cl, d)
      PROVE  /\ \A k : Endures(cl, Complete(d, k))
             /\ \A k, error : Endures(cl, FailPerform(d, k, error))
             /\ Endures(cl, PerformClose(d))
             /\ \A x, y : Endures(cl, [d EXCEPT !.exported = x, !.owner = y])
             /\ \A x : Endures(cl, [d EXCEPT !.closing = x])
             /\ \A x : Endures(cl, [d EXCEPT !.last = x])
             /\ \A x, y, z : Endures(cl, [d EXCEPT !.pending = x, !.exported = y,
                                                   !.awaited = z])
  <2>1. DOMAIN d = ClientFields
    BY <1>2 DEF Endures
  <2> HIDE DEF cl
  <2>2. QED
    BY <1>2, <2>1, MinorEndure, PartsEndure, EnduresTrans
<1>3. Endures(cl, cl) /\ \A k, o : Endures(cl, Put(cl, k, o))
  BY <1>1, PartsEndure DEF Endures
<1>4. ASSUME NEW ok \in BOOLEAN, BusConnected(c, ok, registered)
      PROVE  cl.closed => client'[c].closed
  <2>1. \/ \E o : Become(c, Complete(Put(cl, OpenOp, o), OpenOp))
        \/ \E o : Become(c, [Put(cl, OpenOp, o) EXCEPT !.exported = TRUE,
                                                       !.owner = registered])
    BY <1>4 DEF BusConnected
  <2>2. QED
    BY <1>2, <1>3, <2>1, EndingOf
<1>5. ASSUME NEW k \in OpIndex, CallCancelled(c, k) PROVE cl.closed => client'[c].closed
  <2>1. \/ \E o : Become(c, Complete(Put(cl, k, o), k))
        \/ Become(c, FailPerform(cl, k, "cancelled"))
    BY <1>5 DEF CallCancelled
  <2>2. QED
    BY <1>2, <1>3, <2>1, EndingOf
<1>6. ASSUME NEW k \in OpIndex, WaitingFires(c, k) PROVE cl.closed => client'[c].closed
  <2>1. \E o : Become(c, PerformClose(Put(cl, k, o)))
    BY <1>6 DEF WaitingFires
  <2>2. QED
    BY <1>2, <1>3, <2>1, EndingOf
<1>7. ASSUME NEW k \in OpIndex, IdleFires(c, k) PROVE cl.closed => client'[c].closed
  <2>1. \E o : Become(c, Complete(Put(cl, k, o), k))
    BY <1>7 DEF IdleFires
  <2>2. QED
    BY <1>2, <1>3, <2>1, EndingOf
<1>8. CASE CloseIdleFires(c)
  <2>1. Become(c, [cl EXCEPT !.closing = "done"])
    BY <1>8 DEF CloseIdleFires
  <2>2. QED
    BY <1>2, <1>3, <2>1, EndingOf
<1>9. CASE Open(c) \/ \E k \in OpIndex : Cancel(c, k)
  <2>1. \E k, o : Become(c, Put(cl, k, o))
    BY <1>9 DEF Open, Cancel
  <2>2. QED
    BY <1>3, <2>1, EndingOf
<1>10. ASSUME NEW k \in Questions, NEW b \in BOOLEAN, PerformPromptAsync(c, k, b)
       PROVE  cl.closed => client'[c].closed
  <2>1. \/ \E o : Become(c, [Put(cl, k, o) EXCEPT !.last = "none"])
        \/ ~cl.closed
    BY <1>10 DEF PerformPromptAsync
  <2>2. QED
    BY <1>2, <1>3, <2>1, EndingOf
<1>11. CASE CloseAsync(c) \/ RealClose(c)
  <2>1. \/ Become(c, PerformClose(cl))
        \/ \E x : Become(c, [PerformClose(cl) EXCEPT !.closing = x])
    BY <1>11 DEF CloseAsync, RealClose
  <2>2. QED
    BY <1>2, <1>3, <2>1, EndingOf
<1>12. QED
  BY <1>4, <1>5, <1>6, <1>7, <1>8, <1>9, <1>10, <1>11 DEF ClientDispatches, Application

\* No end of prompting is on its way to or from a prompt that is open.
Quietly(cl, in, out) ==
    cl.closed \/ (Lacks(in, "PromptDone") /\ Lacks(out, "Stop"))

\* A step of a prompt that closes it is not one that is told to.
LEMMA NotDone ==
    ASSUME ProtocolInv, NEW c \in Callback, Quietly(client[c], inbox[c], outbox[c]),
           ReceivePromptDone(c)
    PROVE  client[c].closed
<1>1. IsBox(inbox[c]) /\ inbox[c] # <<>> /\ Head(inbox[c]).kind = "PromptDone"
  BY DEF ProtocolInv, Tables, Sendable, ReceivePromptDone, Got
<1>2. ~Lacks(inbox[c], "PromptDone")
  BY <1>1, BoxTail
<1>3. QED
  BY <1>2 DEF Quietly

\* A step of a prompt keeps what it tells, and a prompt that is closed stays so.
LEMMA ClientTells ==
    ASSUME ProtocolInv, Calm, NEW c \in Callback, Client(c), Truthful(client[c]),
           Quietly(client[c], inbox[c], outbox[c]), registered \in BOOLEAN,
           NEW wait \in BOOLEAN, NEW ask \in BOOLEAN, NEW about,
           Locked(client[c], inbox[c], outbox[c], wait, ask, about, registered)
    PROVE  Truthful(client'[c]) /\ (client[c].closed => client'[c].closed)
<1>1. Harmony(client[c], inbox[c])
  BY InHarmony
<1>2. CASE ClientReceives(c)
  <2>1. Truthful(client'[c])
    <3>1. CASE ReceiveBeginReply(c)
      BY <3>1, BeginReplyTells
    <3>2. CASE ReceivePerformReply(c)
      BY <3>2, PerformReplyTells
    <3>3. CASE ReceiveStopReply(c)
      BY <3>3, ClosingTells
    <3>4. CASE ReceivePromptReady(c)
      BY <3>4, ReadyTells
    <3>5. CASE ReceivePromptDone(c)
      BY <3>5, NotDone, DoneTells
    <3>6. CASE ReceiveVanished(c)
      BY <3>6, VanishedTells
    <3>7. QED
      BY <1>2, <3>1, <3>2, <3>3, <3>4, <3>5, <3>6 DEF ClientReceives
  <2>2. QED
    BY <1>2, <2>1, ReceivesEndures
<1>3. CASE ClientDispatches(c)
  <2>1. Truthful(client'[c])
    <3>1. ASSUME NEW ok \in BOOLEAN, BusConnected(c, ok, registered)
          PROVE  Truthful(client'[c])
      BY <3>1, BusConnectedTells
    <3>2. ASSUME NEW k \in OpIndex, CallCancelled(c, k) \/ WaitingFires(c, k) \/ IdleFires(c, k)
          PROVE  Truthful(client'[c])
      BY <1>1, <3>2, CallCancelledTells, WaitingTells, IdleTells
    <3>3. CASE CloseIdleFires(c)
      BY <3>3, ClosingTells
    <3>4. QED
      BY <1>3, <3>1, <3>2, <3>3 DEF ClientDispatches
  <2>2. QED
    BY <1>3, <2>1, DispatchesEndures
<1>4. CASE Application(c)
  <2>1. Truthful(client'[c])
    <3>1. CASE Open(c)
      BY <3>1, OpenTells
    <3>2. ASSUME NEW k \in Questions, NEW b \in BOOLEAN, PerformPromptAsync(c, k, b)
          PROVE  Truthful(client'[c])
      BY <3>2, PerformTells
    <3>3. \A k \in OpIndex : ~Cancel(c, k)
      BY DEF Cancel, Calm
    <3>4. CASE RealClose(c) \/ CloseAsync(c)
      BY <1>1, <3>4, CloseTells
    <3>5. QED
      BY <1>4, <3>1, <3>2, <3>3, <3>4 DEF Application
  <2>2. QED
    BY <1>4, <2>1, DispatchesEndures
<1>5. CASE TimeoutFires(c)
  BY <1>1, <1>5, TimeoutTells
<1>6. QED
  BY <1>2, <1>3, <1>4, <1>5 DEF Client

\* What a prompt sends when it is not closing.
Onward(msgs) == IsBox(msgs) /\ Lacks(msgs, "Stop")

\* All the messages of a prompt but StopPrompting.
LEMMA OnwardMessages ==
    /\ Onward(<<>>) /\ Onward(<<Begin>>) /\ \A k : Onward(<<Perform(k)>>)
    /\ \A ok, o : Onward(<<ReadyReply(ok, o)>>)
<1>1. ASSUME NEW m, "kind" \in DOMAIN m, m.kind # "Stop" PROVE Onward(<<m>>)
  BY <1>1, BoxSingle DEF Onward
<1>2. /\ "kind" \in DOMAIN Begin /\ Begin.kind = "Begin"
      /\ \A k : "kind" \in DOMAIN Perform(k) /\ Perform(k).kind = "Perform"
      /\ \A ok, o : /\ "kind" \in DOMAIN ReadyReply(ok, o)
                    /\ ReadyReply(ok, o).kind = "ReadyReply"
  BY DEF Begin, Perform, ReadyReply
<1>3. Onward(<<>>)
  BY BoxSingle DEF Onward
<1>4. QED
  BY <1>1, <1>2, <1>3

\* A prompt says that prompting ends only when it closes.
LEMMA ClientQuiet ==
    ASSUME ProtocolInv, Calm, NEW c \in Callback, Client(c), Truthful(client[c]),
           Quietly(client[c], inbox[c], outbox[c]), registered \in BOOLEAN,
           NEW wait \in BOOLEAN, NEW ask \in BOOLEAN, NEW about,
           Locked(client[c], inbox[c], outbox[c], wait, ask, about, registered)
    PROVE  Quietly(client'[c], inbox'[c], outbox'[c])
<1>1. client[c].closed => client'[c].closed
  BY ClientTells
<1>2. /\ IsBox(inbox[c]) /\ IsBox(outbox[c]) /\ DOMAIN inbox = Callback
      /\ DOMAIN outbox = Callback
  BY DEF ProtocolInv, Tables, Sendable
<1>3. Harmony(client[c], inbox[c])
  BY InHarmony
<1>4. /\ \/ inbox' = inbox
         \/ inbox[c] # <<>> /\ Receive(c)
      /\ \/ client'[c].closed
         \/ outbox' = outbox
         \/ \E msgs : Transmit(c, msgs) /\ Onward(msgs)
  <2>1. CASE ClientReceives(c)
    <3>1. inbox[c] # <<>> /\ Receive(c)
      BY <2>1 DEF ClientReceives, ReceiveBeginReply, ReceivePerformReply, ReceiveStopReply,
                  ReceivePromptReady, ReceivePromptDone, ReceiveVanished, Got
    <3>2. outbox' = outbox \/ \E ok, o : Transmit(c, <<ReadyReply(ok, o)>>)
      BY <2>1 DEF ClientReceives, ReceiveBeginReply, ReceivePerformReply, ReceiveStopReply,
                  ReceivePromptReady, ReceivePromptDone, ReceiveVanished
    <3>3. QED
      BY <3>1, <3>2, OnwardMessages
  <2>2. CASE ClientDispatches(c)
    <3>1. CASE \E k \in OpIndex : WaitingFires(c, k)
      <4>1. client'[c].closed
        BY <1>3, <3>1, WaitingTells
      <4>2. inbox' = inbox
        BY <3>1 DEF WaitingFires
      <4>3. QED
        BY <4>1, <4>2
    <3>2. CASE ~\E k \in OpIndex : WaitingFires(c, k)
      <4>1. inbox' = inbox /\ (outbox' = outbox \/ Transmit(c, <<Begin>>))
        BY <2>2, <3>2 DEF ClientDispatches, BusConnected, CallCancelled, IdleFires,
                          CloseIdleFires
      <4>2. QED
        BY <4>1, OnwardMessages
    <3>3. QED
      BY <3>1, <3>2
  <2>3. CASE Application(c)
    <3>1. CASE CloseAsync(c) \/ RealClose(c)
      <4>1. client'[c].closed
        BY <1>3, <3>1, CloseTells
      <4>2. inbox' = inbox
        BY <3>1 DEF CloseAsync, RealClose
      <4>3. QED
        BY <4>1, <4>2
    <3>2. CASE ~(CloseAsync(c) \/ RealClose(c))
      <4>1. /\ inbox' = inbox
            /\ \/ outbox' = outbox \/ Transmit(c, <<>>)
               \/ \E k : Transmit(c, <<Perform(k)>>)
        BY <2>3, <3>2 DEF Application, Open, PerformPromptAsync, Cancel
      <4>2. QED
        BY <4>1, OnwardMessages
    <3>3. QED
      BY <3>1, <3>2
  <2>4. CASE TimeoutFires(c)
    <3>1. client'[c].closed
      BY <1>3, <2>4, TimeoutTells
    <3>2. inbox' = inbox
      BY <2>4 DEF TimeoutFires
    <3>3. QED
      BY <3>1, <3>2
  <2>5. QED
    BY <2>1, <2>2, <2>3, <2>4 DEF Client
<1>5. Lacks(inbox[c], "PromptDone") => Lacks(inbox'[c], "PromptDone")
  BY <1>2, <1>4, BoxTail DEF Receive, With
<1>6. Lacks(outbox[c], "Stop") => client'[c].closed \/ Lacks(outbox'[c], "Stop")
  BY <1>2, <1>4, BoxConcat DEF Transmit, With, Onward
<1>7. QED
  BY <1>1, <1>5, <1>6 DEF Quietly

\* Messages that do not end the prompting, and a step that sends d no other
\* unless d is closed.
Hushed(h) == IsBox(h) /\ Lacks(h, "PromptDone")

Hush(d) == client[d].closed \/ Hushed(sent'[d])

\* All the messages of the prompter and of the bus but PromptDone.
LEMMA HushedMessages ==
    /\ Hushed(<<>>) /\ Hushed(<<P!StopReply>>) /\ Hushed(<<Vanished>>)
    /\ \A ok : Hushed(<<P!BeginReply(ok)>>) /\ Hushed(<<P!PerformReply(ok)>>)
    /\ \A r, q, o : Hushed(<<P!PromptReady(r, q, o)>>)
    /\ \A o : /\ Hushed(<<P!Invitation(o)>>)
              /\ Hushed(Append(<<P!BeginReply(TRUE)>>, P!Invitation(o)))
    /\ Hushed(<<Vanished, P!PerformReply(FALSE)>>)
<1>1. ASSUME NEW m, "kind" \in DOMAIN m, m.kind # "PromptDone" PROVE Hushed(<<m>>)
  BY <1>1, BoxSingle DEF Hushed
<1>2. Hushed(<<>>)
  BY BoxSingle DEF Hushed
<1>3. /\ Hushed(<<P!StopReply>>) /\ Hushed(<<Vanished>>)
      /\ \A ok : Hushed(<<P!BeginReply(ok)>>) /\ Hushed(<<P!PerformReply(ok)>>)
  BY <1>1, Sayings
<1>4. ASSUME NEW r, NEW q, NEW o PROVE Hushed(<<P!PromptReady(r, q, o)>>)
  <2> DEFINE m == P!PromptReady(r, q, o)
  <2>1. "kind" \in DOMAIN m /\ m.kind = "PromptReady"
    BY Sayings
  <2> HIDE DEF m
  <2>2. Hushed(<<m>>)
    BY <1>1, <2>1
  <2>3. QED
    BY <2>2 DEF m
<1>5. ASSUME NEW o
      PROVE  /\ Hushed(<<P!Invitation(o)>>)
             /\ Hushed(Append(<<P!BeginReply(TRUE)>>, P!Invitation(o)))
  <2> DEFINE a == P!BeginReply(TRUE)
             b == P!Invitation(o)
  <2>1. "kind" \in DOMAIN b /\ b.kind = "PromptReady"
    BY Sayings DEF P!Invitation
  <2>2. Hushed(<<a>>)
    BY <1>3
  <2> HIDE DEF a, b
  <2>3. Hushed(<<b>>) /\ Hushed(Append(<<a>>, b))
    BY <1>1, <2>1, <2>2, BoxAppend DEF Hushed
  <2>4. QED
    BY <2>3 DEF a, b
<1>6. Hushed(<<Vanished, P!PerformReply(FALSE)>>)
  <2> DEFINE a == Vanished
             b == P!PerformReply(FALSE)
  <2>1. Hushed(<<a>>) /\ Hushed(<<b>>)
    BY <1>3
  <2> HIDE DEF a, b
  <2>2. <<a, b>> = <<a>> \o <<b>>
    BY PairJoins
  <2>3. Hushed(<<a>> \o <<b>>)
    BY <2>1, BoxConcat DEF Hushed
  <2>4. QED
    BY <2>2, <2>3 DEF a, b
<1>7. QED
  BY <1>2, <1>3, <1>4, <1>5, <1>6

\* Who is no party to a handler is not told that prompting ends.
LEMMA BystanderHush == ASSUME NEW d, P!Bystander(d) PROVE Hush(d)
BY HushedMessages DEF P!Bystander, Hush

\* The channels of d are quiet.
Undisturbed(d) == Quietly(client[d], inbox[d], outbox[d])

\* Messages are added to the inbox and taken from the outbox.
LEMMA UndisturbedAgain ==
    ASSUME NEW d \in Callback, Undisturbed(d), Hush(d), client' = client,
           NEW box, IsBox(box), Lacks(inbox[d], "PromptDone") => Lacks(box, "PromptDone"),
           inbox'[d] = box \o sent'[d],
           Lacks(outbox[d], "Stop") => Lacks(outbox'[d], "Stop")
    PROVE  Undisturbed(d)'
<1>1. CASE client[d].closed
  BY <1>1 DEF Undisturbed, Quietly
<1>2. CASE Hushed(sent'[d]) /\ ~client[d].closed
  <2>1. Lacks(box, "PromptDone") /\ Lacks(outbox'[d], "Stop")
    BY <1>2 DEF Undisturbed, Quietly
  <2>2. Lacks(box \o sent'[d], "PromptDone")
    BY <1>2, <2>1, BoxConcat DEF Hushed
  <2>3. QED
    BY <2>1, <2>2 DEF Undisturbed, Quietly
<1>3. QED
  BY <1>1, <1>2 DEF Hush

\* The handlers of the prompter.
LEMMA HandlersHush ==
    ASSUME Together, NEW c \in Callback, NEW d \in Callback, Undisturbed(d),
           \/ P!BeginPrompting(c) \/ \E q : P!PerformPrompt(c, "confirm", q, TRUE)
           \/ outbox[c] # <<>> /\ Head(outbox[c]).kind = "Stop" /\ P!StopPrompting(c)
           \/ \E o \in Object, ok \in BOOLEAN : P!PromptReadyComplete(o, ok)
           \/ \E o \in Object, r \in {"yes", "no"} : P!PromptComplete(o, r)
    PROVE  Hush(d)
<1>1. P!Records /\ IsBox(outbox[c])
  BY DEF Together, ProtocolInv, Tables, Sendable
<1>2. CASE P!BeginPrompting(c)
  BY <1>1, <1>2, Assumptions, P!BeginFor, BystanderHush, HushedMessages DEF Hush
<1>3. ASSUME NEW q, P!PerformPrompt(c, "confirm", q, TRUE) PROVE Hush(d)
  BY <1>1, <1>3, Assumptions, P!PerformFor, BystanderHush, HushedMessages DEF Hush
<1>4. CASE outbox[c] # <<>> /\ Head(outbox[c]).kind = "Stop" /\ P!StopPrompting(c)
  <2>1. CASE d # c
    BY <1>1, <1>4, <2>1, Assumptions, P!StopFor, BystanderHush
  <2>2. CASE d = c
    <3>1. ~Lacks(outbox[c], "Stop")
      BY <1>1, <1>4, BoxTail
    <3>2. QED
      BY <2>2, <3>1 DEF Undisturbed, Quietly, Hush
  <2>3. QED
    BY <2>1, <2>2
<1>5. ASSUME NEW o \in Object, NEW ok \in BOOLEAN, P!PromptReadyComplete(o, ok)
      PROVE  Hush(d)
  BY <1>1, <1>5, Assumptions, P!ReadyCompleteFor, BystanderHush
<1>6. ASSUME NEW o \in Object, NEW r \in {"yes", "no"}, P!PromptComplete(o, r)
      PROVE  Hush(d)
  BY <1>1, <1>6, Assumptions, P!CompleteFor, HushedMessages DEF Hush
<1>7. QED
  BY <1>2, <1>3, <1>4, <1>5, <1>6

\* The prompter takes a message.
LEMMA PrompterReceivesQuiet ==
    ASSUME Together, NEW c \in Callback, PrompterReceives(c), NEW d \in Callback, Undisturbed(d)
    PROVE  Undisturbed(d)'
<1> DEFINE m == Head(outbox[c])
<1>1. /\ ProtocolInv /\ Sendable(inbox) /\ Sendable(outbox) /\ StampedAll
  BY DEF Together, ProtocolInv, Tables
<1>2. /\ outbox[c] # <<>> /\ outbox' = With(outbox, c, Tail(outbox[c]))
      /\ Deliver(inbox) /\ client' = client
  BY DEF PrompterReceives
<1>3. m.kind = "ReadyReply" => m.from \in Object \cup {NoObject} /\ m.ok \in BOOLEAN
  BY <1>1, <1>2, StampedTail DEF Sendable, StampedAll
<1>4. Hush(d)
  <2>1. CASE m.kind = "Begin" /\ Prompter!BeginPrompting(c)
    BY <2>1, SameBegin, HandlersHush
  <2>2. CASE m.kind = "Perform" /\ Prompter!PerformPrompt(c, "confirm", m.question, TRUE)
    <3>1. P!PerformPrompt(c, "confirm", m.question, TRUE)
      BY <2>2, SamePerform
    <3>2. QED
      BY <3>1, HandlersHush
  <2>3. CASE m.kind = "Stop" /\ Prompter!StopPrompting(c)
    BY <1>2, <2>3, SameStop, HandlersHush
  <2>4. CASE /\ m.kind = "ReadyReply" /\ m.from # NoObject
             /\ Prompter!PromptReadyComplete(m.from, m.ok)
    <3>1. P!PromptReadyComplete(m.from, m.ok) /\ m.from \in Object /\ m.ok \in BOOLEAN
      BY <1>3, <2>4, SameReadyComplete
    <3>2. QED
      BY <3>1, HandlersHush
  <2>5. CASE sent' = Prompter!Nothing
    <3>1. sent'[d] = <<>>
      BY <2>5 DEF Prompter!Nothing
    <3>2. QED
      BY <3>1, HushedMessages DEF Hush
  <2>6. QED
    BY <2>1, <2>2, <2>3, <2>4, <2>5 DEF PrompterReceives
<1>5. inbox'[d] = inbox[d] \o sent'[d] /\ IsBox(inbox[d])
  BY <1>1, <1>2 DEF Deliver, Sendable
<1>6. Lacks(outbox[d], "Stop") => Lacks(outbox'[d], "Stop")
  BY <1>1, <1>2, TakenKinds
<1>7. QED
  BY <1>2, <1>4, <1>5, <1>6, UndisturbedAgain

\* A call is given up, the user answers, or the prompter's process ends.
LEMMA OrphansQuiet ==
    ASSUME ProtocolInv, NEW S, Deliver(Orphaned(inbox, S)), outbox' = Orphaned(outbox, S),
           client' = client, NEW d \in Callback, Undisturbed(d), Hush(d)
    PROVE  Undisturbed(d)'
<1>1. Sendable(inbox) /\ Sendable(outbox)
  BY DEF ProtocolInv, Tables
<1>2. KeepsKinds(Orphaned(inbox, S), inbox) /\ KeepsKinds(Orphaned(outbox, S), outbox)
  BY <1>1, OrphanedKinds
<1> DEFINE box == Orphaned(inbox, S)[d]
<1>3. /\ IsBox(box) /\ (Lacks(inbox[d], "PromptDone") => Lacks(box, "PromptDone"))
      /\ Lacks(outbox[d], "Stop") => Lacks(outbox'[d], "Stop")
  BY <1>2 DEF KeepsKinds, Sendable
<1>4. inbox'[d] = box \o sent'[d]
  BY DEF Deliver
<1> HIDE DEF box
<1>5. QED
  BY <1>3, <1>4, UndisturbedAgain

\* What the user, GDBus and the end of the prompter do.
LEMMA UserQuiet ==
    ASSUME Together, Calm, NEW d \in Callback, Undisturbed(d),
           \/ \E o \in Object : PromptReadyGivenUp(o) \/ UserAnswers(o)
           \/ \E c \in Callback : UserCloses(c)
           \/ PrompterDies
    PROVE  Undisturbed(d)'
<1>1. ProtocolInv /\ Sendable(inbox) /\ Sendable(outbox)
  BY DEF Together, ProtocolInv, Tables
<1>2. ASSUME NEW o \in Object, PromptReadyGivenUp(o) PROVE Undisturbed(d)'
  <2>1. P!PromptReadyComplete(o, FALSE)
    BY <1>2, SameReadyComplete DEF PromptReadyGivenUp
  <2>2. /\ Deliver(Orphaned(inbox, {o})) /\ outbox' = Orphaned(outbox, {o})
        /\ client' = client
    BY <1>2 DEF PromptReadyGivenUp
  <2>3. Hush(d)
    BY <2>1, HandlersHush
  <2>4. QED
    BY <1>1, <2>2, <2>3, OrphansQuiet
<1>3. ASSUME NEW o \in Object, UserAnswers(o) PROVE Undisturbed(d)'
  <2>1. PICK r \in {"yes", "no"} : P!PromptComplete(o, r)
    BY <1>3, SameComplete DEF UserAnswers
  <2>2. Deliver(inbox) /\ outbox' = outbox /\ client' = client
    BY <1>3 DEF UserAnswers
  <2>3. Hush(d)
    BY <2>1, HandlersHush
  <2>4. inbox'[d] = inbox[d] \o sent'[d] /\ IsBox(inbox[d])
    BY <1>1, <2>2 DEF Deliver, Sendable
  <2>5. QED
    BY <2>2, <2>3, <2>4, UndisturbedAgain
<1>4. \A c \in Callback : ~UserCloses(c)
  BY DEF Calm, UserCloses
<1>5. CASE PrompterDies
  <2>1. /\ Deliver(Orphaned(inbox, Object)) /\ outbox' = Orphaned(outbox, Object)
        /\ client' = client /\ sent'[d] = <<Vanished>>
    BY <1>5 DEF PrompterDies
  <2>2. Hush(d)
    BY <2>1, HushedMessages DEF Hush
  <2>3. QED
    BY <1>1, <2>1, <2>2, OrphansQuiet
<1>6. QED
  BY <1>2, <1>3, <1>4, <1>5

\* The bus answers for a prompter that is gone.
LEMMA BusHushed ==
    ASSUME NEW m, m.kind \in {"Begin", "Perform", "Stop", "ReadyReply"}
    PROVE  Hushed(BusReply(m))
<1>1. BusReply(m) \in {<<P!BeginReply(FALSE)>>, <<Vanished, P!PerformReply(FALSE)>>,
                       <<P!StopReply>>, <<>>}
  BY DEF BusReply
<1>2. QED
  BY <1>1, HushedMessages

\* The bus answers for a prompter that is gone.
LEMMA BusAnswersQuiet ==
    ASSUME Together, NEW c \in Callback, BusAnswers(c), NEW d \in Callback, Undisturbed(d)
    PROVE  Undisturbed(d)'
<1> DEFINE m == Head(outbox[c])
           h == BusReply(m)
<1>1. ProtocolInv /\ Sendable(inbox) /\ Sendable(outbox)
  BY DEF Together, ProtocolInv, Tables
<1>2. /\ outbox[c] # <<>> /\ client' = client
      /\ outbox' = With(outbox, c, Tail(outbox[c]))
  BY DEF BusAnswers
<1>3. inbox' = With(inbox, c, inbox[c] \o h)
  BY DEF BusAnswers, BusReply, Prompter!BeginReply, P!BeginReply, Prompter!PerformReply,
         P!PerformReply, Prompter!StopReply, P!StopReply
<1>4. Hushed(h)
  <2>1. \A kind : Lacks(outbox[c], kind) => m.kind # kind
    BY <1>1, <1>2, BoxTail DEF Sendable
  <2>2. m.kind \in {"Begin", "Perform", "Stop", "ReadyReply"}
    BY <1>1, <2>1 DEF ProtocolInv, Tables, Requests
  <2> HIDE DEF m
  <2>3. QED
    BY <2>2, BusHushed
<1> HIDE DEF m, h
<1>5. Lacks(outbox[d], "Stop") => Lacks(outbox'[d], "Stop")
  BY <1>1, <1>2, TakenKinds
<1>6. Lacks(inbox[d], "PromptDone") => Lacks(inbox'[d], "PromptDone")
  <2>1. inbox'[d] = IF d = c THEN inbox[d] \o h ELSE inbox[d]
    BY <1>1, <1>3 DEF With, Sendable
  <2>2. QED
    BY <1>1, <1>4, <2>1, BoxConcat DEF Hushed, Sendable
<1>7. QED
  BY <1>2, <1>5, <1>6 DEF Undisturbed, Quietly

\* Everything, where nothing is cancelled.
Serene == Together /\ \A d \in Callback : Truthful(client[d]) /\ Undisturbed(d)

\* In the beginning,
LEMMA InitSerene == Init => Serene
<1> SUFFICES ASSUME Init, NEW d \in Callback PROVE Truthful(client[d]) /\ Undisturbed(d)
  BY InitTogether DEF Serene
<1> DEFINE cl == client[d]
<1>1. inbox[d] = <<>> /\ outbox[d] = <<>> /\ cl = NewClient(d)
  BY DEF Init, ClientInit
<1>2. Undisturbed(d)
  BY <1>1, BoxSingle DEF Undisturbed, Quietly
<1> HIDE DEF cl
<1>3. cl.op = [k \in OpIndex |-> NewOp]
  BY <1>1 DEF NewClient
<1>4. /\ ~NewOp.started /\ NewOp.call = "none" /\ ~NewOp.leaked /\ NewOp.idle = 0
      /\ NewOp.completions = 0 /\ ~NewOp.userCancelled /\ ~NewOp.timeout /\ ~NewOp.waiting
      /\ NewOp.outcome = "none"
  BY DEF NewOp
<1>5. ASSUME NEW k \in OpIndex PROVE Fine(cl, k)
  <2>1. cl.op[k] = NewOp
    BY <1>3
  <2>2. Honest(cl, k)
    BY <1>4, <2>1 DEF Honest, Undone
  <2>3. Once(cl, k)
    BY <1>4, <2>1 DEF Once
  <2>4. QED
    BY <1>4, <2>1, <2>2, <2>3 DEF Fine
<1>6. QED
  BY <1>2, <1>5 DEF Truthful, cl

\* A step of a prompt.
LEMMA ClientSerene ==
    ASSUME Serene, Calm, NEW c \in Callback, Client(c), NEW d \in Callback
    PROVE  Truthful(client'[d]) /\ Undisturbed(d)'
<1>1. ProtocolInv /\ Lock(c) /\ registered \in BOOLEAN
  BY DEF Serene, Together, Registered
<1>2. Truthful(client[d]) /\ Undisturbed(d)
  BY DEF Serene
<1>3. CASE d # c
  <2>1. client'[d] = client[d] /\ inbox'[d] = inbox[d] /\ outbox'[d] = outbox[d]
    BY <1>1, <1>3, OnlyItself DEF Elsewhere
  <2>2. QED
    BY <1>2, <2>1 DEF Undisturbed
<1>4. CASE d = c
  <2> DEFINE wait == P!Queued(waiting, c)
             ask == P!Asking(active, obj, c)
             about == P!About(active, obj, c)
  <2>1. wait \in BOOLEAN /\ ask \in BOOLEAN
    BY Facts
  <2>2. Locked(client[c], inbox[c], outbox[c], wait, ask, about, registered)
    BY <1>1 DEF Lock
  <2>3. Quietly(client[c], inbox[c], outbox[c]) /\ Truthful(client[c])
    BY <1>2, <1>4 DEF Undisturbed
  <2> HIDE DEF wait, ask, about
  <2>4. Truthful(client'[c]) /\ Quietly(client'[c], inbox'[c], outbox'[c])
    BY <1>1, <2>1, <2>2, <2>3, ClientTells, ClientQuiet
  <2>5. QED
    BY <1>4, <2>4 DEF Undisturbed
<1>5. QED
  BY <1>3, <1>4

\* in every step,
LEMMA StepSerene == ASSUME Calm PROVE Serene /\ [Next]_protocolVars => Serene'
<1> SUFFICES ASSUME Serene, [Next]_protocolVars PROVE Serene'
  OBVIOUS
<1>1. Together /\ Together'
  BY StepTogether DEF Serene
<1> SUFFICES ASSUME NEW d \in Callback PROVE Truthful(client'[d]) /\ Undisturbed(d)'
  BY <1>1 DEF Serene
<1>2. Truthful(client[d]) /\ Undisturbed(d)
  BY DEF Serene
<1>3. ASSUME NEW c \in Callback, PrompterReceives(c) PROVE Truthful(client'[d]) /\ Undisturbed(d)'
  <2>1. client' = client
    BY <1>3 DEF PrompterReceives
  <2>2. QED
    BY <1>1, <1>2, <1>3, <2>1, PrompterReceivesQuiet
<1>4. CASE \/ \E o \in Object : PromptReadyGivenUp(o) \/ UserAnswers(o)
           \/ \E c \in Callback : UserCloses(c)
           \/ PrompterDies
  <2>1. client' = client
    BY <1>4 DEF PromptReadyGivenUp, UserAnswers, UserCloses, PrompterDies
  <2>2. QED
    BY <1>1, <1>2, <1>4, <2>1, UserQuiet
<1>5. ASSUME NEW c \in Callback, BusAnswers(c) PROVE Truthful(client'[d]) /\ Undisturbed(d)'
  <2>1. client' = client
    BY <1>5 DEF BusAnswers
  <2>2. QED
    BY <1>1, <1>2, <1>5, <2>1, BusAnswersQuiet
<1>6. ASSUME NEW c \in Callback, Client(c) PROVE Truthful(client'[d]) /\ Undisturbed(d)'
  BY <1>6, ClientSerene
<1>7. CASE UNCHANGED protocolVars
  <2>1. client' = client /\ inbox' = inbox /\ outbox' = outbox
    BY <1>7 DEF protocolVars, clientVars
  <2>2. QED
    BY <1>2, <2>1 DEF Undisturbed
<1>8. QED
  BY <1>3, <1>4, <1>5, <1>6, <1>7 DEF Next

\* and what follows from it: every answer is the one to its question,
LEMMA SereneTells == Serene => AnswerMatchesQuestion
<1> SUFFICES ASSUME Serene, NEW c \in Callback, NEW k \in Questions,
                    client[c].op[k].outcome = "continue"
             PROVE  client[c].op[k].answered = k
  BY DEF AnswerMatchesQuestion
<1>1. k \in OpIndex /\ Truthful(client[c])
  BY Indices DEF Serene
<1>2. Honest(client[c], k)
  BY <1>1 DEF Truthful, Fine
<1>3. QED
  BY <1>2 DEF Honest

\* and nothing completes twice.
LEMMA SereneOnce == ASSUME Impatient = {} PROVE Serene => CompletedOnce
<1> SUFFICES ASSUME Serene, NEW c \in Callback, NEW k \in OpIndex
             PROVE  client[c].op[k].completions <= 1
  BY DEF CompletedOnce
<1>1. Once(client[c], k)
  BY DEF Serene, Truthful, Fine, Counted
<1>2. QED
  BY <1>1 DEF Once

\* Where no caller cancels or closes while it asks and no dialog is dismissed,
\* a question that is reported as confirmed is the one that the user confirmed:
\* prompt_method_ready and handle_last_response never apply an answer to another
\* question, whatever times out and whether the prompter crashes or not.
THEOREM AnswersMatch == ASSUME Calm PROVE Spec => []AnswerMatchesQuestion
BY InitSerene, StepSerene, SereneTells, PTL DEF Spec

\* There, and where opening has no timeout, the callback of an operation is called
\* once, through whichever of g_simple_async_result_complete and complete_in_idle.
THEOREM OperationsCompleteOnce ==
    ASSUME Calm, Impatient = {} PROVE Spec => []CompletedOnce
BY InitSerene, StepSerene, SereneOnce, PTL DEF Spec
=============================================================================
