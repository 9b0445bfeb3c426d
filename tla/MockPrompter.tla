---------------------------- MODULE MockPrompter ----------------------------
(***************************************************************************)
(* gcr-mock-prompter.c: a prompter in a thread of its own whose prompts    *)
(* answer what a test said they would be asked.  The test and the thread   *)
(* share a locked record; the system prompter, which makes, asks and drops *)
(* the prompts, is played by the thread.                                   *)
(***************************************************************************)
EXTENDS Integers, Sequences, SequencesExt, FiniteSets

CONSTANTS
  Prompts,       \* the prompts that may be made
  MaxExpected    \* bound: expectations of one test

VARIABLES
  thread,        \* "none", "starting", "signal", "running", "quit", "draining", "ended"
  test,          \* the test's thread: "out", "waiting", "ready", "joining"
  owner,         \* who holds the lock: "none", "test", "thread"
  responses,     \* the expectations that are left: [n, close, proceed, password, props]
  expected,      \* how many were expected so far
  prompt,        \* prompt -> [alive, held, props, source]
  log            \* the questions asked, in order: [kind, met, result], met being
                 \*   the expectation taken, in a sequence of none or one

kvars == <<thread, test, owner, responses, expected, prompt, log>>

Blank == [chosen |-> FALSE, strength |-> 0]
NoPrompt == [alive |-> FALSE, held |-> FALSE, props |-> Blank, source |-> <<>>]

KInit ==
  /\ thread = "none" /\ test = "out" /\ owner = "none"
  /\ responses = <<>> /\ expected = 0 /\ log = <<>>
  /\ prompt = [p \in Prompts |-> NoPrompt]

----------------------------------------------------------------------------
(* Starting. *)

\* gcr_mock_prompter_start: the thread is made under the lock, which waiting
\* for the condition releases.
Start ==
  /\ test = "out" /\ thread = "none"
  /\ test' = "waiting" /\ thread' = "starting"
  /\ responses' = <<>>
  /\ UNCHANGED <<owner, expected, prompt, log>>

\* mock_prompter_thread up to its main loop, all under the lock.
ThreadStarts ==
  /\ thread = "starting" /\ owner = "none"
  /\ thread' = "signal"
  /\ UNCHANGED <<test, owner, responses, expected, prompt, log>>

\* on_idle_signal_cond, the first thing the loop does, and the test wakes up.
SignalCond ==
  /\ thread = "signal" /\ test = "waiting"
  /\ thread' = "running" /\ test' = "ready"
  /\ UNCHANGED <<owner, responses, expected, prompt, log>>

----------------------------------------------------------------------------
(* What the test says. *)

Expect(close, proceed, password, props) ==
  /\ test = "ready" /\ expected < MaxExpected
  /\ expected' = expected + 1
  /\ responses' = Append(responses, [n |-> expected + 1, close |-> close, proceed |-> proceed,
                                     password |-> password, props |-> props])
  /\ UNCHANGED <<thread, test, owner, prompt, log>>

ExpectConfirmOk(chosen) == Expect(FALSE, TRUE, <<>>, chosen)
ExpectConfirmCancel == Expect(FALSE, FALSE, <<>>, <<>>)
ExpectPasswordOk(password, chosen) == Expect(FALSE, TRUE, <<password>>, chosen)
ExpectPasswordCancel == Expect(FALSE, FALSE, <<"">>, <<>>)
ExpectClose == Expect(TRUE, FALSE, <<>>, <<>>)

----------------------------------------------------------------------------
(* The prompts, in the thread. *)

\* The system prompter makes a prompt, itself or through "new-prompt".
NewPrompt(p) ==
  /\ thread = "running" /\ ~prompt[p].alive
  /\ prompt' = [prompt EXCEPT ![p] = [NoPrompt EXCEPT !.alive = TRUE, !.held = TRUE]]
  /\ UNCHANGED <<thread, test, owner, responses, expected, log>>

\* prompt_set_or_check_properties: only choice-chosen is set.
SetOrCheck(props, wanted) == IF wanted = <<>> THEN props ELSE [props EXCEPT !.chosen = wanted[1]]

EnsurePasswordStrength(props, password) == [props EXCEPT !.strength = IF password = "" THEN 0 ELSE 1]

\* Mutant: a confirmation takes what was expected of a password as well.
ConfirmResultAnyKind(r, props) ==
  IF r = <<>> \/ r[1].close THEN [props |-> props, result |-> "cancel"]
  ELSE [props |-> SetOrCheck(props, r[1].props), result |-> IF r[1].proceed THEN "continue" ELSE "cancel"]

\* The prompt's properties and the result when response r answers a question of
\* the kind; "cancel" is FALSE of a confirmation and NULL of a password.
ConfirmResult(r, props) ==
  IF r = <<>> \/ r[1].close \/ r[1].password # <<>> THEN [props |-> props, result |-> "cancel"]
  ELSE [props |-> SetOrCheck(props, r[1].props), result |-> IF r[1].proceed THEN "continue" ELSE "cancel"]

PasswordResult(r, props) ==
  IF r = <<>> \/ r[1].close \/ r[1].password = <<>> THEN [props |-> props, result |-> "cancel"]
  ELSE IF ~r[1].proceed THEN [props |-> SetOrCheck(props, r[1].props), result |-> "cancel"]
  ELSE [props |-> SetOrCheck(EnsurePasswordStrength(props, r[1].password[1]), r[1].props),
        result |-> r[1].password[1]]

Result(kind, r, props) == IF kind = "confirm" THEN ConfirmResult(r, props) ELSE PasswordResult(r, props)

\* gcr_mock_prompt_confirm_async and gcr_mock_prompt_password_async: the next
\* expectation is taken, and a source will complete with its result; a source
\* the prompt already had is destroyed with the request it was for.
PromptAsync(p, kind) ==
  LET r == IF responses = <<>> THEN <<>> ELSE <<responses[1]>>
      answer == Result(kind, r, prompt[p].props)
  IN  /\ thread = "running" /\ owner = "none" /\ prompt[p].held
      /\ prompt[p].source = <<>>     \* the system prompter asks one thing at a time
      /\ Len(log) < MaxExpected
      /\ responses' = IF r = <<>> THEN <<>> ELSE Tail(responses)
      /\ prompt' = [prompt EXCEPT ![p].props = answer.props,
                      ![p].source = <<[result |-> answer.result,
                                       close |-> r # <<>> /\ r[1].close]>>]
      /\ log' = Append(log, [kind |-> kind, met |-> r, result |-> answer.result])
      /\ UNCHANGED <<thread, test, owner, expected>>

\* What lets go of a prompt disposes it once nobody has it: the source keeps it.
Released(q) == IF q.held \/ q.source # <<>> THEN q ELSE [q EXCEPT !.alive = FALSE]

\* on_timeout_complete, and on_timeout_complete_and_close, on which the system
\* prompter drops the prompt.
TimeoutComplete(p) ==
  LET q == prompt[p]
  IN  /\ thread = "running" /\ q.source # <<>>
      /\ prompt' = [prompt EXCEPT ![p] = Released([q EXCEPT !.source = <<>>,
                                                     !.held = @ /\ ~q.source[1].close])]
      /\ UNCHANGED <<thread, test, owner, responses, expected, log>>

\* The system prompter drops a prompt whose caller is gone or done.
DropPrompt(p) ==
  /\ thread = "running" /\ prompt[p].held
  /\ prompt' = [prompt EXCEPT ![p] = Released([@ EXCEPT !.held = FALSE])]
  /\ UNCHANGED <<thread, test, owner, responses, expected, log>>

----------------------------------------------------------------------------
(* Stopping. *)

\* Mutant: the thread is waited for under the lock.
StopUnderLock ==
  /\ test = "ready" /\ owner = "none" /\ thread = "running"
  /\ thread' = "quit" /\ test' = "joining" /\ owner' = "test"
  /\ UNCHANGED <<responses, expected, prompt, log>>

\* gcr_mock_prompter_stop, up to the wait for the thread.
Stop ==
  /\ test = "ready" /\ owner = "none" /\ thread = "running"
  /\ thread' = "quit" /\ test' = "joining"
  /\ UNCHANGED <<owner, responses, expected, prompt, log>>

\* The loop has ended: under the lock the prompter is unregistered, its prompts
\* dropped, the connection flushed and closed.
Unregister ==
  /\ thread = "quit" /\ owner = "none"
  /\ thread' = "draining" /\ owner' = "thread"
  /\ prompt' = [p \in Prompts |-> Released([prompt[p] EXCEPT !.held = FALSE])]
  /\ UNCHANGED <<test, responses, expected, log>>

\* The last rounds of the context: what is due completes, and timeouts that are
\* not are destroyed with the context and release what they hold.
Drain ==
  /\ thread = "draining"
  /\ thread' = "ended" /\ owner' = "none"
  /\ prompt' = [p \in Prompts |->
                    Released([prompt[p] EXCEPT !.source = <<>>])]
  /\ UNCHANGED <<test, responses, expected, log>>

\* The rest of gcr_mock_prompter_stop: expectations that were not met are freed.
Join ==
  /\ test = "joining" /\ thread = "ended"
  /\ test' = "out" /\ responses' = <<>>
  /\ UNCHANGED <<thread, owner, expected, prompt, log>>

Wanted == {<<TRUE>>}

KNext ==
  \/ Start \/ ThreadStarts \/ SignalCond \/ Stop \/ Unregister \/ Drain \/ Join
  \/ \E w \in Wanted : \/ ExpectConfirmOk(w)
                       \/ \E password \in {"", "booo"} : ExpectPasswordOk(password, w)
  \/ ExpectConfirmCancel \/ ExpectPasswordCancel \/ ExpectClose
  \/ \E p \in Prompts : \/ NewPrompt(p) \/ TimeoutComplete(p) \/ DropPrompt(p)
                        \/ \E kind \in {"confirm", "password"} : PromptAsync(p, kind)

\* The thread is scheduled, and the test goes on when it may.
KFairness == WF_kvars(ThreadStarts \/ SignalCond \/ Unregister \/ Drain \/ Join)

KSpec == KInit /\ [][KNext]_kvars /\ KFairness

----------------------------------------------------------------------------
\* The expectation that a question met is of its kind and says that it goes ahead.
Foreseen(kind, met) ==
  /\ met # <<>> /\ ~met[1].close /\ met[1].proceed
  /\ met[1].password # <<>> <=> kind = "password"

\* Expectations are met in their order, each by one question at most, whichever
\* prompts ask; a question goes ahead, with the password that was expected, just
\* when the expectation it met is of its kind and says so: a surprise (none left,
\* or the wrong kind) is answered like a cancel; and when the mock has stopped no
\* prompt of its is left (gcr_mock_prompter_is_prompting).
MockInOrder ==
  /\ LET met == SelectSeq(log, LAMBDA e : e.met # <<>>)
     IN  \A k \in DOMAIN met : met[k].met[1].n = k
  /\ \A i \in DOMAIN log :
        log[i].result = IF ~Foreseen(log[i].kind, log[i].met) THEN "cancel"
                        ELSE IF log[i].kind = "confirm" THEN "continue"
                        ELSE log[i].met[1].password[1]
  /\ thread = "ended" => \A p \in Prompts : ~prompt[p].alive

\* A test that starts or stops the mock does not hang, whatever prompts are open
\* and however late their answers.
MockAnswers == (test \in {"waiting", "joining"}) ~> (test \in {"ready", "out"})
============================================================================
