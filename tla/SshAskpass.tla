----------------------------- MODULE SshAskpass -----------------------------
(***************************************************************************)
(* Asking for a passphrase: ssh-add runs the helper gcr4-ssh-askpass, which *)
(* connects to the socket of GcrSshAskpass; a thread for each connection    *)
(* asks GcrSshAgentInteraction, which looks in the keyring first and then   *)
(* prompts, and may store what the user typed.  ssh-add, the keyring and    *)
(* the prompter are the environment.                                        *)
(***************************************************************************)
EXTENDS Integers, Sequences, FiniteSets

CONSTANTS
    Helper,       \* the helper processes
    Passwords     \* what the user may type

VARIABLES
    listening,    \* whether the socket is there
    cancelled,    \* the askpass object's cancellable
    keyring,      \* <<>>, or the password stored for the key
    helper,       \* helper -> [pc, out, exit]: its output and exit code
    thread        \* helper -> the thread that serves it: [pc, value, chosen, reply, open, typed, found]

hvars == <<listening, cancelled, keyring, helper, thread>>

NoHelper == [pc |-> "none", out |-> <<>>, exit |-> <<>>]
NoThread == [pc |-> "none", value |-> <<>>, chosen |-> FALSE, reply |-> <<>>, open |-> FALSE,
             typed |-> <<>>, found |-> <<>>]

\* gcr_ssh_askpass_constructed made the socket.
HInit ==
    /\ listening = TRUE /\ cancelled = FALSE
    /\ keyring \in {<<>>} \cup {<<p>> : p \in Passwords}
    /\ helper = [h \in Helper |-> NoHelper]
    /\ thread = [h \in Helper |-> NoThread]

Helps(h, r) == helper' = [helper EXCEPT ![h] = r]
Thread(h, r) == thread' = [thread EXCEPT ![h] = r]
Exit(r, code) == [r EXCEPT !.pc = "gone", !.exit = <<code>>]

-----------------------------------------------------------------------------
(* The helper's main. *)

\* It connects, or there is no socket any more; then it writes its message and
\* shuts its side down.
Connect(h) ==
    /\ helper[h].pc = "none"
    /\ Helps(h, IF listening THEN [NoHelper EXCEPT !.pc = "connected"] ELSE Exit(NoHelper, -1))
    /\ UNCHANGED <<listening, cancelled, keyring, thread>>

\* What comes is copied to ssh-add as it comes.
ReadReply(h) ==
    /\ helper[h].pc = "connected" /\ thread[h].reply # helper[h].out
    /\ Helps(h, [helper[h] EXCEPT !.out = thread[h].reply])
    /\ UNCHANGED <<listening, cancelled, keyring, thread>>

\* Mutant: the answer is not looked at.
EndOfReplyUnchecked(h) ==
    /\ helper[h].pc = "connected" /\ thread[h].pc = "closed" /\ thread[h].reply = helper[h].out
    /\ Helps(h, Exit(helper[h], 0))
    /\ UNCHANGED <<listening, cancelled, keyring, thread>>

\* The end: a lone 0xff is a failure.
EndOfReply(h) ==
    /\ helper[h].pc = "connected" /\ thread[h].pc = "closed" /\ thread[h].reply = helper[h].out
    /\ Helps(h, Exit(helper[h], IF helper[h].out = <<"ff">> THEN -1 ELSE 0))
    /\ UNCHANGED <<listening, cancelled, keyring, thread>>

\* A connection that nobody accepted is reset with the socket.
Reset(h) ==
    /\ helper[h].pc = "connected" /\ thread[h].pc = "none" /\ ~listening
    /\ Helps(h, Exit(helper[h], -1))
    /\ UNCHANGED <<listening, cancelled, keyring, thread>>

\* ssh-add is killed, and its helper with it.
HelperKilled(h) ==
    /\ helper[h].pc = "connected"
    /\ Helps(h, Exit(helper[h], -2))
    /\ UNCHANGED <<listening, cancelled, keyring, thread>>

-----------------------------------------------------------------------------
(* The service. *)

\* askpass_accept: also of a helper that is gone already.
AskpassAccept(h) ==
    /\ listening /\ helper[h].pc # "none" /\ helper[h].exit # <<-1>> /\ thread[h].pc = "none"
    /\ Thread(h, [NoThread EXCEPT !.pc = "read", !.open = TRUE])
    /\ UNCHANGED <<listening, cancelled, keyring, helper>>

\* read_all_into_string, and the lookup in the keyring begins.
AskPassword(h) ==
    /\ thread[h].pc = "read"
    /\ Thread(h, [thread[h] EXCEPT !.pc = "lookup"])
    /\ UNCHANGED <<listening, cancelled, keyring, helper>>

\* The interaction has an answer: the password, or none.
Handled(t, value) == [t EXCEPT !.pc = "write", !.value = <<value>>]
Refused(t) == [t EXCEPT !.pc = "write", !.value = <<>>]

\* on_lookup_password_ready: an error is taken for nothing found.
LookupReady(h, fails) ==
    /\ thread[h].pc = "lookup"
    /\ Thread(h, IF keyring # <<>> /\ ~fails /\ ~cancelled THEN Handled([thread[h] EXCEPT !.found = keyring], keyring[1])
                 ELSE [thread[h] EXCEPT !.pc = "opening"])
    /\ UNCHANGED <<listening, cancelled, keyring, helper>>

\* Mutant: the question is left when no prompt can be opened.
PromptOpenLeft(h, opens) ==
    /\ thread[h].pc = "opening"
    /\ cancelled => ~opens
    /\ Thread(h, [thread[h] EXCEPT !.pc = IF opens THEN "prompt" ELSE "left"])
    /\ UNCHANGED <<listening, cancelled, keyring, helper>>

\* on_prompt_open.
PromptOpen(h, opens) ==
    /\ thread[h].pc = "opening"
    /\ cancelled => ~opens
    /\ Thread(h, IF opens THEN [thread[h] EXCEPT !.pc = "prompt"] ELSE Refused(thread[h]))
    /\ UNCHANGED <<listening, cancelled, keyring, helper>>

\* on_prompt_password: typed, with or without the box ticked, or cancelled.
PromptPassword(h, p, chosen) ==
    /\ thread[h].pc = "prompt" /\ ~cancelled
    /\ Thread(h, LET t == [thread[h] EXCEPT !.typed = <<p>>, !.chosen = chosen]
                 IN  IF chosen THEN [t EXCEPT !.pc = "store"] ELSE Handled(t, p))
    /\ UNCHANGED <<listening, cancelled, keyring, helper>>

PromptCancelled(h) ==
    /\ thread[h].pc = "prompt"
    /\ Thread(h, Refused(thread[h]))
    /\ UNCHANGED <<listening, cancelled, keyring, helper>>

\* on_store_password_ready: what could not be stored is not used either.  A
\* cancelled store may have been done.
StoreReady(h, stored, ok) ==
    /\ thread[h].pc = "store"
    /\ ok => stored /\ ~cancelled
    /\ keyring' = IF stored THEN thread[h].typed ELSE keyring
    /\ Thread(h, IF ok THEN Handled(thread[h], thread[h].typed[1]) ELSE Refused(thread[h]))
    /\ UNCHANGED <<listening, cancelled, helper>>

\* The end of askpass_thread: the password or the mark of failure is written, as
\* far as anyone reads it, and the connection closed.
WriteReply(h) ==
    /\ thread[h].pc = "write"
    /\ Thread(h, [thread[h] EXCEPT !.pc = "closed", !.open = FALSE,
                    !.reply = IF helper[h].pc = "gone" THEN <<>>
                              ELSE IF thread[h].value # <<>> THEN <<thread[h].value[1]>> ELSE <<"ff">>])
    /\ UNCHANGED <<listening, cancelled, keyring, helper>>

\* gcr_ssh_askpass_dispose: questions under way are cancelled, their threads end
\* by themselves.
Dispose ==
    /\ listening
    /\ listening' = FALSE /\ cancelled' = TRUE
    /\ UNCHANGED <<keyring, helper, thread>>

HNext ==
    \/ Dispose
    \/ \E h \in Helper :
         \/ Connect(h) \/ ReadReply(h) \/ EndOfReply(h) \/ Reset(h) \/ HelperKilled(h)
         \/ AskpassAccept(h) \/ AskPassword(h) \/ PromptCancelled(h) \/ WriteReply(h)
         \/ \E fails \in BOOLEAN : LookupReady(h, fails)
         \/ \E opens \in BOOLEAN : PromptOpen(h, opens)
         \/ \E p \in Passwords, chosen \in BOOLEAN : PromptPassword(h, p, chosen)
         \/ \E stored, ok \in BOOLEAN : StoreReady(h, stored, ok)

\* The main loop accepts, threads run, D-Bus calls are answered, and a user
\* looks at a prompt in the end; a prompt whose call is cancelled is closed.
ThreadStep(h) ==
    \/ AskPassword(h) \/ PromptCancelled(h) \/ WriteReply(h)
    \/ \E fails \in BOOLEAN : LookupReady(h, fails)
    \/ \E opens \in BOOLEAN : PromptOpen(h, opens)
    \/ \E p \in Passwords, chosen \in BOOLEAN : PromptPassword(h, p, chosen)
    \/ \E stored, ok \in BOOLEAN : StoreReady(h, stored, ok)

HFairness ==
    \A h \in Helper : /\ WF_hvars(AskpassAccept(h) \/ ThreadStep(h))
                      /\ WF_hvars(ReadReply(h) \/ EndOfReply(h) \/ Reset(h))

-----------------------------------------------------------------------------
\* A helper that says it has the passphrase hands ssh-add the one that was typed
\* for its own question or that the keyring had for it then, never the mark of
\* failure and never nothing; and a question that was refused, or whose answer
\* could not be stored, is never reported as answered.
PassphraseRight ==
    \A h \in Helper :
      (helper[h].exit = <<0>>) =>
        /\ helper[h].out # <<>>
        /\ helper[h].out = (IF thread[h].typed # <<>> THEN thread[h].typed ELSE thread[h].found)
        /\ thread[h].value = helper[h].out

\* Every helper ends, whether the user answers, the prompt cannot be opened or
\* the service goes away.
HelpersEnd == \A h \in Helper : (helper[h].pc = "connected") ~> (helper[h].pc = "gone")
=============================================================================
