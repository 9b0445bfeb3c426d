------------------------------ MODULE PromptQueue ------------------------------
(***************************************************************************)
(* What the prompter promises its callers: a first-come first-served queue  *)
(* for the screen.  A client that asks is queued; only the head of the      *)
(* queue is ever shown, and when Limited is TRUE only while nobody else is. *)
(* Clients may leave at any time, several at once when they share a         *)
(* connection, and the place they free may be given away in the same step.  *)
(***************************************************************************)
EXTENDS Queues

CONSTANTS Client, Limited

VARIABLES queue, shown

vars == <<queue, shown>>

Init == queue = <<>> /\ shown = {}

\* The queue q and the set s stay, or the head of q is shown.
Settle(q, s) ==
    \/ queue' = q /\ shown' = s
    \/ /\ q # <<>>
       /\ Limited => s = {}
       /\ queue' = Tail(q)
       /\ shown' = s \cup {Head(q)}

Arrive(c) ==
    /\ c \notin Entries(queue) \cup shown
    /\ Settle(Append(queue, c), shown)

Leave(S) == \E q \in Removed(queue, S) : Settle(q, shown \ S)

Next == \/ \E c \in Client : Arrive(c)
        \/ \E S \in SUBSET Client : Leave(S)

Spec == Init /\ [][Next]_vars

-----------------------------------------------------------------------------
(* Properties.                                                             *)

\* Nobody is queued twice, or queued while shown.
QueuedOnce ==
    /\ \A i, j \in DOMAIN queue : queue[i] = queue[j] => i = j
    /\ Entries(queue) \cap shown = {}

\* When Limited, at most one client is shown.
OneShown == Limited => \A c, d \in shown : c = d

\* Nobody overtakes: a client that a step shows out of the queue had nobody
\* before it in the queue that is still queued after the step.
FirstComeFirstServed ==
    [][\A i, j \in DOMAIN queue :
          i < j /\ queue[j] \in shown' => queue[i] \notin Entries(queue')]_vars
=============================================================================
