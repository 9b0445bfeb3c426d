-------------------------------- MODULE Queues --------------------------------
(***************************************************************************)
(* The operations on a GQueue and on a table that the prompter's modules    *)
(* share.  They are written without recursion so that they can be proved    *)
(* about; SystemPrompterProofs has the lemmas.                              *)
(***************************************************************************)
EXTENDS Integers, Sequences

Entries(q) == {q[i] : i \in DOMAIN q}

\* g_queue_remove of every entry in S: the one queue that keeps the other
\* entries of q in their order, by the increasing enumeration of their
\* positions.
Removed(q, S) ==
    LET kept == {k \in DOMAIN q : q[k] \notin S}
        enumerations == UNION {[1..n -> DOMAIN q] : n \in 0..Len(q)}
    IN  {[i \in DOMAIN e |-> q[e[i]]] : e \in
            {f \in enumerations :
                /\ \A i, j \in DOMAIN f : i < j => f[i] < f[j]
                /\ {f[i] : i \in DOMAIN f} = kept}}

\* Mutant: the queue is used as a stack.
PushedHead(q, x) == <<x>> \o q

\* g_queue_push_tail.
Pushed(q, x) == Append(q, x)

\* g_hash_table_replace.
With(f, k, v) == [i \in DOMAIN f |-> IF i = k THEN v ELSE f[i]]
=============================================================================
