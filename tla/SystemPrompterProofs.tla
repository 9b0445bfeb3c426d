------------------------- MODULE SystemPrompterProofs -------------------------
(***************************************************************************)
(* The prompter's tables, reference counts and ready flags are consistent   *)
(* in every reachable state, for any callers, prompts and mode.             *)
(*                                                                         *)
(* A handler is a sequence of steps on the tables: stop some prompts, then  *)
(* give the place away.  The inductive invariant is therefore stated as a   *)
(* predicate on a value of the tables, so that the state between two steps  *)
(* of one handler can be shown to satisfy it as well.  The last section says  *)
(* what each handler does for one callback, for the protocol's proofs.       *)
(***************************************************************************)
EXTENDS SystemPrompter, TLAPS

-----------------------------------------------------------------------------
(* The queue operations of module Queues.                                  *)

Distinct(q) == \A i, j \in DOMAIN q : q[i] = q[j] => i = j

\* Removing entries from a queue leaves exactly the others, and a queue
\* without duplicates stays one (g_queue_remove).
LEMMA RemovedEntries ==
    ASSUME NEW C, NEW q \in Seq(C), NEW S, NEW r \in Removed(q, S)
    PROVE  /\ r \in Seq(C)
           /\ Entries(r) = Entries(q) \ S
           /\ Distinct(q) => Distinct(r)
<1>0. PICK n \in 0..Len(q) : \E e \in [1..n -> DOMAIN q] :
        /\ \A i, j \in DOMAIN e : i < j => e[i] < e[j]
        /\ {e[i] : i \in DOMAIN e} = {k \in DOMAIN q : q[k] \notin S}
        /\ r = [i \in DOMAIN e |-> q[e[i]]]
  BY DEF Removed
<1>1. PICK e \in [1..n -> DOMAIN q] :
        /\ \A i, j \in DOMAIN e : i < j => e[i] < e[j]
        /\ {e[i] : i \in DOMAIN e} = {k \in DOMAIN q : q[k] \notin S}
        /\ r = [i \in DOMAIN e |-> q[e[i]]]
  BY <1>0
<1>2. /\ n \in Nat
      /\ DOMAIN e = 1..n
      /\ DOMAIN q = 1..Len(q)
      /\ \A k \in DOMAIN q : q[k] \in C
      /\ r = [i \in 1..n |-> q[e[i]]]
  BY <1>1
<1>3. r \in Seq(C)
  BY <1>2
<1>4. DOMAIN r = 1..n /\ \A i \in 1..n : r[i] = q[e[i]] /\ e[i] \in DOMAIN q
  BY <1>1, <1>2
<1>5. Entries(r) = Entries(q) \ S
  <2>1. ASSUME NEW x \in Entries(r) PROVE x \in Entries(q) \ S
    BY <1>1, <1>2, <1>4 DEF Entries
  <2>2. ASSUME NEW x \in Entries(q) \ S PROVE x \in Entries(r)
    <3>1. PICK k \in DOMAIN q : q[k] = x /\ q[k] \notin S
      BY DEF Entries
    <3>2. PICK i \in 1..n : e[i] = k
      BY <1>1, <1>2, <3>1
    <3> QED BY <1>4, <3>1, <3>2 DEF Entries
  <2> QED BY <2>1, <2>2
<1>6. ASSUME Distinct(q) PROVE Distinct(r)
  <2>1. ASSUME NEW i \in 1..n, NEW j \in 1..n, i < j PROVE r[i] # r[j]
    <3>1. e[i] < e[j] /\ e[i] \in DOMAIN q /\ e[j] \in DOMAIN q
      BY <1>1, <1>2, <2>1
    <3> QED BY <3>1, <1>2, <1>4, <1>6 DEF Distinct
  <2> QED BY <2>1, <1>2, <1>4 DEF Distinct
<1> QED BY <1>3, <1>5, <1>6

\* Removing entries keeps the order: nothing that stood before the new head
\* is still queued.
LEMMA RemovedOrder ==
    ASSUME NEW C, NEW q \in Seq(C), Distinct(q), NEW S, NEW r \in Removed(q, S), r # <<>>,
           NEW i \in DOMAIN q, NEW j \in DOMAIN q, i < j, q[j] = Head(r)
    PROVE  q[i] \notin Entries(r)
<1>0. PICK n \in 0..Len(q) : \E e \in [1..n -> DOMAIN q] :
        /\ \A k, l \in DOMAIN e : k < l => e[k] < e[l]
        /\ r = [k \in DOMAIN e |-> q[e[k]]]
  BY DEF Removed
<1>1. PICK e \in [1..n -> DOMAIN q] :
        /\ \A k, l \in DOMAIN e : k < l => e[k] < e[l]
        /\ r = [k \in DOMAIN e |-> q[e[k]]]
  BY <1>0
<1>2. /\ n \in Nat /\ DOMAIN e = 1..n /\ DOMAIN q = 1..Len(q) /\ DOMAIN r = 1..n
      /\ r \in Seq(C)
      /\ \A k \in 1..n : r[k] = q[e[k]] /\ e[k] \in DOMAIN q
  BY <1>1
<1>3. n >= 1 /\ Head(r) = r[1]
  BY <1>2
<1>4. e[1] = j
  BY <1>2, <1>3 DEF Distinct
<1> SUFFICES ASSUME NEW k \in 1..n, r[k] = q[i] PROVE FALSE
  BY <1>2 DEF Entries
<1>5. e[k] = i
  BY <1>2 DEF Distinct
<1>6. k = 1 \/ e[1] < e[k]
  BY <1>1, <1>2, <1>3
<1> QED BY <1>2, <1>4, <1>5, <1>6

\* The entries of a sequence to which one is appended.
LEMMA AppendEntries ==
    ASSUME NEW C, NEW q \in Seq(C), NEW x \in C
    PROVE  /\ DOMAIN Append(q, x) = 1..(Len(q) + 1) /\ DOMAIN q = 1..Len(q)
           /\ Len(q) \in Nat
           /\ \A i \in DOMAIN q : Append(q, x)[i] = q[i]
           /\ Append(q, x)[Len(q) + 1] = x
  OBVIOUS

\* Pushing an entry at the tail (g_queue_push_tail).
LEMMA PushedEntries ==
    ASSUME NEW C, NEW q \in Seq(C), NEW x \in C
    PROVE  /\ Pushed(q, x) \in Seq(C)
           /\ Pushed(q, x) # <<>>
           /\ Entries(Pushed(q, x)) = Entries(q) \cup {x}
           /\ Distinct(q) /\ x \notin Entries(q) => Distinct(Pushed(q, x))
<1> DEFINE p == Append(q, x)
<1>1. /\ p \in Seq(C) /\ DOMAIN p = 1..(Len(q) + 1) /\ DOMAIN q = 1..Len(q)
      /\ Len(q) \in Nat
      /\ \A i \in 1..Len(q) : p[i] = q[i]
      /\ p[Len(q) + 1] = x
  OBVIOUS
<1> HIDE DEF p
<1>2. Entries(p) = Entries(q) \cup {x}
  <2>1. ASSUME NEW y \in Entries(p) PROVE y \in Entries(q) \cup {x}
    BY <1>1 DEF Entries
  <2>2. ASSUME NEW y \in Entries(q) PROVE y \in Entries(p)
    <3>1. PICK i \in 1..Len(q) : q[i] = y
      BY <1>1 DEF Entries
    <3>2. i \in DOMAIN p /\ p[i] = y
      BY <1>1, <3>1
    <3> QED BY <3>2 DEF Entries
  <2>3. x \in Entries(p)
    <3>1. Len(q) + 1 \in DOMAIN p
      BY <1>1
    <3> QED BY <1>1, <3>1 DEF Entries
  <2> QED BY <2>1, <2>2, <2>3
<1>3. ASSUME Distinct(q), x \notin Entries(q) PROVE Distinct(p)
  BY <1>1, <1>3 DEF Distinct, Entries
<1>4. p # <<>>
  BY <1>1
<1> QED BY <1>1, <1>2, <1>3, <1>4 DEF Pushed, p

\* Taking the head off a queue (g_queue_pop_head).
LEMMA TailEntries ==
    ASSUME NEW C, NEW q \in Seq(C), q # <<>>
    PROVE  /\ Head(q) \in Entries(q) /\ Head(q) \in C
           /\ Tail(q) \in Seq(C)
           /\ Entries(q) = Entries(Tail(q)) \cup {Head(q)}
           /\ Distinct(q) => Distinct(Tail(q)) /\ Head(q) \notin Entries(Tail(q))
<1> DEFINE t == Tail(q)
<1>1. /\ Len(q) \in Nat /\ Len(q) > 0 /\ DOMAIN q = 1..Len(q)
      /\ t \in Seq(C) /\ DOMAIN t = 1..(Len(q) - 1)
      /\ \A i \in 1..(Len(q) - 1) : t[i] = q[i + 1]
      /\ Head(q) = q[1]
  OBVIOUS
<1>2. Head(q) \in Entries(q) /\ Head(q) \in C
  BY <1>1 DEF Entries
<1> HIDE DEF t
<1>3. Entries(q) = Entries(t) \cup {Head(q)}
  <2>1. ASSUME NEW y \in Entries(t) PROVE y \in Entries(q)
    <3>1. PICK i \in 1..(Len(q) - 1) : t[i] = y
      BY <1>1 DEF Entries
    <3>2. i + 1 \in DOMAIN q /\ q[i + 1] = y
      BY <1>1, <3>1
    <3> QED BY <3>2 DEF Entries
  <2>2. ASSUME NEW y \in Entries(q), y # Head(q) PROVE y \in Entries(t)
    <3>1. PICK i \in 1..Len(q) : q[i] = y
      BY <1>1 DEF Entries
    <3>2. i # 1
      BY <1>1, <2>2, <3>1
    <3>3. i - 1 \in DOMAIN t /\ t[i - 1] = y
      BY <1>1, <3>1, <3>2
    <3> QED BY <3>3 DEF Entries
  <2> QED BY <1>2, <2>1, <2>2
<1>4. ASSUME Distinct(q) PROVE Distinct(t) /\ Head(q) \notin Entries(t)
  <2>1. Distinct(t)
    <3>1. ASSUME NEW i \in DOMAIN t, NEW j \in DOMAIN t, t[i] = t[j] PROVE i = j
      <4>1. /\ i \in Int /\ j \in Int /\ i + 1 \in DOMAIN q /\ j + 1 \in DOMAIN q
            /\ q[i + 1] = q[j + 1]
        BY <1>1, <3>1
      <4>2. i + 1 = j + 1
        BY <4>1, <1>4 DEF Distinct
      <4> QED BY <4>1, <4>2
    <3> QED BY <3>1 DEF Distinct
  <2>2. Head(q) \notin Entries(t)
    <3> SUFFICES ASSUME NEW i \in DOMAIN t, t[i] = Head(q) PROVE FALSE
      BY DEF Entries
    <3>1. i \in Int /\ i + 1 \in DOMAIN q /\ 1 \in DOMAIN q /\ q[i + 1] = q[1] /\ i + 1 # 1
      BY <1>1
    <3> QED BY <3>1, <1>4 DEF Distinct
  <2> QED BY <2>1, <2>2
<1> QED BY <1>1, <1>2, <1>3, <1>4 DEF t

-----------------------------------------------------------------------------
(* The prompter.                                                           *)

\* What holds of an ActivePrompt that is (inTable) or is not in pv->active.
ObjectOK(a, inTable) ==
    /\ a \in ActivePrompt
    /\ a.refs = (IF inTable THEN 1 ELSE 0)
                  + (IF a.op # "none" THEN 1 ELSE 0)
                  + (IF a.connection_lost THEN 1 ELSE 0)
    /\ a.op # "none" => ~a.ready /\ ~a.connection_lost
    /\ inTable => /\ a.op = "none" <=> a.ready
                  /\ ~a.cancelled
                  /\ ~a.connection_lost
    /\ ~inTable => a.cancelled

\* What holds of the tables between two steps of a handler.
Consistent(cbs, w, act, objs) ==
    /\ cbs \subseteq Callback
    /\ w \in Seq(Callback)
    /\ act \in [Callback -> Object \cup {NoObject}]
    /\ objs \in [Object -> ActivePrompt \cup {Free}]
    /\ cbs = Entries(w) \cup {c \in Callback : act[c] # NoObject}
    /\ \A c \in Entries(w) : act[c] = NoObject
    /\ Distinct(w)
    /\ \A c \in Callback : act[c] # NoObject =>
          objs[act[c]] # Free /\ objs[act[c]].callback = c
    /\ \A o \in Object : objs[o] # Free =>
          ObjectOK(objs[o], act[objs[o].callback] = o)

OneActive(act) ==
    Mode = "single" => \A c, d \in Callback :
        act[c] # NoObject /\ act[d] # NoObject => c = d

MessagesOK(act, msgs) ==
    /\ msgs \in [Callback -> Seq(Message)]
    /\ \A c \in Callback : \A i \in DOMAIN msgs[c] :
          msgs[c][i].kind = "PromptReady" =>
              act[c] = msgs[c][i].from /\ act[c] # NoObject

\* The inductive invariant; Records is what of it outlives the messages.
Records ==
    /\ gone \subseteq Name
    /\ registered \in BOOLEAN
    /\ ~registered => callbacks = {}
    /\ Consistent(callbacks, waiting, active, obj)
    /\ OneActive(active)

IInv == Records /\ MessagesOK(active, sent)

-----------------------------------------------------------------------------
(* ActivePrompt objects.                                                   *)

\* A freed struct is told from a live one by its reference count.
LEMMA FreeHasNoRefs == \A a \in ActivePrompt : a # Free /\ a.refs # 0
  BY DEF ActivePrompt, Free

\* Stopping a prompt (prompt_stop_prompting) frees it, or leaves it cancelled
\* for what is outstanding to release.
LEMMA StopObjectOK ==
    ASSUME NEW a, ObjectOK(a, TRUE)
    PROVE  \/ StopObject(a) = Free
           \/ /\ ObjectOK(StopObject(a), FALSE)
              /\ StopObject(a).callback = a.callback
              /\ StopObject(a) # Free
<1> DEFINE b == [a EXCEPT !.cancelled = @ \/ ~a.ready]
           d == [b EXCEPT !.refs = @ - 1]
<1>1. a \in ActivePrompt /\ a.refs \in Nat \ {0} /\ a.ready \in BOOLEAN
        /\ a.cancelled \in BOOLEAN /\ a.op \in Operation /\ a.connection_lost \in BOOLEAN
  BY DEF ObjectOK, ActivePrompt
<1>2. b \in ActivePrompt /\ b.refs = a.refs /\ b.op = a.op /\ b.callback = a.callback
        /\ b.ready = a.ready /\ b.connection_lost = a.connection_lost
        /\ b.cancelled = (a.cancelled \/ ~a.ready)
  BY <1>1 DEF ActivePrompt
<1>3. CASE a.op = "none"
  BY <1>1, <1>2, <1>3 DEF ObjectOK, StopObject, Unref
<1>4. CASE a.op # "none"
  <2>1. a.refs = 2 /\ ~a.ready
    BY <1>4 DEF ObjectOK
  <2>2. StopObject(a) = d
    BY <1>2, <2>1 DEF StopObject, Unref
  <2> HIDE DEF b
  <2>3. d \in ActivePrompt /\ d.refs = 1 /\ d.op = a.op /\ d.callback = a.callback
          /\ d.cancelled /\ ~d.ready /\ d.connection_lost = a.connection_lost
    BY <1>2, <2>1 DEF ActivePrompt
  <2> HIDE DEF d
  <2>4. ObjectOK(d, FALSE)
    BY <1>4, <2>3 DEF ObjectOK
  <2> QED BY <2>2, <2>3, <2>4, FreeHasNoRefs
<1> QED BY <1>3, <1>4

\* When a PromptReady call returns, its reference is dropped and the prompt,
\* if still in the table, is ready (on_prompt_ready_complete).
LEMMA CallReturns ==
    ASSUME NEW a, NEW t \in BOOLEAN, ObjectOK(a, t), a.op = "call"
    PROVE  LET r == Unref([a EXCEPT !.ready = TRUE, !.op = "none"]) IN
           \/ ~t /\ r = Free
           \/ /\ t
              /\ ObjectOK(r, t)
              /\ r.callback = a.callback
              /\ r # Free
              /\ r.ready /\ r.refs = 1
<1> DEFINE b1 == [a EXCEPT !.ready = TRUE]
           b == [b1 EXCEPT !.op = "none"]
           d == [b EXCEPT !.refs = @ - 1]
<1>1. a \in ActivePrompt /\ a.refs \in Nat \ {0} /\ a.connection_lost \in BOOLEAN
  BY DEF ObjectOK, ActivePrompt
<1>2. b1 \in ActivePrompt /\ b1.refs = a.refs /\ b1.callback = a.callback
        /\ b1.ready = TRUE /\ b1.connection_lost = a.connection_lost
        /\ b1.cancelled = a.cancelled
  BY <1>1 DEF ActivePrompt
<1> HIDE DEF b1
<1>3. b \in ActivePrompt /\ b.refs = a.refs /\ b.op = "none" /\ b.callback = a.callback
        /\ b.ready = TRUE /\ b.connection_lost = a.connection_lost
        /\ b.cancelled = a.cancelled
  BY <1>2 DEF ActivePrompt, Operation
<1> HIDE DEF b
<1>4. CASE ~t
  <2>1. a.refs = 1
    BY <1>4 DEF ObjectOK
  <2>2. Unref(b) = Free
    BY <1>3, <2>1 DEF Unref
  <2> QED BY <1>4, <2>2, Zenon DEF b, b1
<1>5. CASE t
  <2>1. a.refs = 2 /\ ~a.cancelled /\ ~a.connection_lost
    BY <1>5 DEF ObjectOK
  <2>2. Unref(b) = d
    BY <1>3, <2>1 DEF Unref
  <2>3. d \in ActivePrompt /\ d.refs = 1 /\ d.op = "none" /\ d.callback = a.callback
          /\ ~d.cancelled /\ d.ready = TRUE /\ ~d.connection_lost
    BY <1>3, <2>1 DEF ActivePrompt
  <2>6. Unref([a EXCEPT !.ready = TRUE, !.op = "none"]) = d
    BY <2>2, Zenon DEF b, b1
  <2> HIDE DEF d
  <2>4. ObjectOK(d, TRUE)
    BY <2>3 DEF ObjectOK
  <2>5. d # Free
    BY <2>3, FreeHasNoRefs
  <2> QED BY <1>5, <2>3, <2>4, <2>5, <2>6, Zenon
<1> QED BY <1>4, <1>5

-----------------------------------------------------------------------------
(* The tables.                                                             *)

\* Changing one object for the worse or the better keeps the tables
\* consistent, as long as it stays with its callback or, out of the table,
\* is freed.
LEMMA UpdateKeeps ==
    ASSUME NEW cbs, NEW w, NEW act, NEW objs, Consistent(cbs, w, act, objs),
           NEW o \in Object, objs[o] # Free, NEW b,
           \/ b = Free /\ act[objs[o].callback] # o
           \/ /\ b # Free /\ b.callback = objs[o].callback
              /\ ObjectOK(b, act[b.callback] = o)
    PROVE  Consistent(cbs, w, act, [objs EXCEPT ![o] = b])
<1> DEFINE new == [objs EXCEPT ![o] = b]
<1>1. new \in [Object -> ActivePrompt \cup {Free}]
  BY DEF Consistent, ObjectOK
<1>2. ASSUME NEW c \in Callback, act[c] # NoObject
      PROVE  new[act[c]] # Free /\ new[act[c]].callback = c
  <2>1. act[c] \in Object /\ objs[act[c]] # Free /\ objs[act[c]].callback = c
    BY <1>2 DEF Consistent
  <2> QED BY <2>1 DEF Consistent
<1>3. ASSUME NEW p \in Object, new[p] # Free
      PROVE  ObjectOK(new[p], act[new[p].callback] = p)
  BY <1>3 DEF Consistent
<1> HIDE DEF new
<1> QED BY <1>1, <1>2, <1>3 DEF Consistent, new

\* prompt_stop_prompting keeps the tables consistent.
LEMMA StopKeeps ==
    ASSUME NEW w, NEW objs, Consistent(callbacks, w, active, objs),
           NEW S \in SUBSET callbacks, NEW r \in Removed(w, S)
    PROVE  Consistent(callbacks \ S, r, StoppedActive(S), StoppedObjects(objs, S))
<1> DEFINE act == StoppedActive(S)
           new == StoppedObjects(objs, S)
<1>1. /\ callbacks \subseteq Callback /\ w \in Seq(Callback)
      /\ active \in [Callback -> Object \cup {NoObject}]
      /\ objs \in [Object -> ActivePrompt \cup {Free}]
      /\ callbacks = Entries(w) \cup {c \in Callback : active[c] # NoObject}
      /\ \A c \in Entries(w) : active[c] = NoObject
      /\ Distinct(w)
      /\ \A c \in Callback : active[c] # NoObject =>
            objs[active[c]] # Free /\ objs[active[c]].callback = c
  BY DEF Consistent
<1>2. r \in Seq(Callback) /\ Entries(r) = Entries(w) \ S /\ Distinct(r)
  BY <1>1, RemovedEntries
<1>3. /\ act \in [Callback -> Object \cup {NoObject}]
      /\ \A c \in Callback : act[c] = IF c \in S THEN NoObject ELSE active[c]
  BY <1>1 DEF StoppedActive
<1>4. /\ \A o \in Object : new[o] = IF \E c \in S : active[c] = o
                                   THEN StopObject(objs[o]) ELSE objs[o]
      /\ new = [o \in Object |-> new[o]]
  BY DEF StoppedObjects
<1> HIDE DEF act, new
<1>5. ASSUME NEW o \in Object, objs[o] # Free
      PROVE  /\ ObjectOK(objs[o], active[objs[o].callback] = o)
             /\ objs[o].callback \in Callback
  BY <1>5, <1>1 DEF Consistent, ObjectOK, ActivePrompt
<1>6. ASSUME NEW o \in Object, NEW c \in S, active[c] = o
      PROVE  /\ objs[o].callback = c
             /\ objs[o] # Free
             /\ new[o] = StopObject(objs[o])
             /\ \/ new[o] = Free
                \/ ObjectOK(new[o], FALSE) /\ new[o].callback = c /\ new[o] # Free
  <2>1. objs[o].callback = c /\ objs[o] # Free /\ new[o] = StopObject(objs[o])
    BY <1>1, <1>4, <1>6, ObjectAssumption
  <2>2. ObjectOK(objs[o], TRUE)
    BY <1>5, <1>6, <2>1
  <2> QED BY <2>1, <2>2, StopObjectOK
<1>7. ASSUME NEW o \in Object, new[o] # Free
      PROVE  ObjectOK(new[o], act[new[o].callback] = o)
  <2>1. CASE \E c \in S : active[c] = o
    BY <1>1, <1>3, <1>6, <1>7, <2>1, ObjectAssumption
  <2>2. CASE ~\E c \in S : active[c] = o
    <3>1. new[o] = objs[o]
      BY <1>4, <2>2
    <3>2. /\ ObjectOK(new[o], active[new[o].callback] = o)
          /\ new[o].callback \in Callback
      BY <1>5, <1>7, <3>1
    <3>3. (act[new[o].callback] = o) <=> (active[new[o].callback] = o)
      BY <1>3, <2>2, <3>2, ObjectAssumption
    <3> QED BY <3>2, <3>3
  <2> QED BY <2>1, <2>2
<1>8. new \in [Object -> ActivePrompt \cup {Free}]
  <2>1. ASSUME NEW o \in Object PROVE new[o] \in ActivePrompt \cup {Free}
    BY <1>7 DEF ObjectOK
  <2> QED BY <1>4, <2>1
<1>9. ASSUME NEW c \in Callback, act[c] # NoObject
      PROVE  new[act[c]] # Free /\ new[act[c]].callback = c
  <2>1. c \notin S /\ act[c] = active[c] /\ active[c] \in Object
    BY <1>1, <1>3, <1>9
  <2>2. objs[act[c]] # Free /\ objs[act[c]].callback = c
    BY <1>1, <1>9, <2>1
  <2>3. ~\E d \in S : active[d] = act[c]
    BY <1>1, <2>1, <2>2, ObjectAssumption
  <2> QED BY <1>4, <2>1, <2>2, <2>3
<1>10. /\ callbacks \ S = Entries(r) \cup {c \in Callback : act[c] # NoObject}
       /\ \A c \in Entries(r) : act[c] = NoObject
  BY <1>1, <1>2, <1>3
<1> QED BY <1>1, <1>2, <1>3, <1>7, <1>8, <1>9, <1>10 DEF Consistent, act, new

\* prompt_next_ready keeps the tables consistent, shows at most one prompt
\* in single mode, and sends PromptReady only to the prompt it shows.
LEMMA NextReadyKeeps ==
    ASSUME NEW cbs, NEW w, NEW act, NEW objs, NEW msgs,
           Consistent(cbs, w, act, objs), OneActive(act), MessagesOK(act, msgs),
           PromptNextReady(w, act, objs, msgs)
    PROVE  /\ Consistent(cbs, waiting', active', obj')
           /\ OneActive(active')
           /\ MessagesOK(active', sent')
<1>1. CASE /\ w = <<>> \/ ~MayShow(act)
           /\ waiting' = w /\ active' = act /\ obj' = objs /\ sent' = msgs
  BY <1>1
<1>2. CASE /\ w # <<>> /\ MayShow(act)
           /\ \E o \in Object :
                /\ ~IsLive(objs, o)
                /\ active' = With(act, Head(w), o)
                /\ obj' = With(objs, o, NewActivePrompt(Head(w)))
                /\ sent' = Send(msgs, Head(w), PromptReady("none", NoQuestion, o))
           /\ waiting' = Tail(w)
  <2>1. PICK o \in Object :
            /\ objs[o] = Free
            /\ active' = With(act, Head(w), o)
            /\ obj' = With(objs, o, NewActivePrompt(Head(w)))
            /\ sent' = Send(msgs, Head(w), PromptReady("none", NoQuestion, o))
    BY <1>2 DEF IsLive
  <2> DEFINE h == Head(w)
             a == NewActivePrompt(h)
             m == PromptReady("none", NoQuestion, o)
  <2>2. /\ cbs \subseteq Callback /\ w \in Seq(Callback)
        /\ act \in [Callback -> Object \cup {NoObject}]
        /\ objs \in [Object -> ActivePrompt \cup {Free}]
        /\ cbs = Entries(w) \cup {c \in Callback : act[c] # NoObject}
        /\ \A c \in Entries(w) : act[c] = NoObject
        /\ Distinct(w)
        /\ \A c \in Callback : act[c] # NoObject =>
              objs[act[c]] # Free /\ objs[act[c]].callback = c
        /\ \A p \in Object : objs[p] # Free =>
              ObjectOK(objs[p], act[objs[p].callback] = p)
    BY DEF Consistent
  <2>3. /\ h \in Entries(w) /\ h \in Callback
        /\ waiting' \in Seq(Callback)
        /\ Entries(w) = Entries(waiting') \cup {h}
        /\ Distinct(waiting') /\ h \notin Entries(waiting')
    BY <1>2, <2>2, TailEntries
  <2>4. a \in ActivePrompt /\ a.callback = h /\ a.refs = 2 /\ a.op = "call"
          /\ a.ready = FALSE /\ a.cancelled = FALSE /\ a.connection_lost = FALSE
    BY <2>3 DEF NewActivePrompt, ActivePrompt, Operation
  <2> HIDE DEF h
  <2> HIDE DEF a
  <2>5. ObjectOK(a, TRUE) /\ a # Free
    BY <2>4, FreeHasNoRefs DEF ObjectOK
  <2>6. /\ active' \in [Callback -> Object \cup {NoObject}]
        /\ \A c \in Callback : active'[c] = IF c = h THEN o ELSE act[c]
    BY <2>1, <2>2 DEF With, h
  <2>7. /\ obj' \in [Object -> ActivePrompt \cup {Free}]
        /\ \A p \in Object : obj'[p] = IF p = o THEN a ELSE objs[p]
    BY <2>1, <2>2, <2>4 DEF With, a, h
  <2>8. ASSUME NEW c \in Callback, active'[c] # NoObject
        PROVE  obj'[active'[c]] # Free /\ obj'[active'[c]].callback = c
    BY <2>1, <2>2, <2>4, <2>5, <2>6, <2>7, <2>8
  <2>9. ASSUME NEW p \in Object, obj'[p] # Free
        PROVE  ObjectOK(obj'[p], active'[obj'[p].callback] = p)
    <3>1. CASE p = o
      BY <2>3, <2>4, <2>5, <2>6, <2>7, <3>1
    <3>2. CASE p # o
      <4>1. obj'[p] = objs[p] /\ ObjectOK(objs[p], act[objs[p].callback] = p)
        BY <2>2, <2>7, <2>9, <3>2
      <4>2. objs[p].callback \in Callback
        BY <4>1 DEF ObjectOK, ActivePrompt
      <4>3. act[h] = NoObject
        BY <2>2, <2>3
      <4>4. (active'[objs[p].callback] = p) <=> (act[objs[p].callback] = p)
        BY <2>6, <3>2, <4>2, <4>3, ObjectAssumption
      <4> QED BY <4>1, <4>4
    <3> QED BY <3>1, <3>2
  <2>10. /\ cbs = Entries(waiting') \cup {c \in Callback : active'[c] # NoObject}
         /\ \A c \in Entries(waiting') : active'[c] = NoObject
    <3>1. o # NoObject
      BY ObjectAssumption
    <3>2. Entries(w) \subseteq Callback /\ Entries(waiting') \subseteq Callback
      BY <2>2, <2>3
    <3>3. \A c \in Callback : active'[c] # NoObject <=> c = h \/ act[c] # NoObject
      BY <2>6, <3>1
    <3>4. \A c \in Entries(waiting') : active'[c] = NoObject
      BY <2>2, <2>3, <2>6, <3>2
    <3> QED BY <2>2, <2>3, <3>2, <3>3, <3>4
  <2>11. Consistent(cbs, waiting', active', obj')
    BY <2>2, <2>3, <2>6, <2>7, <2>8, <2>9, <2>10 DEF Consistent
  <2>12. OneActive(active')
    BY <1>2, <2>6 DEF OneActive, MayShow
  <2>13. MessagesOK(active', sent')
    <3>1. m \in Message /\ m.kind = "PromptReady" /\ m.from = o
      BY DEF PromptReady, Message, Response
    <3> HIDE DEF m
    <3>2. /\ msgs \in [Callback -> Seq(Message)]
          /\ \A c \in Callback : \A i \in DOMAIN msgs[c] :
                msgs[c][i].kind = "PromptReady" =>
                    act[c] = msgs[c][i].from /\ act[c] # NoObject
      BY DEF MessagesOK
    <3>3. /\ sent' \in [Callback -> Seq(Message)]
          /\ \A c \in Callback : sent'[c] = IF c = h THEN Append(msgs[h], m) ELSE msgs[c]
      BY <2>1, <2>3, <3>1, <3>2 DEF Send, With, m, h
    <3>4. ASSUME NEW c \in Callback, NEW i \in DOMAIN sent'[c],
                 sent'[c][i].kind = "PromptReady"
          PROVE  active'[c] = sent'[c][i].from /\ active'[c] # NoObject
      <4>1. CASE c # h
        BY <2>6, <3>2, <3>3, <3>4, <4>1
      <4>2. CASE c = h /\ i = Len(msgs[h]) + 1
        BY <2>3, <2>6, <3>1, <3>2, <3>3, <4>2, AppendEntries, ObjectAssumption
      <4>3. CASE c = h /\ i # Len(msgs[h]) + 1
        <5>1. i \in DOMAIN msgs[h] /\ sent'[c][i] = msgs[h][i]
          <6>1. msgs[h] \in Seq(Message) /\ sent'[c] = Append(msgs[h], m)
            BY <2>3, <3>2, <3>3, <4>3
          <6> QED BY <3>1, <3>4, <4>3, <6>1, AppendEntries
        <5>2. act[h] # NoObject
          BY <5>1, <3>2, <3>4, <2>3, <4>3
        <5>3. act[h] = NoObject
          BY <2>2, <2>3
        <5> QED BY <5>2, <5>3
      <4> QED BY <4>1, <4>2, <4>3
    <3> QED BY <3>3, <3>4 DEF MessagesOK
  <2> QED BY <2>11, <2>12, <2>13
<1> QED BY <1>1, <1>2 DEF PromptNextReady

-----------------------------------------------------------------------------
(* Messages.                                                               *)

\* Every message the handlers build is a message, of the kind it is named for.
LEMMA MessageTypes ==
    /\ \A ok \in BOOLEAN :
          /\ BeginReply(ok) \in Message /\ BeginReply(ok).kind = "BeginReply"
          /\ PerformReply(ok) \in Message /\ PerformReply(ok).kind = "PerformReply"
    /\ StopReply \in Message /\ StopReply.kind = "StopReply"
    /\ PromptDone \in Message /\ PromptDone.kind = "PromptDone"
    /\ \A r \in Response, q \in Question \cup {NoQuestion}, o \in Object :
          /\ PromptReady(r, q, o) \in Message
          /\ PromptReady(r, q, o).kind = "PromptReady"
          /\ PromptReady(r, q, o).from = o
  BY DEF BeginReply, PerformReply, StopReply, PromptDone, PromptReady, Message

\* A step that sends nothing, or only PromptDone, sends no answer.
LEMMA QuietMessages ==
    ASSUME NEW act, NEW S PROVE MessagesOK(act, Nothing) /\ MessagesOK(act, SendDone(S))
<1>1. MessagesOK(act, Nothing)
  BY DEF MessagesOK, Nothing
<1>2. SendDone(S) \in [Callback -> Seq(Message)]
  BY MessageTypes DEF SendDone
<1>3. ASSUME NEW c \in Callback, NEW i \in DOMAIN SendDone(S)[c]
      PROVE  SendDone(S)[c][i].kind # "PromptReady"
  BY MessageTypes DEF SendDone
<1> QED BY <1>1, <1>2, <1>3 DEF MessagesOK

\* Sending one message more.
LEMMA SendKeeps ==
    ASSUME NEW act, NEW msgs, MessagesOK(act, msgs), NEW c \in Callback, NEW m \in Message,
           m.kind = "PromptReady" => act[c] = m.from /\ act[c] # NoObject
    PROVE  MessagesOK(act, Send(msgs, c, m))
<1> DEFINE new == Send(msgs, c, m)
<1>1. /\ msgs \in [Callback -> Seq(Message)]
      /\ \A d \in Callback : \A i \in DOMAIN msgs[d] :
            msgs[d][i].kind = "PromptReady" =>
                act[d] = msgs[d][i].from /\ act[d] # NoObject
  BY DEF MessagesOK
<1>2. /\ new \in [Callback -> Seq(Message)]
      /\ \A d \in Callback : new[d] = IF d = c THEN Append(msgs[c], m) ELSE msgs[d]
  BY <1>1 DEF Send, With
<1> HIDE DEF new
<1>3. ASSUME NEW d \in Callback, NEW i \in DOMAIN new[d], new[d][i].kind = "PromptReady"
      PROVE  act[d] = new[d][i].from /\ act[d] # NoObject
  <2>1. CASE d # c
    BY <1>1, <1>2, <1>3, <2>1
  <2>2. CASE d = c
    <3>1. msgs[c] \in Seq(Message) /\ new[d] = Append(msgs[c], m)
      BY <1>1, <1>2, <2>2
    <3>2. \/ i \in DOMAIN msgs[c] /\ new[d][i] = msgs[c][i]
          \/ new[d][i] = m
      BY <3>1, AppendEntries
    <3> QED BY <1>1, <1>3, <2>2, <3>2
  <2> QED BY <2>1, <2>2
<1> QED BY <1>2, <1>3 DEF MessagesOK, new

-----------------------------------------------------------------------------
(* The handlers.                                                           *)

\* Stopping prompts and nothing else: unregister, a vanished caller, a
\* dialog that closes.
LEMMA StopAllKeeps ==
    ASSUME NEW S \in SUBSET callbacks, NEW msgs, StopAll(S, msgs),
           Consistent(callbacks, waiting, active, obj), OneActive(active)
    PROVE  Consistent(callbacks', waiting', active', obj') /\ OneActive(active')
<1>1. Consistent(callbacks', waiting', active', obj')
  BY StopKeeps DEF StopAll
<1>2. OneActive(active')
  BY DEF StopAll, StoppedActive, OneActive, Consistent
<1> QED BY <1>1, <1>2

\* A callback that begins joins the queue.
LEMMA PushKeeps ==
    ASSUME Consistent(callbacks, waiting, active, obj), NEW c \in Callback, c \notin callbacks
    PROVE  Consistent(callbacks \cup {c}, Pushed(waiting, c), active, obj)
<1>1. /\ Pushed(waiting, c) \in Seq(Callback)
      /\ Entries(Pushed(waiting, c)) = Entries(waiting) \cup {c}
      /\ Distinct(waiting) /\ c \notin Entries(waiting) => Distinct(Pushed(waiting, c))
  BY PushedEntries DEF Consistent
<1>2. c \notin Entries(waiting) /\ active[c] = NoObject /\ Distinct(waiting)
  BY DEF Consistent
<1> QED BY <1>1, <1>2 DEF Consistent

\* prompter_method_perform_prompt keeps the invariant.
LEMMA PerformKeeps ==
    ASSUME Records, NEW c \in Callback, NEW type, NEW q \in Question,
           NEW valid \in BOOLEAN, PerformPrompt(c, type, q, valid)
    PROVE  IInv'
<1> DEFINE o == active[c]
           a == obj[o]
           asked == [a EXCEPT !.question = q]
           b == [asked EXCEPT !.received = TRUE]
           b1 == [b EXCEPT !.ready = FALSE]
           b2 == [b1 EXCEPT !.op = type]
           b3 == [b2 EXCEPT !.refs = @ + 1]
<1>1. /\ gone \subseteq Name /\ registered \in BOOLEAN /\ registered
      /\ Consistent(callbacks, waiting, active, obj) /\ OneActive(active)
      /\ UNCHANGED <<gone, registered, callbacks, waiting, active>>
  BY DEF IInv, Records, PerformPrompt, bookkeeping
<1>2. MessagesOK(active, Send(Nothing, c, PerformReply(TRUE)))
        /\ MessagesOK(active, Send(Nothing, c, PerformReply(FALSE)))
  BY MessageTypes, QuietMessages, SendKeeps
<1>3. SUFFICES Consistent(callbacks, waiting, active, obj') /\ MessagesOK(active, sent')
  BY <1>1 DEF IInv, Records
<1>4. CASE UNCHANGED obj /\ sent' = Send(Nothing, c, PerformReply(FALSE))
  BY <1>1, <1>2, <1>4
<1>5. CASE o # NoObject /\ a.ready
  <2>1. /\ o \in Object /\ a # Free /\ a.callback = c /\ ObjectOK(a, TRUE)
        /\ a \in ActivePrompt
    BY <1>1, <1>5 DEF Consistent, ObjectOK
  <2>2. a.refs = 1 /\ a.op = "none" /\ a.ready /\ ~a.cancelled /\ ~a.connection_lost
    BY <1>5, <2>1 DEF ObjectOK
  <2>3. asked \in ActivePrompt /\ asked.refs = 1 /\ asked.op = "none" /\ asked.ready
          /\ ~asked.cancelled /\ ~asked.connection_lost /\ asked.callback = c
    BY <2>1, <2>2 DEF ActivePrompt
  <2> HIDE DEF asked
  <2>4. b \in ActivePrompt /\ b.refs = 1 /\ b.op = "none" /\ b.ready
          /\ ~b.cancelled /\ ~b.connection_lost /\ b.callback = c
    BY <2>3 DEF ActivePrompt
  <2> HIDE DEF b
  <2>5. CASE obj' = [obj EXCEPT ![o] = asked]
             /\ sent' = Send(Nothing, c, PerformReply(FALSE))
    <3>1. ObjectOK(asked, active[asked.callback] = o) /\ asked # Free
      BY <2>3, FreeHasNoRefs DEF ObjectOK
    <3> QED BY <1>1, <1>2, <2>1, <2>3, <2>5, <3>1, UpdateKeeps
  <2>6. CASE obj' = [obj EXCEPT ![o] = b]
             /\ sent' = Send(Nothing, c, PerformReply(FALSE))
    <3>1. ObjectOK(b, active[b.callback] = o) /\ b # Free
      BY <2>4, FreeHasNoRefs DEF ObjectOK
    <3> QED BY <1>1, <1>2, <2>1, <2>4, <2>6, <3>1, UpdateKeeps
  <2>7. CASE type \in {"confirm", "password"} /\ obj' = [obj EXCEPT ![o] = b3]
             /\ sent' = Send(Nothing, c, PerformReply(TRUE))
    <3>1. b1 \in ActivePrompt /\ b1.refs = 1 /\ b1.op = "none" /\ ~b1.ready
            /\ ~b1.cancelled /\ ~b1.connection_lost /\ b1.callback = c
      BY <2>4 DEF ActivePrompt
    <3> HIDE DEF b1
    <3>2. b2 \in ActivePrompt /\ b2.refs = 1 /\ b2.op = type /\ ~b2.ready
            /\ ~b2.cancelled /\ ~b2.connection_lost /\ b2.callback = c
      BY <2>7, <3>1 DEF ActivePrompt, Operation
    <3> HIDE DEF b2
    <3>3. b3 \in ActivePrompt /\ b3.refs = 2 /\ b3.op = type /\ ~b3.ready
            /\ ~b3.cancelled /\ ~b3.connection_lost /\ b3.callback = c
      BY <3>2 DEF ActivePrompt
    <3> HIDE DEF b3
    <3>4. ObjectOK(b3, active[b3.callback] = o) /\ b3 # Free
      BY <2>7, <3>3, FreeHasNoRefs DEF ObjectOK
    <3> QED BY <1>1, <1>2, <2>1, <3>3, <2>7, <3>4, UpdateKeeps
  <2>8. \/ /\ obj' = [obj EXCEPT ![o] = asked]
           /\ sent' = Send(Nothing, c, PerformReply(FALSE))
        \/ /\ obj' = [obj EXCEPT ![o] = b]
           /\ sent' = Send(Nothing, c, PerformReply(FALSE))
        \/ /\ type \in {"confirm", "password"} /\ obj' = [obj EXCEPT ![o] = b3]
           /\ sent' = Send(Nothing, c, PerformReply(TRUE))
    BY <1>5, Zenon DEF PerformPrompt, asked, b, b1, b2, b3
  <2> QED BY <2>5, <2>6, <2>7, <2>8
<1>6. \/ UNCHANGED obj /\ sent' = Send(Nothing, c, PerformReply(FALSE))
      \/ o # NoObject /\ a.ready
  BY Zenon DEF PerformPrompt
<1> QED BY <1>4, <1>5, <1>6

\* The stop of a callback and the state it leaves for prompt_next_ready.
Yields(S, w, objs) ==
    /\ callbacks' = callbacks \ S
    /\ Consistent(callbacks \ S, w, StoppedActive(S), objs)
    /\ OneActive(StoppedActive(S))
    /\ PromptNextReady(w, StoppedActive(S), objs, Nothing)

\* The prompts when the call of o has returned.
Returned(o) == [obj EXCEPT ![o] = Unref([obj[o] EXCEPT !.ready = TRUE, !.op = "none"])]

\* A PromptReady call that returns either changes nothing but its own prompt
\* or stops that prompt and gives its place away.
LEMMA ReadyCompleteDoes ==
    ASSUME Records, NEW o \in Object, NEW ok \in BOOLEAN, PromptReadyComplete(o, ok)
    PROVE  /\ Consistent(callbacks, waiting, active, Returned(o))
           /\ obj[o].op = "call"
           /\ active[obj[o].callback] = o => Returned(o)[o].op = "none"
           /\ \/ /\ UNCHANGED bookkeeping /\ sent' = Nothing
                 /\ obj' = Returned(o)
              \/ /\ active[obj[o].callback] = o /\ obj[o].callback \in callbacks
                 /\ \E w \in Removed(waiting, {obj[o].callback}) :
                       Yields({obj[o].callback}, w,
                              StoppedObjects(Returned(o), {obj[o].callback}))
<1> DEFINE a == [obj[o] EXCEPT !.ready = TRUE, !.op = "none"]
           S == {obj[o].callback} \cap callbacks
           inTable == active[obj[o].callback] = o
           returned == [obj EXCEPT ![o] = Unref(a)]
           stopped == StoppedObjects([obj EXCEPT ![o] = a], S)
           released == With(stopped, o, Unref(stopped[o]))
<1>1. /\ gone \subseteq Name /\ registered \in BOOLEAN
      /\ ~registered => callbacks = {}
      /\ Consistent(callbacks, waiting, active, obj) /\ OneActive(active)
      /\ UNCHANGED <<gone, registered>>
      /\ obj[o] # Free /\ obj[o].op = "call"
      /\ obj \in [Object -> ActivePrompt \cup {Free}]
  BY DEF IInv, Records, PromptReadyComplete, Consistent, IsLive
<1>2. ObjectOK(obj[o], inTable) /\ obj[o] \in ActivePrompt /\ obj[o].callback \in Callback
  BY <1>1 DEF Consistent, ActivePrompt
<1> DEFINE a1 == [obj[o] EXCEPT !.ready = TRUE]
           b == [a1 EXCEPT !.op = "none"]
<1>3. b \in ActivePrompt /\ b.refs = obj[o].refs /\ b.callback = obj[o].callback
        /\ b.cancelled = obj[o].cancelled /\ b.ready = TRUE
  <2>1. a1 \in ActivePrompt /\ a1.refs = obj[o].refs /\ a1.callback = obj[o].callback
          /\ a1.cancelled = obj[o].cancelled /\ a1.ready = TRUE
    BY <1>2 DEF ActivePrompt
  <2> HIDE DEF a1
  <2> QED BY <2>1 DEF ActivePrompt, Operation
<1>4. a = b
  BY Zenon
<1> HIDE DEF a, b
<1>5. LET r == Unref(a) IN
      \/ ~inTable /\ r = Free
      \/ /\ inTable /\ ObjectOK(r, inTable) /\ r.callback = obj[o].callback
         /\ r # Free /\ r.ready /\ r.refs = 1
  BY <1>1, <1>2, CallReturns, Zenon DEF a
<1>6. Consistent(callbacks, waiting, active, returned)
  BY <1>1, <1>5, UpdateKeeps
<1>10. returned = Returned(o) /\ (inTable => returned[o].op = "none")
  <2>1. returned = Returned(o)
    BY Zenon DEF Returned, a
  <2>2. inTable => returned[o].op = "none"
    BY <1>1, <1>5 DEF ObjectOK
  <2>3. QED
    BY <2>1, <2>2
<1>7. CASE obj' = returned /\ sent' = Nothing /\ UNCHANGED bookkeeping
  BY <1>1, <1>6, <1>7, <1>10, Zenon
<1>8. CASE /\ ~a.cancelled
           /\ callbacks' = callbacks \ S
           /\ \E w \in Removed(waiting, S) :
                 PromptNextReady(w, StoppedActive(S), released, Nothing)
  <2>1. inTable
    BY <1>2, <1>3, <1>4, <1>8 DEF ObjectOK
  <2>2. S = {obj[o].callback}
    BY <1>1, <1>2, <2>1, ObjectAssumption DEF Consistent
  <2>3. PICK w \in Removed(waiting, S) :
            PromptNextReady(w, StoppedActive(S), released, Nothing)
    BY <1>8
  <2>4. released = StoppedObjects(returned, S)
    <3>1. a.refs = 2 /\ a \in ActivePrompt
      BY <1>1, <1>2, <1>3, <1>4, <2>1 DEF ObjectOK
    <3>2. Unref(StopObject(a)) = Free
      <4> DEFINE k == [a EXCEPT !.cancelled = @ \/ ~a.ready]
                 l == [k EXCEPT !.refs = @ - 1]
      <4>1. k \in ActivePrompt /\ k.refs = 2
        BY <3>1 DEF ActivePrompt
      <4> HIDE DEF k
      <4>2. Unref(k) = l /\ l.refs = 1
        BY <4>1 DEF Unref, ActivePrompt
      <4> HIDE DEF l
      <4>3. Unref(l) = Free
        BY <4>2 DEF Unref
      <4> QED BY <4>2, <4>3 DEF StopObject, k
    <3>3. StopObject(Unref(a)) = Free
      <4> DEFINE r == Unref(a)
                 k == [r EXCEPT !.cancelled = @ \/ ~r.ready]
      <4>1. r.refs = 1 /\ r \in ActivePrompt
        BY <1>5, <2>1 DEF ObjectOK
      <4> HIDE DEF r
      <4>2. k.refs = 1
        BY <4>1 DEF ActivePrompt
      <4> HIDE DEF k
      <4>3. Unref(k) = Free
        BY <4>2 DEF Unref
      <4> QED BY <4>3 DEF StopObject, k, r
    <3>4. \A p \in Object : stopped[p] = IF active[obj[o].callback] = p
                                       THEN StopObject(IF p = o THEN a ELSE obj[p])
                                       ELSE IF p = o THEN a ELSE obj[p]
      BY <1>1, <2>2 DEF StoppedObjects
    <3>5. \A p \in Object : StoppedObjects(returned, S)[p] =
                                       IF active[obj[o].callback] = p
                                       THEN StopObject(IF p = o THEN Unref(a) ELSE obj[p])
                                       ELSE IF p = o THEN Unref(a) ELSE obj[p]
      BY <1>1, <2>2 DEF StoppedObjects
    <3>6. DOMAIN stopped = Object /\ DOMAIN StoppedObjects(returned, S) = Object
            /\ StoppedObjects(returned, S) = [p \in Object |-> StoppedObjects(returned, S)[p]]
      BY DEF StoppedObjects
    <3> HIDE DEF stopped, returned
    <3>7. released = [p \in Object |-> IF p = o THEN Unref(stopped[o]) ELSE stopped[p]]
      BY <3>6 DEF With
    <3>8. ASSUME NEW p \in Object
          PROVE  (IF p = o THEN Unref(stopped[o]) ELSE stopped[p])
                    = StoppedObjects(returned, S)[p]
      BY <2>1, <3>2, <3>3, <3>4, <3>5
    <3> QED BY <3>6, <3>7, <3>8
  <2>5. Consistent(callbacks \ S, w, StoppedActive(S), released)
    BY <1>6, <2>4, StopKeeps
  <2>6. OneActive(StoppedActive(S))
    BY <1>1 DEF OneActive, StoppedActive, Consistent
  <2> HIDE DEF released, S
  <2>7. Yields(S, w, released)
    BY <1>8, <2>3, <2>5, <2>6 DEF Yields
  <2>8. obj[o].callback \in callbacks
    BY <2>2 DEF S
  <2>9. Yields({obj[o].callback}, w, StoppedObjects(Returned(o), {obj[o].callback}))
    BY <1>10, <2>2, <2>4, <2>7, Zenon
  <2> QED BY <1>1, <1>6, <1>10, <2>1, <2>2, <2>3, <2>8, <2>9, Zenon
<1>9. \/ obj' = returned /\ sent' = Nothing /\ UNCHANGED bookkeeping
      \/ /\ ~a.cancelled
         /\ callbacks' = callbacks \ S
         /\ \E w \in Removed(waiting, S) :
               PromptNextReady(w, StoppedActive(S), released, Nothing)
  <2>1. a.callback = obj[o].callback
    BY <1>3, <1>4
  <2> QED BY <2>1, Zenon DEF PromptReadyComplete, a
<1> QED BY <1>7, <1>8, <1>9

LEMMA ReadyCompleteCases ==
    ASSUME Records, NEW o \in Object, NEW ok \in BOOLEAN, PromptReadyComplete(o, ok)
    PROVE  \/ /\ UNCHANGED bookkeeping /\ sent' = Nothing
              /\ Consistent(callbacks, waiting, active, obj')
           \/ \E S \in SUBSET callbacks : \E w \in Removed(waiting, S) :
                 \E objs : Yields(S, w, objs)
<1>1. CASE UNCHANGED bookkeeping /\ sent' = Nothing /\ obj' = Returned(o)
  BY <1>1, ReadyCompleteDoes
<1>2. ASSUME obj[o].callback \in callbacks,
             NEW w \in Removed(waiting, {obj[o].callback}),
             NEW objs, Yields({obj[o].callback}, w, objs)
      PROVE  \E S \in SUBSET callbacks : \E v \in Removed(waiting, S) : \E n : Yields(S, v, n)
  BY <1>2, Zenon
<1>3. QED
  BY <1>1, <1>2, ReadyCompleteDoes

\* on_prompt_ready_complete keeps the invariant.
LEMMA ReadyCompleteKeeps ==
    ASSUME Records, NEW o \in Object, NEW ok \in BOOLEAN, PromptReadyComplete(o, ok)
    PROVE  IInv'
<1>1. /\ gone \subseteq Name /\ registered \in BOOLEAN
      /\ ~registered => callbacks = {}
      /\ OneActive(active) /\ UNCHANGED <<gone, registered>>
  BY DEF IInv, Records, PromptReadyComplete
<1>2. CASE /\ UNCHANGED bookkeeping /\ sent' = Nothing
           /\ Consistent(callbacks, waiting, active, obj')
  BY <1>1, <1>2, QuietMessages DEF IInv, Records, bookkeeping
<1>3. ASSUME NEW S \in SUBSET callbacks, NEW w \in Removed(waiting, S), NEW objs,
             Yields(S, w, objs)
      PROVE  IInv'
  <2>1. Consistent(callbacks', waiting', active', obj') /\ OneActive(active')
          /\ MessagesOK(active', sent')
    BY <1>3, QuietMessages, NextReadyKeeps DEF Yields
  <2> QED BY <1>1, <1>3, <2>1 DEF IInv, Records, Yields
<1> QED BY <1>2, <1>3, ReadyCompleteCases

\* on_prompt_confirm and on_prompt_password keep the invariant.
LEMMA CompleteKeeps ==
    ASSUME Records, NEW o \in Object, NEW r \in {"yes", "no"}, PromptComplete(o, r)
    PROVE  IInv'
<1> DEFINE a == obj[o]
           inTable == active[a.callback] = o
           b == [a EXCEPT !.op = "call"]
           d1 == [a EXCEPT !.op = "none"]
           d == [d1 EXCEPT !.connection_lost = TRUE]
           m == PromptReady(r, a.question, o)
<1>1. /\ gone \subseteq Name /\ registered \in BOOLEAN
      /\ ~registered => callbacks = {}
      /\ Consistent(callbacks, waiting, active, obj) /\ OneActive(active)
      /\ UNCHANGED <<gone, registered, callbacks, waiting, active>>
      /\ a # Free /\ a.op \in {"confirm", "password"}
  BY DEF IInv, Records, PromptComplete, IsLive, bookkeeping
<1>2. /\ ObjectOK(a, inTable) /\ a \in ActivePrompt /\ a.callback \in Callback
      /\ a.question \in Question \cup {NoQuestion}
      /\ active \in [Callback -> Object \cup {NoObject}]
      /\ obj \in [Object -> ActivePrompt \cup {Free}]
  BY <1>1 DEF Consistent, ObjectOK, ActivePrompt
<1>3. CASE /\ registered /\ obj' = [obj EXCEPT ![o] = b]
           /\ sent' = IF a.cancelled THEN Nothing ELSE Send(Nothing, a.callback, m)
  <2>1. b \in ActivePrompt /\ b.refs = a.refs /\ b.op = "call" /\ b.callback = a.callback
          /\ b.ready = a.ready /\ b.cancelled = a.cancelled
          /\ b.connection_lost = a.connection_lost
    BY <1>2 DEF ActivePrompt, Operation
  <2> HIDE DEF b
  <2>2. ObjectOK(b, inTable) /\ b # Free
    BY <1>1, <1>2, <2>1, FreeHasNoRefs DEF ObjectOK
  <2>3. Consistent(callbacks, waiting, active, obj')
    BY <1>1, <1>3, <2>1, <2>2, UpdateKeeps
  <2>4. MessagesOK(active, sent')
    <3>1. CASE a.cancelled
      BY <1>3, <3>1, QuietMessages
    <3>2. CASE ~a.cancelled
      <4>1. active[a.callback] = o /\ o # NoObject
        BY <1>2, <3>2, ObjectAssumption DEF ObjectOK
      <4>2. m \in Message /\ m.from = o
        <5>1. r \in Response
          BY DEF Response
        <5> QED BY <1>2, <5>1, MessageTypes
      <4> HIDE DEF m
      <4> QED BY <1>2, <1>3, <3>2, <4>1, <4>2, QuietMessages, SendKeeps
    <3> QED BY <3>1, <3>2
  <2> QED BY <1>1, <2>3, <2>4 DEF IInv, Records
<1>4. CASE /\ ~registered /\ obj' = [obj EXCEPT ![o] = d] /\ sent' = Nothing
  <2>1. ~inTable
    BY <1>1, <1>2, <1>4, ObjectAssumption DEF Consistent
  <2>2. d1 \in ActivePrompt /\ d1.refs = a.refs /\ d1.op = "none" /\ d1.callback = a.callback
          /\ d1.cancelled = a.cancelled
    BY <1>2 DEF ActivePrompt, Operation
  <2> HIDE DEF d1
  <2>3. d \in ActivePrompt /\ d.refs = a.refs /\ d.op = "none" /\ d.callback = a.callback
          /\ d.cancelled = a.cancelled /\ d.connection_lost = TRUE
    BY <2>2 DEF ActivePrompt
  <2> HIDE DEF d
  <2>4. ObjectOK(d, FALSE) /\ d # Free
    BY <1>1, <1>2, <2>1, <2>3, FreeHasNoRefs DEF ObjectOK
  <2>5. Consistent(callbacks, waiting, active, obj')
    BY <1>1, <1>4, <2>1, <2>3, <2>4, UpdateKeeps
  <2> QED BY <1>1, <1>4, <2>5, QuietMessages DEF IInv, Records
<1> QED BY <1>3, <1>4, Zenon DEF PromptComplete

-----------------------------------------------------------------------------
(* The theorems.                                                           *)

\* A new prompter satisfies the invariant.
LEMMA InitEstablishes == Init => IInv
<1> SUFFICES ASSUME Init PROVE IInv
  OBVIOUS
<1>1. waiting \in Seq(Callback) /\ Entries(waiting) = {} /\ Distinct(waiting)
  BY DEF Init, Entries, Distinct
<1>2. obj \in [Object -> ActivePrompt \cup {Free}] /\ \A o \in Object : obj[o] = Free
  BY DEF Init
<1>3. active \in [Callback -> Object \cup {NoObject}]
        /\ \A c \in Callback : active[c] = NoObject
  BY DEF Init
<1>4. Consistent(callbacks, waiting, active, obj) /\ OneActive(active)
  BY <1>1, <1>2, <1>3 DEF Init, Consistent, OneActive
<1> QED BY <1>4, QuietMessages DEF Init, IInv, Records

\* Every handler keeps the records, whatever was sent before, and sends what
\* fits them.
LEMMA HandlersKeep == Records /\ Next => IInv'
<1> SUFFICES ASSUME Records, Next PROVE IInv'
  OBVIOUS
<1>0. /\ gone \subseteq Name /\ registered \in BOOLEAN
      /\ ~registered => callbacks = {}
      /\ Consistent(callbacks, waiting, active, obj)
      /\ OneActive(active)
      /\ callbacks \subseteq Callback /\ waiting \in Seq(Callback)
  BY DEF IInv, Records, Consistent
<1>1. CASE Register
  BY <1>0, <1>1, QuietMessages DEF Register, IInv, Records, bookkeeping
<1>2. CASE Unregister
  <2>1. /\ StopAll(callbacks, SendDone(callbacks)) /\ UNCHANGED gone
        /\ callbacks' = {} /\ registered' = FALSE /\ sent' = SendDone(callbacks)
    BY <1>2 DEF Unregister, StopAll
  <2>2. Consistent(callbacks', waiting', active', obj') /\ OneActive(active')
    BY <1>0, <2>1, StopAllKeeps
  <2> QED BY <1>0, <2>1, <2>2, QuietMessages DEF IInv, Records
<1>3. ASSUME NEW c \in Callback, BeginPrompting(c) PROVE IInv'
  <2>1. CASE c \in callbacks /\ sent' = Send(Nothing, c, BeginReply(FALSE))
             /\ UNCHANGED <<bookkeeping, obj>>
    BY <1>0, <1>3, <2>1, MessageTypes, QuietMessages, SendKeeps
       DEF BeginPrompting, IInv, Records, bookkeeping
  <2>2. CASE /\ c \notin callbacks
             /\ callbacks' = callbacks \cup {c}
             /\ PromptNextReady(Pushed(waiting, c), active, obj,
                                Send(Nothing, c, BeginReply(TRUE)))
    <3>1. Consistent(callbacks \cup {c}, Pushed(waiting, c), active, obj)
      BY <1>0, <2>2, PushKeeps
    <3>2. MessagesOK(active, Send(Nothing, c, BeginReply(TRUE)))
      BY MessageTypes, QuietMessages, SendKeeps
    <3>3. Consistent(callbacks', waiting', active', obj') /\ OneActive(active')
            /\ MessagesOK(active', sent')
      BY <1>0, <2>2, <3>1, <3>2, NextReadyKeeps
    <3> QED BY <1>0, <1>3, <3>3 DEF IInv, Records, BeginPrompting
  <2> QED BY <1>3, <2>1, <2>2 DEF BeginPrompting
<1>4. ASSUME NEW c \in Callback, NEW type \in {"confirm", "password", "invalid"},
             NEW q \in Question, NEW valid \in BOOLEAN, PerformPrompt(c, type, q, valid)
      PROVE  IInv'
  BY <1>4, PerformKeeps
<1>5. ASSUME NEW c \in Callback, StopPrompting(c) PROVE IInv'
  <2> DEFINE S == {c} \cap callbacks
  <2>1. PICK w \in Removed(waiting, S) :
            PromptNextReady(w, StoppedActive(S), StoppedObjects(obj, S),
                            Send(SendDone(S), c, StopReply))
    BY <1>5 DEF StopPrompting
  <2>2. Consistent(callbacks \ S, w, StoppedActive(S), StoppedObjects(obj, S))
    BY <1>0, StopKeeps
  <2>3. OneActive(StoppedActive(S))
    BY <1>0 DEF OneActive, StoppedActive, Consistent
  <2>4. MessagesOK(StoppedActive(S), Send(SendDone(S), c, StopReply))
    BY MessageTypes, QuietMessages, SendKeeps
  <2>5. callbacks' = callbacks \ S /\ UNCHANGED <<gone, registered>> /\ registered
    BY <1>5 DEF StopPrompting
  <2>6. Consistent(callbacks', waiting', active', obj') /\ OneActive(active')
          /\ MessagesOK(active', sent')
    BY <2>1, <2>2, <2>3, <2>4, <2>5, NextReadyKeeps
  <2> QED BY <1>0, <2>5, <2>6 DEF IInv, Records
<1>6. ASSUME NEW n \in Vanishing, CallerVanished(n) PROVE IInv'
  <2> DEFINE S == {c \in callbacks : NameOf[c] = n}
  <2>1. /\ StopAll(S, Nothing) /\ registered /\ UNCHANGED registered
        /\ gone' = gone \cup {n} /\ n \in Name /\ sent' = Nothing
    BY <1>6, EnvironmentAssumption DEF CallerVanished, StopAll
  <2>2. Consistent(callbacks', waiting', active', obj') /\ OneActive(active')
    BY <1>0, <2>1, StopAllKeeps
  <2> QED BY <1>0, <2>1, <2>2, QuietMessages DEF IInv, Records
<1>7. ASSUME NEW c \in Callback, PromptClosed(c) PROVE IInv'
  <2> DEFINE S == {c} \cap callbacks
  <2>1. /\ StopAll(S, SendDone(S)) /\ UNCHANGED <<gone, registered>>
        /\ sent' = SendDone(S) /\ callbacks' = callbacks \ S
    BY <1>7 DEF PromptClosed, StopAll
  <2>2. Consistent(callbacks', waiting', active', obj') /\ OneActive(active')
    BY <1>0, <2>1, StopAllKeeps
  <2> QED BY <1>0, <2>1, <2>2, QuietMessages DEF IInv, Records
<1>8. ASSUME NEW o \in Object, NEW ok \in BOOLEAN, PromptReadyComplete(o, ok)
      PROVE  IInv'
  BY <1>8, ReadyCompleteKeeps
<1>9. ASSUME NEW o \in Object, NEW r \in {"yes", "no"}, PromptComplete(o, r)
      PROVE  IInv'
  BY <1>9, CompleteKeeps
<1> QED BY <1>1, <1>2, <1>3, <1>4, <1>5, <1>6, <1>7, <1>8, <1>9, Zenon
        DEF Next, MethodCall

LEMMA StepKeeps == IInv /\ [Next]_vars => IInv'
<1>1. IInv /\ Next => IInv'
  BY HandlersKeep DEF IInv
<1>2. IInv /\ UNCHANGED vars => IInv'
  BY DEF vars, IInv, Records
<1> QED BY <1>1, <1>2

\* The inductive invariant implies each property the runs check.
LEMMA IInvImplies ==
    IInv => /\ TypeOK /\ Bookkeeping /\ RefsMatchHolders
            /\ ReadyDiscipline /\ SingleMode /\ NoAnswerAfterStop
<1> SUFFICES ASSUME IInv
             PROVE  /\ TypeOK /\ Bookkeeping /\ RefsMatchHolders
                    /\ ReadyDiscipline /\ SingleMode /\ NoAnswerAfterStop
  OBVIOUS
<1>1. TypeOK
  BY DEF IInv, Records, Consistent, MessagesOK, TypeOK
<1>2. Bookkeeping
  <2>1. \A i \in DOMAIN waiting : waiting[i] \in Entries(waiting)
    BY DEF Entries
  <2> QED BY <2>1 DEF IInv, Records, Consistent, Bookkeeping, Distinct, IsLive
<1>3. RefsMatchHolders
  BY DEF IInv, Records, Consistent, ObjectOK, RefsMatchHolders, IsLive
<1>4. ReadyDiscipline
  BY DEF IInv, Records, Consistent, ObjectOK, ReadyDiscipline, IsLive
<1>5. SingleMode
  BY DEF IInv, Records, OneActive, SingleMode
<1>6. NoAnswerAfterStop
  BY DEF IInv, Records, MessagesOK, NoAnswerAfterStop
<1> QED BY <1>1, <1>2, <1>3, <1>4, <1>5, <1>6

\* The invariant always holds.
LEMMA Invariance == Spec => []IInv
  BY InitEstablishes, StepKeeps, PTL DEF Spec

\* The state of the prompter is always well typed.
THEOREM TypeCorrect == Spec => []TypeOK
  BY Invariance, IInvImplies, PTL

\* The three tables of gcr-system-prompter.c always agree, so none of the
\* assertions in unregister and prompt_next_ready can fail.
THEOREM TablesAgree == Spec => []Bookkeeping
  BY Invariance, IInvImplies, PTL

\* No ActivePrompt is freed while something refers to it, and none outlives
\* its last holder.
THEOREM ReferencesExact == Spec => []RefsMatchHolders
  BY Invariance, IInvImplies, PTL

\* The active->ready assertions of the four completion handlers hold.
THEOREM ReadyExact == Spec => []ReadyDiscipline
  BY Invariance, IInvImplies, PTL

\* Together: no assertion of gcr-system-prompter.c about its tables, references
\* and flags can fail.
THEOREM RecordsStaySound == Spec => []RecordsSound
  BY TypeCorrect, TablesAgree, ReferencesExact, ReadyExact, PTL DEF RecordsSound

\* In single mode at most one prompt is shown.
THEOREM OneAtATime == Spec => []SingleMode
  BY Invariance, IInvImplies, PTL

\* A stopped prompt never answers.
THEOREM StoppedIsSilent == Spec => []NoAnswerAfterStop
  BY Invariance, IInvImplies, PTL

-----------------------------------------------------------------------------
(* The prompter implements PromptQueue.                                    *)

Shown(act) == {c \in Callback : act[c] # NoObject}

\* prompt_next_ready leaves the queue alone or shows its head.
LEMMA NextReadySettles ==
    ASSUME NEW cbs, NEW w, NEW act, NEW objs, NEW msgs,
           Consistent(cbs, w, act, objs), PromptNextReady(w, act, objs, msgs)
    PROVE  Queue!Settle(w, Shown(act))
<1>1. w \in Seq(Callback) /\ act \in [Callback -> Object \cup {NoObject}]
  BY DEF Consistent
<1>2. CASE waiting' = w /\ active' = act
  BY <1>2 DEF Queue!Settle, Shown
<1>3. CASE /\ w # <<>> /\ MayShow(act) /\ waiting' = Tail(w)
           /\ \E o \in Object : active' = With(act, Head(w), o)
  <2>1. PICK o \in Object : active' = With(act, Head(w), o)
    BY <1>3
  <2>2. Head(w) \in Callback
    BY <1>1, <1>3, TailEntries
  <2>3. \A c \in Callback : active'[c] = IF c = Head(w) THEN o ELSE act[c]
    BY <1>1, <2>1 DEF With
  <2>4. Shown(active') = Shown(act) \cup {Head(w)}
    BY <2>2, <2>3, ObjectAssumption DEF Shown
  <2>5. Mode = "single" => Shown(act) = {}
    BY <1>3 DEF MayShow, Shown
  <2> QED BY <1>3, <2>4, <2>5 DEF Queue!Settle, Shown
<1> QED BY <1>2, <1>3 DEF PromptNextReady

\* Stopping S takes S out of the set of shown callbacks.
LEMMA StoppedShown ==
    ASSUME NEW S PROVE Shown(StoppedActive(S)) = Shown(active) \ S
  BY DEF Shown, StoppedActive

\* prompt_stop_prompting for S alone is a departure.
LEMMA StopAllLeaves ==
    ASSUME NEW S \in SUBSET Callback, NEW msgs, StopAll(S, msgs)
    PROVE  Queue!Next
<1>1. waiting' \in Removed(waiting, S) /\ active' = StoppedActive(S)
  BY DEF StopAll
<1>2. Queue!Settle(waiting', Shown(active) \ S)
  BY <1>1, StoppedShown DEF Queue!Settle, Shown
<1>3. Queue!Leave(S)
  BY <1>1, <1>2 DEF Queue!Leave, Queue!Removed, Removed, Shown
<1> QED BY <1>3 DEF Queue!Next

\* Stopping S and giving the place away is a departure as well.
LEMMA StopAndNextLeaves ==
    ASSUME NEW S \in SUBSET Callback, NEW w \in Removed(waiting, S),
           NEW cbs, NEW objs, NEW msgs, Consistent(cbs, w, StoppedActive(S), objs),
           PromptNextReady(w, StoppedActive(S), objs, msgs)
    PROVE  Queue!Next
<1>1. Queue!Settle(w, Shown(active) \ S)
  BY NextReadySettles, StoppedShown DEF Queue!Settle
<1>2. Queue!Leave(S)
  BY <1>1 DEF Queue!Leave, Queue!Removed, Removed, Shown
<1> QED BY <1>2 DEF Queue!Next

\* The steps that can change the tables.
LEMMA StepCases ==
    ASSUME [Next]_vars
    PROVE  \/ UNCHANGED bookkeeping
           \/ Unregister
           \/ \E c \in Callback : BeginPrompting(c) /\ c \notin callbacks
           \/ \E c \in Callback : StopPrompting(c)
           \/ \E n \in Vanishing : CallerVanished(n)
           \/ Dismissable /\ \E c \in Callback : PromptClosed(c)
           \/ \E o \in Object, ok \in BOOLEAN : PromptReadyComplete(o, ok)
<1>1. CASE UNCHANGED vars
  BY <1>1 DEF vars, bookkeeping
<1>2. CASE Register
  BY <1>2 DEF Register
<1>3. ASSUME NEW c \in Callback, BeginPrompting(c), c \in callbacks
      PROVE  UNCHANGED bookkeeping
  BY <1>3, Zenon DEF BeginPrompting
<1>4. ASSUME NEW c \in Callback, NEW type, NEW q, NEW valid, PerformPrompt(c, type, q, valid)
      PROVE  UNCHANGED bookkeeping
  BY <1>4, Zenon DEF PerformPrompt
<1>5. ASSUME NEW o \in Object, NEW r, PromptComplete(o, r)
      PROVE  UNCHANGED bookkeeping
  BY <1>5, Zenon DEF PromptComplete
<1> QED BY <1>1, <1>2, <1>3, <1>4, <1>5, Zenon DEF Next, MethodCall

\* Every handler is a step of the queue or leaves it alone.
LEMMA StepRefines == IInv /\ [Next]_vars => [Queue!Next]_(Queue!vars)
<1> SUFFICES ASSUME IInv, [Next]_vars PROVE Queue!Next \/ UNCHANGED Queue!vars
  OBVIOUS
<1>0. /\ Consistent(callbacks, waiting, active, obj)
      /\ callbacks \subseteq Callback /\ waiting \in Seq(Callback)
      /\ callbacks = Entries(waiting) \cup Shown(active)
  BY DEF IInv, Records, Consistent, Shown
<1>1. CASE UNCHANGED bookkeeping
  BY <1>1 DEF bookkeeping, Queue!vars
<1>2. CASE Unregister
  BY <1>0, <1>2, StopAllLeaves DEF Unregister
<1>3. ASSUME NEW c \in Callback, BeginPrompting(c), c \notin callbacks PROVE Queue!Next
  <2>1. PromptNextReady(Pushed(waiting, c), active, obj,
                        Send(Nothing, c, BeginReply(TRUE)))
    BY <1>3 DEF BeginPrompting
  <2>2. Consistent(callbacks \cup {c}, Pushed(waiting, c), active, obj)
    BY <1>0, <1>3, PushKeeps
  <2>3. Queue!Settle(Append(waiting, c), Shown(active))
    BY <2>1, <2>2, NextReadySettles DEF Pushed, Queue!Settle
  <2>4. c \notin Entries(waiting) \cup Shown(active)
    BY <1>0, <1>3
  <2>5. Queue!Arrive(c)
    BY <2>3, <2>4 DEF Queue!Arrive, Queue!Entries, Entries, Shown
  <2> QED BY <2>5 DEF Queue!Next
<1>4. ASSUME NEW c \in Callback, StopPrompting(c) PROVE Queue!Next
  <2> DEFINE S == {c} \cap callbacks
  <2>1. PICK w \in Removed(waiting, S) :
            PromptNextReady(w, StoppedActive(S), StoppedObjects(obj, S),
                            Send(SendDone(S), c, StopReply))
    BY <1>4 DEF StopPrompting
  <2>2. Consistent(callbacks \ S, w, StoppedActive(S), StoppedObjects(obj, S))
    BY <1>0, StopKeeps
  <2> QED BY <2>1, <2>2, StopAndNextLeaves
<1>5. ASSUME NEW n \in Vanishing, CallerVanished(n) PROVE Queue!Next
  BY <1>0, <1>5, StopAllLeaves DEF CallerVanished
<1>6. ASSUME NEW c \in Callback, PromptClosed(c) PROVE Queue!Next
  BY <1>0, <1>6, StopAllLeaves DEF PromptClosed
<1>7. ASSUME NEW o \in Object, NEW ok \in BOOLEAN, PromptReadyComplete(o, ok),
             ~UNCHANGED bookkeeping
      PROVE  Queue!Next
  <2>1. PICK S \in SUBSET callbacks : \E w \in Removed(waiting, S) :
            \E objs : Yields(S, w, objs)
    BY <1>7, ReadyCompleteCases DEF IInv
  <2>2. PICK w \in Removed(waiting, S) : \E objs : Yields(S, w, objs)
    BY <2>1
  <2>3. PICK objs : Yields(S, w, objs)
    BY <2>2
  <2>4. S \in SUBSET Callback
    BY <1>0
  <2> QED BY <2>3, <2>4, StopAndNextLeaves, Zenon DEF Yields
<1> QED BY <1>1, <1>2, <1>3, <1>4, <1>5, <1>6, <1>7, StepCases, Zenon

\* The prompter is a first-come first-served queue for the screen.
THEOREM Refinement == Spec => ImplementsQueue
<1>1. Init => Queue!Init
  BY DEF Init, Queue!Init
<1> QED BY <1>1, Invariance, StepRefines, PTL DEF Spec, ImplementsQueue, Queue!Spec

\* A step of the queue shows nobody past someone still queued.
LEMMA StepServesInOrder ==
    ASSUME IInv, Queue!Next,
           NEW i \in DOMAIN waiting, NEW j \in DOMAIN waiting, i < j,
           waiting[j] \in Shown(active')
    PROVE  waiting[i] \notin Entries(waiting')
<1>1. /\ waiting \in Seq(Callback) /\ Distinct(waiting)
      /\ \A c \in Entries(waiting) : active[c] = NoObject
  BY DEF IInv, Records, Consistent
<1>2. waiting[j] \notin Shown(active)
  BY <1>1 DEF Shown, Entries
<1>3. ASSUME NEW c \in Callback, Queue!Arrive(c)
      PROVE  waiting[i] \notin Entries(waiting')
  <2> DEFINE p == Append(waiting, c)
  <2>1. p \in Seq(Callback) /\ p # <<>> /\ Head(p) = p[1] /\ p[1] = waiting[1]
          /\ 1 \in DOMAIN waiting /\ i \in Int /\ j \in Int /\ i >= 1
    BY <1>1
  <2> HIDE DEF p
  <2>2. \/ Shown(active') = Shown(active)
        \/ Shown(active') = Shown(active) \cup {Head(p)}
    BY <1>3 DEF Queue!Arrive, Queue!Settle, Shown, p
  <2>3. waiting[j] = waiting[1]
    BY <1>2, <2>1, <2>2
  <2> QED BY <1>1, <2>1, <2>3 DEF Distinct
<1>4. ASSUME NEW S \in SUBSET Callback, Queue!Leave(S)
      PROVE  waiting[i] \notin Entries(waiting')
  <2>1. PICK r \in Removed(waiting, S) : Queue!Settle(r, Shown(active) \ S)
    BY <1>4 DEF Queue!Leave, Queue!Removed, Removed, Shown
  <2>2. /\ r # <<>> /\ waiting' = Tail(r)
        /\ Shown(active') = (Shown(active) \ S) \cup {Head(r)}
    BY <1>2, <2>1 DEF Queue!Settle, Shown
  <2>3. waiting[j] = Head(r)
    BY <1>2, <2>2
  <2>4. waiting[i] \notin Entries(r)
    BY <1>1, <2>2, <2>3, RemovedOrder
  <2>5. r \in Seq(Callback)
    BY <1>1, RemovedEntries
  <2>6. Entries(r) = Entries(Tail(r)) \cup {Head(r)}
    BY <2>2, <2>5, TailEntries
  <2> QED BY <2>2, <2>4, <2>6
<1> QED BY <1>3, <1>4 DEF Queue!Next

\* Callbacks are shown in the order in which they began.
THEOREM ServedInOrder == Spec => FirstComeFirstServed
<1> DEFINE A == \A i, j \in DOMAIN waiting :
                   i < j /\ waiting[j] \in Shown(active') => waiting[i] \notin Entries(waiting')
<1>1. IInv /\ [Next]_vars => [A]_(Queue!vars)
  <2> SUFFICES ASSUME IInv, [Next]_vars, ~UNCHANGED Queue!vars PROVE A
    OBVIOUS
  <2>1. Queue!Next
    BY StepRefines
  <2> QED BY <2>1, StepServesInOrder
<1>2. A => \A i, j \in DOMAIN waiting :
              i < j /\ waiting[j] \in {c \in Callback : active[c] # NoObject}'
                  => waiting[i] \notin Queue!Entries(waiting')
  BY DEF Shown, Entries, Queue!Entries
<1>3. IInv /\ [Next]_vars => [\A i, j \in DOMAIN waiting :
              i < j /\ waiting[j] \in {c \in Callback : active[c] # NoObject}'
                  => waiting[i] \notin Queue!Entries(waiting')]_(Queue!vars)
  BY <1>1, <1>2
<1> QED BY <1>3, Invariance, PTL DEF Spec, FirstComeFirstServed, Queue!FirstComeFirstServed

-----------------------------------------------------------------------------
(* No lost wake-up among callers that stay.                                *)

\* After prompt_next_ready a single prompter is busy or has nobody waiting.
LEMMA NextReadyBusy ==
    ASSUME NEW cbs, NEW w, NEW act, NEW objs, NEW msgs,
           Consistent(cbs, w, act, objs), PromptNextReady(w, act, objs, msgs)
    PROVE  NoIdlePrompter'
<1>1. w \in Seq(Callback) /\ act \in [Callback -> Object \cup {NoObject}]
  BY DEF Consistent
<1>2. CASE w = <<>> /\ waiting' = w
  BY <1>2 DEF NoIdlePrompter
<1>3. CASE ~MayShow(act) /\ active' = act
  BY <1>3 DEF MayShow, NoIdlePrompter
<1>4. CASE w # <<>> /\ \E o \in Object : active' = With(act, Head(w), o)
  <2>1. PICK o \in Object : active' = With(act, Head(w), o)
    BY <1>4
  <2>2. Head(w) \in Callback
    BY <1>1, <1>4, TailEntries
  <2>3. active'[Head(w)] = o
    BY <1>1, <2>1, <2>2 DEF With
  <2> QED BY <2>2, <2>3, ObjectAssumption DEF NoIdlePrompter
<1> QED BY <1>2, <1>3, <1>4 DEF PromptNextReady

\* The handlers on_caller_vanished and on_prompt_close.
Loss == (\E n \in Name : CallerVanished(n)) \/ (\E c \in Callback : PromptClosed(c))

\* A single prompter becomes idle while a callback waits only by the loss of
\* a caller or of a dialog: every other handler that frees the place calls
\* prompt_next_ready.
THEOREM NextIsServed == Spec => HandlersWakeNext
<1>2. IInv /\ [Next]_vars => [NoIdlePrompter => NoIdlePrompter' \/ Loss]_vars
  <2> SUFFICES ASSUME IInv, NoIdlePrompter, [Next]_vars, ~Loss PROVE NoIdlePrompter'
    OBVIOUS
  <2>0. /\ Consistent(callbacks, waiting, active, obj)
        /\ callbacks \subseteq Callback /\ waiting \in Seq(Callback)
        /\ Entries(waiting) \subseteq callbacks
    BY DEF IInv, Records, Consistent
  <2>1. CASE UNCHANGED bookkeeping
    BY <2>1 DEF bookkeeping, NoIdlePrompter
  <2>2. CASE Unregister
    <3>1. waiting' \in Removed(waiting, callbacks)
      BY <2>2 DEF Unregister, StopAll
    <3>2. waiting' \in Seq(Callback) /\ Entries(waiting') = {}
      BY <2>0, <3>1, RemovedEntries
    <3>3. waiting' = <<>>
      BY <3>2, TailEntries
    <3> QED BY <3>3 DEF NoIdlePrompter
  <2>3. ASSUME NEW c \in Callback, BeginPrompting(c), c \notin callbacks
        PROVE  NoIdlePrompter'
    <3>1. PromptNextReady(Pushed(waiting, c), active, obj,
                          Send(Nothing, c, BeginReply(TRUE)))
      BY <2>3 DEF BeginPrompting
    <3>2. Consistent(callbacks \cup {c}, Pushed(waiting, c), active, obj)
      BY <2>0, <2>3, PushKeeps
    <3> QED BY <3>1, <3>2, NextReadyBusy
  <2>4. ASSUME NEW c \in Callback, StopPrompting(c) PROVE NoIdlePrompter'
    <3> DEFINE S == {c} \cap callbacks
    <3>1. PICK w \in Removed(waiting, S) :
              PromptNextReady(w, StoppedActive(S), StoppedObjects(obj, S),
                              Send(SendDone(S), c, StopReply))
      BY <2>4 DEF StopPrompting
    <3>2. Consistent(callbacks \ S, w, StoppedActive(S), StoppedObjects(obj, S))
      BY <2>0, StopKeeps
    <3> QED BY <3>1, <3>2, NextReadyBusy
  <2>5. ASSUME NEW o \in Object, NEW ok \in BOOLEAN, PromptReadyComplete(o, ok),
               ~UNCHANGED bookkeeping
        PROVE  NoIdlePrompter'
    <3>1. PICK S \in SUBSET callbacks : \E w \in Removed(waiting, S) :
              \E objs : Yields(S, w, objs)
      BY <2>5, ReadyCompleteCases DEF IInv
    <3>2. PICK w \in Removed(waiting, S) : \E objs : Yields(S, w, objs)
      BY <3>1
    <3>3. PICK objs : Yields(S, w, objs)
      BY <3>2
    <3> QED BY <3>3, NextReadyBusy DEF Yields
  <2>6. /\ \A n \in Vanishing : ~CallerVanished(n)
        /\ \A c \in Callback : ~PromptClosed(c)
    BY EnvironmentAssumption DEF Loss
  <2> QED BY <2>1, <2>2, <2>3, <2>4, <2>5, <2>6, StepCases, Zenon
<1>3. [NoIdlePrompter => NoIdlePrompter' \/ Loss]_vars
      <=> [NoIdlePrompter => \/ NoIdlePrompter'
                             \/ \E n \in Name : CallerVanished(n)
                             \/ \E c \in Callback : PromptClosed(c)]_vars
  BY Zenon DEF Loss
<1> QED BY <1>2, <1>3, Invariance, PTL DEF Spec, HandlersWakeNext

-----------------------------------------------------------------------------
(* What a handler means for one callback: whether it waits for the screen,  *)
(* whether the user is asked its question, and what is sent to it.          *)

Queued(w, c) == c \in Entries(w)
Asking(act, objs, c) == act[c] # NoObject /\ objs[act[c]].op \in {"confirm", "password"}
About(act, objs, c) == objs[act[c]].question

\* The tables (w2, act2, objs2) hold of c what (w, act, objs) do.
AsBefore(w, act, objs, w2, act2, objs2, c) ==
    /\ Queued(w2, c) <=> Queued(w, c)
    /\ Asking(act2, objs2, c) <=> Asking(act, objs, c)
    /\ Asking(act, objs, c) => About(act2, objs2, c) = About(act, objs, c)

\* They hold no more of c.
Dropped(w, act, objs, w2, act2, objs2, c) ==
    /\ Queued(w2, c) => Queued(w, c)
    /\ ~Asking(act2, objs2, c)

\* It is the turn of c, which is sent its first PromptReady.
Invited(w, act, objs, w2, act2, objs2, c) ==
    /\ Queued(w, c) /\ ~Asking(act, objs, c)
    /\ ~Queued(w2, c) /\ ~Asking(act2, objs2, c)

Invitation(o) == PromptReady("none", NoQuestion, o)

LEMMA AsBeforeTrans ==
    ASSUME NEW w, NEW act, NEW objs, NEW w2, NEW act2, NEW objs2, NEW w3, NEW act3,
           NEW objs3, NEW c, AsBefore(w, act, objs, w2, act2, objs2, c)
    PROVE  /\ AsBefore(w2, act2, objs2, w3, act3, objs3, c) =>
                 AsBefore(w, act, objs, w3, act3, objs3, c)
           /\ Invited(w2, act2, objs2, w3, act3, objs3, c) =>
                 Invited(w, act, objs, w3, act3, objs3, c)
BY DEF AsBefore, Invited

\* prompt_next_ready invites one callback, and leaves the others.
LEMMA NextReadyFor ==
    ASSUME NEW cbs, NEW w, NEW act, NEW objs, NEW msgs, DOMAIN msgs = Callback,
           Consistent(cbs, w, act, objs), PromptNextReady(w, act, objs, msgs),
           NEW d \in Callback
    PROVE  \/ /\ sent'[d] = msgs[d]
              /\ AsBefore(w, act, objs, waiting', active', obj', d)
           \/ /\ Invited(w, act, objs, waiting', active', obj', d)
              /\ \E o : sent'[d] = Append(msgs[d], Invitation(o))
<1>1. CASE waiting' = w /\ active' = act /\ obj' = objs /\ sent' = msgs
  BY <1>1 DEF AsBefore
<1>2. CASE /\ w # <<>>
           /\ \E o \in Object :
                /\ ~IsLive(objs, o)
                /\ active' = With(act, Head(w), o)
                /\ obj' = With(objs, o, NewActivePrompt(Head(w)))
                /\ sent' = Send(msgs, Head(w), PromptReady("none", NoQuestion, o))
           /\ waiting' = Tail(w)
  <2>1. PICK o \in Object :
            /\ objs[o] = Free
            /\ active' = With(act, Head(w), o)
            /\ obj' = With(objs, o, NewActivePrompt(Head(w)))
            /\ sent' = Send(msgs, Head(w), Invitation(o))
    BY <1>2 DEF IsLive, Invitation
  <2> DEFINE h == Head(w)
  <2>2. /\ w \in Seq(Callback) /\ Distinct(w)
        /\ act \in [Callback -> Object \cup {NoObject}]
        /\ DOMAIN objs = Object
        /\ \A c \in Entries(w) : act[c] = NoObject
        /\ \A c \in Callback : act[c] # NoObject => objs[act[c]] # Free
    BY DEF Consistent
  <2>3. /\ h \in Entries(w) /\ h \in Callback
        /\ Entries(w) = Entries(waiting') \cup {h}
        /\ h \notin Entries(waiting')
    BY <1>2, <2>2, TailEntries
  <2>4. NewActivePrompt(h).op = "call"
    BY DEF NewActivePrompt
  <2> HIDE DEF h
  <2>5. \A c \in Callback : active'[c] = IF c = h THEN o ELSE act[c]
    BY <2>1, <2>2 DEF With, h
  <2>6. \A p \in Object : obj'[p] = IF p = o THEN NewActivePrompt(h) ELSE objs[p]
    BY <2>1, <2>2 DEF With, h
  <2>7. \A c \in Callback : sent'[c] = IF c = h THEN Append(msgs[h], Invitation(o)) ELSE msgs[c]
    BY <2>1, <2>3 DEF Send, With, h
  <2>8. CASE d = h
    <3>1. Queued(w, d) /\ ~Queued(waiting', d) /\ ~Asking(act, objs, d)
      BY <2>2, <2>3, <2>8 DEF Queued, Asking
    <3>2. active'[d] = o /\ obj'[o].op = "call"
      BY <2>4, <2>5, <2>6, <2>8
    <3>3. ~Asking(active', obj', d)
      BY <3>2 DEF Asking
    <3>4. QED
      BY <2>7, <2>8, <3>1, <3>3 DEF Invited
  <2>9. CASE d # h
    <3>1. Queued(waiting', d) <=> Queued(w, d)
      BY <2>3, <2>9 DEF Queued
    <3>2. active'[d] = act[d]
      BY <2>5, <2>9
    <3>3. act[d] # NoObject => obj'[act[d]] = objs[act[d]]
      BY <2>1, <2>2, <2>6
    <3>4. QED
      BY <2>7, <2>9, <3>1, <3>2, <3>3 DEF AsBefore, Asking, About
  <2>10. QED
    BY <2>8, <2>9
<1>3. QED
  BY <1>1, <1>2 DEF PromptNextReady

\* prompt_stop_prompting for every callback in S is nothing to the others.
LEMMA StoppedFor ==
    ASSUME NEW w, NEW objs, Consistent(callbacks, w, active, objs),
           NEW S \in SUBSET callbacks, NEW r \in Removed(w, S), NEW d \in Callback
    PROVE  LET act2 == StoppedActive(S)
               objs2 == StoppedObjects(objs, S)
           IN  /\ d \in S => ~Queued(r, d) /\ ~Asking(act2, objs2, d)
               /\ d \notin S => AsBefore(w, active, objs, r, act2, objs2, d)
<1> DEFINE act2 == StoppedActive(S)
           objs2 == StoppedObjects(objs, S)
<1>1. /\ w \in Seq(Callback) /\ callbacks \subseteq Callback
      /\ active \in [Callback -> Object \cup {NoObject}]
      /\ \A c \in Callback : active[c] # NoObject => objs[active[c]].callback = c
  BY DEF Consistent
<1>2. Entries(r) = Entries(w) \ S
  BY <1>1, RemovedEntries
<1>3. act2[d] = IF d \in S THEN NoObject ELSE active[d]
  BY DEF StoppedActive
<1>4. ASSUME d \notin S, active[d] # NoObject PROVE objs2[active[d]] = objs[active[d]]
  <2>1. active[d] \in Object /\ ~\E c \in S : active[c] = active[d]
    BY <1>1, <1>4
  <2>2. QED
    BY <2>1 DEF StoppedObjects
<1> HIDE DEF act2, objs2
<1>5. d \in S => ~Queued(r, d) /\ ~Asking(act2, objs2, d)
  BY <1>2, <1>3 DEF Queued, Asking
<1>6. d \notin S => AsBefore(w, active, objs, r, act2, objs2, d)
  BY <1>2, <1>3, <1>4 DEF AsBefore, Queued, Asking, About
<1>7. QED
  BY <1>5, <1>6 DEF act2, objs2

Kept(d) == AsBefore(waiting, active, obj, waiting', active', obj', d)
Lost(d) == Dropped(waiting, active, obj, waiting', active', obj', d)
Turn(d) == Invited(waiting, active, obj, waiting', active', obj', d)

\* A callback that is no party to a handler is left alone, or its turn comes.
Bystander(d) ==
    \/ sent'[d] = <<>> /\ Kept(d)
    \/ Turn(d) /\ \E o : sent'[d] = <<Invitation(o)>>

LEMMA Appended == \A b : Append(<<>>, b) = <<b>>
  OBVIOUS

\* One message to one callback.
LEMMA SentTo ==
    ASSUME NEW c, NEW m
    PROVE  /\ DOMAIN Send(Nothing, c, m) = Callback
           /\ \A d \in Callback : Send(Nothing, c, m)[d] = IF d = c THEN <<m>> ELSE <<>>
<1>1. ASSUME NEW d \in Callback PROVE Send(Nothing, c, m)[d] = IF d = c THEN <<m>> ELSE <<>>
  <2>1. Nothing[d] = <<>> /\ d \in DOMAIN Nothing
    BY DEF Nothing
  <2>2. Send(Nothing, c, m)[d] = IF d = c THEN Append(Nothing[c], m) ELSE Nothing[d]
    BY <2>1 DEF Send, With
  <2>3. QED
    BY <2>1, <2>2, Appended
<1>2. DOMAIN Send(Nothing, c, m) = Callback
  BY DEF Send, With, Nothing
<1>3. QED
  BY <1>1, <1>2

\* prompter_method_begin_prompting.
LEMMA BeginFor ==
    ASSUME Records, NEW c \in Callback, BeginPrompting(c), NEW d \in Callback
    PROVE  /\ d # c => Bystander(d)
           /\ d = c => \/ Kept(d) /\ sent'[d] = <<BeginReply(FALSE)>>
                       \/ /\ Asking(active', obj', d) => Asking(active, obj, d)
                          /\ sent'[d] = <<BeginReply(TRUE)>>
                       \/ /\ ~Queued(waiting', d) /\ ~Asking(active', obj', d)
                          /\ \E o : sent'[d] = Append(<<BeginReply(TRUE)>>, Invitation(o))
<1>1. CASE sent' = Send(Nothing, c, BeginReply(FALSE)) /\ UNCHANGED <<bookkeeping, obj>>
  <2>1. Kept(d)
    BY <1>1 DEF bookkeeping, Kept, AsBefore
  <2>2. sent'[d] = IF d = c THEN <<BeginReply(FALSE)>> ELSE <<>>
    BY <1>1, SentTo
  <2>3. QED
    BY <2>1, <2>2 DEF Bystander
<1>2. CASE /\ c \notin callbacks
           /\ callbacks' = callbacks \cup {c}
           /\ PromptNextReady(Pushed(waiting, c), active, obj,
                              Send(Nothing, c, BeginReply(TRUE)))
  <2> DEFINE w == Pushed(waiting, c)
             msgs == Send(Nothing, c, BeginReply(TRUE))
  <2>1. Consistent(callbacks \cup {c}, w, active, obj)
    BY <1>2, PushKeeps DEF Records
  <2>2. /\ DOMAIN msgs = Callback
        /\ \A e \in Callback : msgs[e] = IF e = c THEN <<BeginReply(TRUE)>> ELSE <<>>
    BY SentTo
  <2>3. Entries(w) = Entries(waiting) \cup {c}
    BY PushedEntries DEF Records, Consistent
  <2>4. PromptNextReady(w, active, obj, msgs)
    BY <1>2
  <2> HIDE DEF w, msgs
  <2>5. \/ /\ sent'[d] = msgs[d]
           /\ AsBefore(w, active, obj, waiting', active', obj', d)
        \/ /\ Invited(w, active, obj, waiting', active', obj', d)
           /\ \E o : sent'[d] = Append(msgs[d], Invitation(o))
    BY <2>1, <2>2, <2>4, NextReadyFor
  <2>6. CASE d # c
    <3>1. AsBefore(waiting, active, obj, w, active, obj, d)
      BY <2>3, <2>6 DEF AsBefore, Queued
    <3>2. msgs[d] = <<>>
      BY <2>2, <2>6
    <3>3. CASE sent'[d] = msgs[d] /\ AsBefore(w, active, obj, waiting', active', obj', d)
      <4>1. Kept(d)
        BY <3>1, <3>3, AsBeforeTrans DEF Kept
      <4>2. QED
        BY <2>6, <3>2, <3>3, <4>1 DEF Bystander
    <3>4. CASE /\ Invited(w, active, obj, waiting', active', obj', d)
               /\ \E o : sent'[d] = Append(msgs[d], Invitation(o))
      <4>1. PICK o : sent'[d] = Append(msgs[d], Invitation(o))
        BY <3>4
      <4>2. sent'[d] = <<Invitation(o)>>
        BY <3>2, <4>1
      <4>3. Turn(d)
        BY <3>1, <3>4, AsBeforeTrans DEF Turn
      <4>4. QED
        BY <2>6, <4>2, <4>3 DEF Bystander
    <3>5. QED
      BY <2>5, <2>6, <3>3, <3>4
  <2>7. CASE d = c
    <3>1. msgs[d] = <<BeginReply(TRUE)>>
      BY <2>2, <2>7
    <3>2. CASE sent'[d] = msgs[d] /\ AsBefore(w, active, obj, waiting', active', obj', d)
      BY <2>7, <3>1, <3>2 DEF AsBefore
    <3>3. CASE /\ Invited(w, active, obj, waiting', active', obj', d)
               /\ \E o : sent'[d] = Append(msgs[d], Invitation(o))
      <4>1. PICK o : sent'[d] = Append(msgs[d], Invitation(o))
        BY <3>3
      <4>2. sent'[d] = Append(<<BeginReply(TRUE)>>, Invitation(o))
        BY <3>1, <4>1
      <4>3. QED
        BY <2>7, <3>3, <4>2 DEF Invited
    <3>4. QED
      BY <2>5, <3>2, <3>3
  <2>8. QED
    BY <2>6, <2>7
<1>3. QED
  BY <1>1, <1>2 DEF BeginPrompting

\* prompter_method_perform_prompt.
LEMMA PerformFor ==
    ASSUME Records, NEW c \in Callback, NEW q, PerformPrompt(c, "confirm", q, TRUE),
           NEW d \in Callback
    PROVE  /\ d # c => Bystander(d)
           /\ d = c => \/ Kept(d) /\ sent'[d] = <<PerformReply(FALSE)>>
                       \/ /\ Queued(waiting', d) <=> Queued(waiting, d)
                          /\ Asking(active', obj', d) /\ About(active', obj', d) = q
                          /\ sent'[d] = <<PerformReply(TRUE)>>
<1> DEFINE o == active[c]
           b == [[obj[o] EXCEPT !.question = q] EXCEPT !.received = TRUE, !.ready = FALSE,
                                                      !.op = "confirm", !.refs = @ + 1]
<1>1. /\ waiting' = waiting /\ active' = active
      /\ \/ obj' = obj /\ sent' = Send(Nothing, c, PerformReply(FALSE))
         \/ /\ o # NoObject /\ obj' = [obj EXCEPT ![o] = b]
            /\ sent' = Send(Nothing, c, PerformReply(TRUE))
  BY DEF PerformPrompt, bookkeeping
<1>2. CASE obj' = obj /\ sent' = Send(Nothing, c, PerformReply(FALSE))
  <2>1. Kept(d)
    BY <1>1, <1>2 DEF Kept, AsBefore
  <2>2. sent'[d] = IF d = c THEN <<PerformReply(FALSE)>> ELSE <<>>
    BY <1>2, SentTo
  <2>3. QED
    BY <2>1, <2>2 DEF Bystander
<1>3. CASE /\ o # NoObject /\ obj' = [obj EXCEPT ![o] = b]
           /\ sent' = Send(Nothing, c, PerformReply(TRUE))
  <2>1. /\ active \in [Callback -> Object \cup {NoObject}] /\ DOMAIN obj = Object
        /\ \A e \in Callback : active[e] # NoObject =>
              obj[active[e]] \in ActivePrompt /\ obj[active[e]].callback = e
    BY FreeHasNoRefs DEF Records, Consistent, ObjectOK
  <2>2. sent'[d] = IF d = c THEN <<PerformReply(TRUE)>> ELSE <<>>
    BY <1>3, SentTo
  <2>3. CASE d # c
    <3>1. active[d] # NoObject => active[d] # o
      BY <1>3, <2>1, <2>3
    <3>2. active[d] # NoObject => obj'[active[d]] = obj[active[d]]
      BY <1>3, <2>1, <3>1
    <3>3. Kept(d)
      BY <1>1, <3>2 DEF Kept, AsBefore, Asking, About
    <3>4. QED
      BY <2>2, <2>3, <3>3 DEF Bystander
  <2>4. CASE d = c
    <3>1. b.op = "confirm" /\ b.question = q
      BY <1>3, <2>1 DEF ActivePrompt
    <3> HIDE DEF b
    <3>2. o \in Object /\ obj'[o] = b
      BY <1>3, <2>1
    <3>3. QED
      BY <1>1, <1>3, <2>2, <2>4, <3>1, <3>2 DEF Asking, About
  <2>5. QED
    BY <2>3, <2>4
<1>4. QED
  BY <1>1, <1>2, <1>3

\* prompter_method_stop_prompting.
LEMMA StopFor ==
    ASSUME Records, NEW c \in Callback, StopPrompting(c), NEW d \in Callback
    PROVE  /\ d # c => Bystander(d)
           /\ d = c => \/ Kept(d) /\ sent'[d] = <<StopReply>>
                       \/ Lost(d) /\ sent'[d] = Append(<<PromptDone>>, StopReply)
<1> DEFINE S == {c} \cap callbacks
           msgs == Send(SendDone(S), c, StopReply)
           act == StoppedActive(S)
           objs == StoppedObjects(obj, S)
<1>1. PICK w \in Removed(waiting, S) : PromptNextReady(w, act, objs, msgs)
  BY DEF StopPrompting
<1>2. Consistent(callbacks, waiting, active, obj) /\ S \in SUBSET callbacks
  BY DEF Records
<1>3. Consistent(callbacks \ S, w, act, objs)
  BY <1>2, StopKeeps
<1>4. /\ d \in S => ~Queued(w, d) /\ ~Asking(act, objs, d)
      /\ d \notin S => AsBefore(waiting, active, obj, w, act, objs, d)
  BY <1>2, StoppedFor
<1>5. /\ DOMAIN msgs = Callback
      /\ msgs[d] = IF d = c THEN IF d \in S THEN Append(<<PromptDone>>, StopReply)
                                            ELSE <<StopReply>>
                   ELSE <<>>
  <2>1. DOMAIN SendDone(S) = Callback
        /\ SendDone(S)[d] = IF d \in S THEN <<PromptDone>> ELSE <<>>
    BY DEF SendDone
  <2>2. DOMAIN msgs = Callback
        /\ msgs[d] = IF d = c THEN Append(SendDone(S)[d], StopReply) ELSE SendDone(S)[d]
    BY <2>1 DEF Send, With
  <2>3. d # c => d \notin S
    OBVIOUS
  <2> HIDE DEF S, msgs
  <2>4. QED
    BY <2>1, <2>2, <2>3, Appended
<1>6. d \in S <=> d = c /\ c \in callbacks
  OBVIOUS
<1>7. ~Queued(w, c)
  <2>1. c \in callbacks => c \in S
    OBVIOUS
  <2>2. c \notin callbacks => ~Queued(waiting, c) /\ c \notin S
    BY <1>2 DEF Consistent, Queued
  <2>3. CASE c \in callbacks
    BY <1>2, <2>1, <2>3, StoppedFor
  <2>4. CASE c \notin callbacks
    BY <1>2, <2>2, <2>4, StoppedFor DEF AsBefore
  <2>5. QED
    BY <2>3, <2>4
<1> HIDE DEF S, msgs, act, objs
<1>8. \/ /\ sent'[d] = msgs[d]
         /\ AsBefore(w, act, objs, waiting', active', obj', d)
      \/ /\ Invited(w, act, objs, waiting', active', obj', d)
         /\ \E o : sent'[d] = Append(msgs[d], Invitation(o))
  <2>1. DOMAIN msgs = Callback /\ PromptNextReady(w, act, objs, msgs)
    BY <1>1, <1>5
  <2> DEFINE cbs == callbacks \ S
  <2>2. Consistent(cbs, w, act, objs)
    BY <1>3
  <2> HIDE DEF cbs
  <2>3. QED
    BY <2>1, <2>2, NextReadyFor, SMTT(60)
<1>9. CASE d # c
  <2>1. AsBefore(waiting, active, obj, w, act, objs, d) /\ msgs[d] = <<>>
    BY <1>4, <1>5, <1>6, <1>9
  <2>2. CASE sent'[d] = msgs[d] /\ AsBefore(w, act, objs, waiting', active', obj', d)
    <3>1. Kept(d)
      BY <2>1, <2>2, AsBeforeTrans DEF Kept
    <3>2. QED
      BY <1>9, <2>1, <2>2, <3>1 DEF Bystander
  <2>3. CASE /\ Invited(w, act, objs, waiting', active', obj', d)
             /\ \E o : sent'[d] = Append(msgs[d], Invitation(o))
    <3>1. PICK o : sent'[d] = Append(msgs[d], Invitation(o))
      BY <2>3
    <3>2. sent'[d] = <<Invitation(o)>>
      BY <2>1, <3>1, Appended
    <3>3. Turn(d)
      BY <2>1, <2>3, AsBeforeTrans DEF Turn
    <3>4. QED
      BY <1>9, <3>2, <3>3 DEF Bystander
  <2>4. QED
    BY <1>8, <2>2, <2>3
<1>10. CASE d = c
  <2>1. sent'[d] = msgs[d] /\ AsBefore(w, act, objs, waiting', active', obj', d)
    BY <1>7, <1>8, <1>10 DEF Invited
  <2>2. CASE d \in S
    <3>1. Lost(d)
      BY <1>4, <2>1, <2>2 DEF Lost, Dropped, AsBefore
    <3>2. QED
      BY <1>5, <1>10, <2>1, <2>2, <3>1
  <2>3. CASE d \notin S
    <3>1. Kept(d)
      BY <1>4, <2>1, <2>3, AsBeforeTrans DEF Kept
    <3>2. QED
      BY <1>5, <1>10, <2>1, <2>3, <3>1
  <2>4. QED
    BY <2>2, <2>3
<1>11. QED
  BY <1>9, <1>10

\* on_prompt_close.
LEMMA ClosedFor ==
    ASSUME Records, NEW c \in Callback, PromptClosed(c), NEW d \in Callback
    PROVE  \/ Kept(d) /\ sent'[d] = <<>>
           \/ Lost(d) /\ sent'[d] = <<PromptDone>>
<1> DEFINE S == {c} \cap callbacks
<1>1. /\ Consistent(callbacks, waiting, active, obj) /\ S \in SUBSET callbacks
      /\ waiting' \in Removed(waiting, S)
      /\ active' = StoppedActive(S) /\ obj' = StoppedObjects(obj, S)
      /\ sent' = SendDone(S)
  BY DEF Records, PromptClosed, StopAll
<1>2. sent'[d] = IF d \in S THEN <<PromptDone>> ELSE <<>>
  BY <1>1 DEF SendDone
<1> HIDE DEF S
<1>3. /\ d \in S => ~Queued(waiting', d) /\ ~Asking(active', obj', d)
      /\ d \notin S => AsBefore(waiting, active, obj, waiting', active', obj', d)
  BY <1>1, StoppedFor
<1>4. QED
  BY <1>2, <1>3 DEF Kept, Lost, Dropped

\* on_prompt_ready_complete.
LEMMA ReadyCompleteFor ==
    ASSUME Records, NEW o \in Object, NEW ok \in BOOLEAN, PromptReadyComplete(o, ok),
           NEW d \in Callback
    PROVE  Bystander(d)
<1> DEFINE S == {obj[o].callback}
           objs == Returned(o)
<1>1. /\ Consistent(callbacks, waiting, active, obj)
      /\ Consistent(callbacks, waiting, active, objs)
      /\ obj[o].op = "call"
      /\ active[obj[o].callback] = o => objs[o].op = "none"
  BY ReadyCompleteDoes DEF Records
<1>2. /\ \A p \in Object : p # o => objs[p] = obj[p]
      /\ active[d] # NoObject => active[d] \in Object /\ obj[active[d]].callback = d
  BY <1>1 DEF Returned, Consistent
<1>3. AsBefore(waiting, active, obj, waiting, active, objs, d)
  <2> HIDE DEF objs
  <2>1. CASE active[d] = NoObject
    BY <2>1 DEF AsBefore, Asking
  <2>2. CASE active[d] # NoObject /\ active[d] # o
    <3>1. objs[active[d]] = obj[active[d]]
      BY <1>2, <2>2
    <3>2. QED
      BY <3>1 DEF AsBefore, Asking, About
  <2>3. CASE active[d] # NoObject /\ active[d] = o
    BY <1>1, <1>2, <2>3 DEF AsBefore, Asking
  <2>4. QED
    BY <2>1, <2>2, <2>3
<1>4. CASE UNCHANGED bookkeeping /\ sent' = Nothing /\ obj' = objs
  <2> HIDE DEF objs
  <2>1. sent'[d] = <<>>
    BY <1>4 DEF Nothing
  <2>2. Kept(d)
    BY <1>3, <1>4 DEF Kept, bookkeeping
  <2>3. QED
    BY <2>1, <2>2 DEF Bystander
<1>5. ASSUME active[obj[o].callback] = o, S \subseteq callbacks,
             NEW w \in Removed(waiting, S), Yields(S, w, StoppedObjects(objs, S))
      PROVE  Bystander(d)
  <2> DEFINE act == StoppedActive(S)
             ob2 == StoppedObjects(objs, S)
  <2>1. /\ d \in S => ~Queued(w, d) /\ ~Asking(act, ob2, d)
        /\ d \notin S => AsBefore(waiting, active, objs, w, act, ob2, d)
    BY <1>1, <1>5, StoppedFor
  <2>2. Consistent(callbacks \ S, w, act, ob2) /\ PromptNextReady(w, act, ob2, Nothing)
    BY <1>5 DEF Yields
  <2>3. d \in S => ~Queued(waiting, d) /\ ~Asking(active, obj, d)
    BY <1>1, <1>5, ObjectAssumption DEF Consistent, Queued, Asking
  <2> HIDE DEF act, ob2, objs, S
  <2>4. AsBefore(waiting, active, obj, w, act, ob2, d)
    <3>1. CASE d \in S
      BY <2>1, <2>3, <3>1 DEF AsBefore
    <3>2. CASE d \notin S
      BY <1>3, <2>1, <3>2, AsBeforeTrans
    <3>3. QED
      BY <3>1, <3>2
  <2>5. DOMAIN Nothing = Callback /\ Nothing[d] = <<>>
    BY DEF Nothing
  <2> DEFINE cbs == callbacks \ S
  <2>6. Consistent(cbs, w, act, ob2)
    BY <2>2
  <2> HIDE DEF cbs
  <2>7. \/ /\ sent'[d] = Nothing[d]
           /\ AsBefore(w, act, ob2, waiting', active', obj', d)
        \/ /\ Invited(w, act, ob2, waiting', active', obj', d)
           /\ \E p : sent'[d] = Append(Nothing[d], Invitation(p))
    BY <2>2, <2>5, <2>6, NextReadyFor, SMTT(60)
  <2>8. CASE sent'[d] = Nothing[d] /\ AsBefore(w, act, ob2, waiting', active', obj', d)
    <3>1. Kept(d)
      BY <2>4, <2>8, AsBeforeTrans DEF Kept
    <3>2. QED
      BY <2>5, <2>8, <3>1 DEF Bystander
  <2>9. CASE /\ Invited(w, act, ob2, waiting', active', obj', d)
             /\ \E p : sent'[d] = Append(Nothing[d], Invitation(p))
    <3>1. PICK p : sent'[d] = Append(Nothing[d], Invitation(p))
      BY <2>9
    <3>2. sent'[d] = <<Invitation(p)>>
      BY <2>5, <3>1, Appended
    <3>3. Turn(d)
      BY <2>4, <2>9, AsBeforeTrans DEF Turn
    <3>4. QED
      BY <3>2, <3>3 DEF Bystander
  <2>10. QED
    BY <2>7, <2>8, <2>9
<1> HIDE DEF objs
<1>6. \/ UNCHANGED bookkeeping /\ sent' = Nothing /\ obj' = objs
      \/ /\ active[obj[o].callback] = o /\ S \subseteq callbacks
         /\ \E w \in Removed(waiting, S) : Yields(S, w, StoppedObjects(objs, S))
  BY ReadyCompleteDoes DEF objs
<1>7. QED
  BY <1>4, <1>5, <1>6

\* on_prompt_confirm and on_prompt_password: the answer goes to the callback
\* that asked, as long as it is in the table.
LEMMA CompleteFor ==
    ASSUME Records, NEW o \in Object, NEW r \in {"yes", "no"}, PromptComplete(o, r),
           NEW d \in Callback
    PROVE  \/ Kept(d) /\ sent'[d] = <<>>
           \/ /\ Asking(active, obj, d) /\ Lost(d)
              /\ sent'[d] = <<PromptReady(r, About(active, obj, d), o)>>
<1> DEFINE a == obj[o]
           c == a.callback
           m == PromptReady(r, a.question, o)
<1>1. /\ Consistent(callbacks, waiting, active, obj)
      /\ ~registered => callbacks = {}
      /\ waiting' = waiting /\ active' = active
      /\ a # Free /\ a.op \in {"confirm", "password"}
      /\ \A p \in Object : p # o => obj'[p] = obj[p]
      /\ obj'[o].op \notin {"confirm", "password"}
      /\ registered => sent' = IF a.cancelled THEN Nothing ELSE Send(Nothing, c, m)
      /\ ~registered => sent' = Nothing
  <2>1. /\ Consistent(callbacks, waiting, active, obj)
        /\ ~registered => callbacks = {}
        /\ a # Free /\ a.op \in {"confirm", "password"}
        /\ waiting' = waiting /\ active' = active
    BY DEF Records, PromptComplete, IsLive, bookkeeping
  <2>2. a \in ActivePrompt /\ o \in DOMAIN obj
    BY <2>1 DEF Consistent
  <2>3. CASE /\ registered /\ obj' = [obj EXCEPT ![o] = [a EXCEPT !.op = "call"]]
             /\ sent' = IF a.cancelled THEN Nothing ELSE Send(Nothing, c, m)
    <3> DEFINE b == [a EXCEPT !.op = "call"]
    <3>1. b.op = "call"
      BY <2>2 DEF ActivePrompt
    <3> HIDE DEF b
    <3>2. obj' = [obj EXCEPT ![o] = b]
      BY <2>3 DEF b
    <3>3. /\ \A p \in Object : p # o => obj'[p] = obj[p]
          /\ obj'[o] = b
      BY <2>1, <2>2, <3>2 DEF Consistent
    <3> HIDE DEF a, c, m
    <3>4. QED
      BY <2>1, <2>3, <3>1, <3>3
  <2>4. CASE /\ ~registered /\ sent' = Nothing
             /\ obj' = [obj EXCEPT ![o] = [a EXCEPT !.op = "none", !.connection_lost = TRUE]]
    <3> DEFINE b == [a EXCEPT !.op = "none", !.connection_lost = TRUE]
    <3>1. b.op = "none"
      BY <2>2 DEF ActivePrompt
    <3> HIDE DEF b
    <3>2. obj' = [obj EXCEPT ![o] = b]
      BY <2>4 DEF b
    <3>3. /\ \A p \in Object : p # o => obj'[p] = obj[p]
          /\ obj'[o] = b
      BY <2>1, <2>2, <3>2 DEF Consistent
    <3> HIDE DEF a, c, m
    <3>4. QED
      BY <2>1, <2>4, <3>1, <3>3
  <2>5. QED
    BY <2>3, <2>4, Zenon DEF PromptComplete
<1>2. /\ ObjectOK(a, active[c] = o) /\ c \in Callback
      /\ active \in [Callback -> Object \cup {NoObject}]
  BY <1>1 DEF Consistent, ActivePrompt
<1>3. CASE active[d] # o
  <2>1. active[d] # NoObject => active[d] \in Object /\ obj'[active[d]] = obj[active[d]]
    BY <1>1, <1>2, <1>3
  <2>2. Kept(d)
    BY <1>1, <2>1 DEF Kept, AsBefore, Asking, About
  <2>3. c = d => a.cancelled
    BY <1>2, <1>3 DEF ObjectOK
  <2> HIDE DEF a, c, m
  <2>4. sent'[d] = <<>>
    <3>1. Nothing[d] = <<>> /\ (c # d => Send(Nothing, c, m)[d] = <<>>)
      BY SentTo DEF Nothing
    <3>2. QED
      BY <1>1, <2>3, <3>1
  <2>5. QED
    BY <2>2, <2>4
<1>4. CASE active[d] = o
  <2>1. active[d] # NoObject /\ c = d
    BY <1>1, <1>4, ObjectAssumption DEF Consistent
  <2>2. d \in callbacks /\ ~Queued(waiting, d)
    BY <1>1, <2>1 DEF Consistent, Queued
  <2>3. registered /\ ~a.cancelled
    BY <1>1, <1>2, <1>4, <2>1, <2>2 DEF ObjectOK
  <2>4. Asking(active, obj, d) /\ About(active, obj, d) = a.question
    BY <1>1, <1>4, <2>1 DEF Asking, About
  <2>5. Lost(d)
    BY <1>1, <1>4 DEF Lost, Dropped, Asking
  <2>6. sent'[d] = <<m>>
    <3> HIDE DEF a, m
    <3>1. sent' = Send(Nothing, c, m)
      BY <1>1, <2>3
    <3>2. QED
      BY <2>1, <3>1, SentTo
  <2>7. QED
    BY <2>4, <2>5, <2>6
<1>5. QED
  BY <1>3, <1>4

=============================================================================
