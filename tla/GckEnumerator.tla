---------------------------- MODULE GckEnumerator ----------------------------
(***************************************************************************)
(* The enumerators of src/gck/gck-enumerator.c: each walks modules, slots,  *)
(* sessions and the objects found in them, a few results at a time, and may *)
(* be chained to another one that goes on where it ends.  Several threads   *)
(* call next on them; whoever runs takes the state out of the enumerator    *)
(* and puts it back.  A token, a session or an object may fail at any time. *)
(***************************************************************************)
EXTENDS Queues, FiniteSets, SequencesExt

CONSTANTS
    Enumerator,  \* the GckEnumerators
    Caller,      \* the threads and the asynchronous calls
    Slot, Object,
    Session,     \* bound: PKCS#11 session handles open at a time
    None,        \* a NULL pointer
    Contents,    \* the matching objects in each slot
    Matching,    \* the slots whose token matches
    Modules,     \* what each enumerator starts with: the slots of its modules,
    Slots,       \*   some slots,
    Given,       \*   or a session
    GivenSlot,   \*   that is open on this slot
    Chainable,   \* which enumerators may be chained to which (no cycles)
    Async,       \* the callers that use the asynchronous functions
    Want,        \* how many objects each caller may ask for
    MaxSkipped   \* bound: objects left out after failures

ASSUME NoneAssumption == None \notin Enumerator \cup Caller \cup Session \cup Slot
ASSUME FiniteAssumption == IsFiniteSet(Enumerator)
\* A token lists an object once.
ASSUME ContentsAssumption ==
    /\ Contents \in [Slot -> Seq(Object)] /\ Matching \subseteq Slot
    /\ \A s \in Slot : \A i, j \in DOMAIN Contents[s] :
          Contents[s][i] = Contents[s][j] => i = j
ASSUME StartAssumption ==
    /\ Modules \in [Enumerator -> Seq(Seq(Slot))]
    /\ Slots \in [Enumerator -> Seq(Slot)]
    /\ Given \in [Enumerator -> Session \cup {None}]
    /\ GivenSlot \in [Enumerator -> Slot \cup {None}]
    /\ \A e \in Enumerator : Given[e] # None => GivenSlot[e] # None
    /\ Chainable \subseteq Enumerator \X Enumerator
ASSUME WantAssumption == Want \in [Caller -> SUBSET (Nat \ {0})] /\ MaxSkipped \in Nat

VARIABLES
    alive,      \* whether each enumerator has not been finalized
    chained,    \* the chained property of each
    owner,      \* who has taken its state; None when the_state is not NULL
    link,       \* the state's chained pointer
    walk,       \* where the state's walk is
    results,    \* the results it keeps
    pc,         \* what each caller is doing
    path,       \* the enumerators check_out_enumerator_state is called for
    carry,      \* the state it has last returned
    at,         \* the state the caller is working on
    job,        \* what the caller was asked for
    refs,       \* the references of each GckSession; 0 when it is closed
    holding,    \* the GckObjects the application holds, by who returned them
    delivered,  \* history: the objects each enumerator has returned
    skipped     \* history: the objects each has left out after a failure

shared == <<alive, chained, owner, link>>
control == <<pc, path, carry, at>>
history == <<delivered, skipped>>
vars == <<shared, walk, results, control, job, refs, holding, history>>

Handler == {"modules", "slots", "slot", "session", "find", "results"}
Result == [object : Object, session : Session]
Objects(queue) == [i \in DOMAIN queue |-> queue[i].object]

\* The results an enumerator has, read and yet to be read, that refer to the
\* session.
Referring(e, s) == {r \in Entries(walk[e].found \o results[e]) : r.session = s}

Walk(handler, modules, slots, slot, session, found) ==
    [handler |-> handler, modules |-> modules, slots |-> slots, slot |-> slot,
     session |-> session, found |-> found]

Job(top, want, count, ran, short) ==
    [top |-> top, want |-> want, count |-> count, ran |-> ran, short |-> short]

NoJob == Job(None, 0, 0, {}, FALSE)

\* _gck_enumerator_new_for_modules, _new_for_slots and _new_for_session.
Init ==
    /\ walk = [e \in Enumerator |->
          Walk(IF Given[e] # None THEN "session"
               ELSE IF Modules[e] # <<>> THEN "modules" ELSE "slots",
               Modules[e], Slots[e], GivenSlot[e], Given[e], <<>>)]
    /\ results = [e \in Enumerator |-> <<>>]
    /\ alive = [e \in Enumerator |-> TRUE]
    /\ chained = [e \in Enumerator |-> None]
    /\ owner = [e \in Enumerator |-> None]
    /\ link = [e \in Enumerator |-> None]
    /\ pc = [c \in Caller |-> "idle"]
    /\ path = [c \in Caller |-> <<>>]
    /\ carry = [c \in Caller |-> None]
    /\ at = [c \in Caller |-> None]
    /\ job = [c \in Caller |-> NoJob]
    /\ refs = [s \in Session |-> Cardinality({e \in Enumerator : Given[e] = s})]
    /\ holding = {}
    /\ delivered = [e \in Enumerator |-> <<>>]
    /\ skipped = [e \in Enumerator |-> {}]

Goto(c, label) == pc' = [pc EXCEPT ![c] = label]
SetAt(c, e) == at' = [at EXCEPT ![c] = e]
Adding(s, n) == refs' = [refs EXCEPT ![s] = @ + n]

\* Objects are left out after a failure.
Skipping(e, objects) ==
    /\ skipped' = [skipped EXCEPT ![e] = @ \cup objects]
    /\ objects # {} => Cardinality(UNION {skipped'[x] : x \in Enumerator}) <= MaxSkipped

-----------------------------------------------------------------------------
(* The application.                                                        *)

SetChained(e, x) ==
    /\ alive[e]
    /\ x # None => alive[x] /\ <<e, x>> \in Chainable
    /\ chained[e] # x
    /\ chained' = [chained EXCEPT ![e] = x]
    /\ UNCHANGED <<alive, owner, link, walk, results, control, job, refs, holding, history>>

\* An object is let go.
Unref(h) ==
    /\ holding' = holding \ {h}
    /\ Adding(h[2].session, -1)
    /\ UNCHANGED <<shared, walk, results, control, job, history>>

\* How many references to the session a state holds.
HeldBy(e, s) ==
    (IF walk[e].session = s THEN 1 ELSE 0) + Cardinality(Referring(e, s))

\* gck_enumerator_finalize, once nothing refers to the enumerator.
Finalize(e) ==
    /\ alive[e] /\ owner[e] = None
    /\ \A x \in Enumerator : chained[x] # e
    /\ \A c \in Caller : ~Contains(path[c], e)
    /\ alive' = [alive EXCEPT ![e] = FALSE]
    /\ chained' = [chained EXCEPT ![e] = None]
    /\ refs' = [s \in Session |-> refs[s] - HeldBy(e, s)]
    /\ UNCHANGED <<owner, link, walk, results, control, job, holding, history>>

-----------------------------------------------------------------------------
(* check_out_enumerator_state and check_in_enumerator_state.  Every access  *)
(* to an enumerator is a critical section of its own.                       *)

\* gck_enumerator_next, _next_n and _next_async.
Begin(c, e, want) ==
    /\ pc[c] = "idle" /\ alive[e]
    /\ Goto(c, "chain")
    /\ path' = [path EXCEPT ![c] = <<e>>]
    /\ job' = [job EXCEPT ![c] = Job(e, want, 0, {}, FALSE)]
    /\ UNCHANGED <<shared, walk, results, carry, at, refs, holding, history>>

\* gck_enumerator_get_chained and the recursion.
Chain(c) ==
    LET x == chained[Last(path[c])] IN
    /\ pc[c] = "chain"
    /\ IF x = None
          THEN Goto(c, "claim") /\ UNCHANGED path
          ELSE path' = [path EXCEPT ![c] = Append(@, x)] /\ UNCHANGED pc
    /\ UNCHANGED <<shared, walk, results, carry, at, job, refs, holding, history>>

\* What follows: the enumerator that chains to this one, or, with the state
\* that next was called for, the rest of the call.  Without it the call is over.
Claimed(c, e) ==
    \/ /\ Len(path[c]) > 1
       /\ carry' = [carry EXCEPT ![c] = e]
       /\ UNCHANGED <<pc, at, job>>
    \/ /\ Len(path[c]) = 1 /\ e # None
       /\ carry' = [carry EXCEPT ![c] = None]
       /\ Goto(c, IF c \in Async THEN "perform" ELSE "extract")
       /\ SetAt(c, e)
       /\ UNCHANGED job
    \/ /\ Len(path[c]) = 1 /\ e = None
       /\ carry' = [carry EXCEPT ![c] = None]
       /\ Goto(c, "idle")
       /\ job' = [job EXCEPT ![c] = NoJob]
       /\ UNCHANGED at

\* The state is taken, unless the enumerator is busy: then a chained state that
\* has been taken already is not put back.
Claim(c) ==
    LET e == Last(path[c]) IN
    /\ pc[c] = "claim"
    /\ path' = [path EXCEPT ![c] = Front(@)]
    /\ \/ /\ owner[e] = None
          /\ owner' = [owner EXCEPT ![e] = c]
          /\ link' = [link EXCEPT ![e] = carry[c]]
          /\ Claimed(c, e)
       \/ /\ owner[e] # None
          /\ Claimed(c, None)
          /\ UNCHANGED <<owner, link>>
    /\ UNCHANGED <<alive, chained, walk, results, refs, holding, history>>

\* The states are put back one after the other.
CheckIn(c) ==
    LET e == at[c] IN
    /\ pc[c] = "checkin"
    /\ owner' = [owner EXCEPT ![e] = None]
    /\ link' = [link EXCEPT ![e] = None]
    /\ SetAt(c, link[e])
    /\ IF link[e] = None
          THEN Goto(c, "idle") /\ job' = [job EXCEPT ![c] = NoJob]
          ELSE UNCHANGED <<pc, job>>
    /\ UNCHANGED <<alive, chained, walk, results, path, carry, refs, holding, history>>

-----------------------------------------------------------------------------
(* perform_enumerate_next: one action for each state of the walk.          *)

\* perform_call refuses when the cancellable is cancelled already.
Perform(c) ==
    /\ pc[c] = "perform"
    /\ Goto(c, "run") \/ Goto(c, "checkin")
    /\ UNCHANGED <<shared, walk, results, path, carry, at, job, refs, holding, history>>

Running(c, handler) == pc[c] = "run" /\ walk[at[c]].handler = handler

\* How many objects the current state still has to come up with.
Wanted(c) == job[c].want - job[c].count

\* Mutant: the chained state is never run.
StopEarly(c, kept, bad) ==
    LET j == job[c]
        e == at[c]
        count == j.count + Len(kept)
    IN
    /\ job' = [job EXCEPT ![c] = Job(j.top, j.want, count, j.ran \cup {e},
                                     j.short \/ bad # {})]
    /\ Goto(c, "done") /\ SetAt(c, j.top)

\* The handler has returned NULL: go on with the chained state unless there
\* are enough results.
Stop(c, kept, bad) ==
    LET j == job[c]
        e == at[c]
        count == j.count + Len(kept)
    IN
    /\ job' = [job EXCEPT ![c] = Job(j.top, j.want, count, j.ran \cup {e},
                                     j.short \/ bad # {})]
    /\ IF count >= j.want \/ link[e] = None
          THEN Goto(c, "done") /\ SetAt(c, j.top)
          ELSE SetAt(c, link[e]) /\ UNCHANGED pc

StateModules(c) ==
    LET e == at[c]
        w == walk[e]
    IN
    /\ Running(c, "modules")
    /\ \/ /\ w.modules = <<>>
          /\ Stop(c, results[e], {})
          /\ UNCHANGED walk
       \/ /\ w.modules # <<>>
          /\ walk' = [walk EXCEPT ![e] =
                Walk("slots", Tail(w.modules), Head(w.modules), None, None, w.found)]
          /\ UNCHANGED <<pc, at, job>>
    /\ UNCHANGED <<shared, results, path, carry, refs, holding, history>>

\* rewind_state to the modules.
NoMoreSlots(w) == Walk("modules", w.modules, <<>>, None, None, w.found)

\* The next slot: none is left, its token cannot be read, it does not match,
\* or it does.
StateSlots(c) ==
    LET e == at[c]
        w == walk[e]
        s == Head(w.slots)
    IN
    /\ Running(c, "slots")
    /\ \/ /\ w.slots = <<>>
          /\ walk' = [walk EXCEPT ![e] = NoMoreSlots(w)]
          /\ UNCHANGED skipped
       \/ /\ w.slots # <<>>
          /\ walk' = [walk EXCEPT ![e] =
                Walk("slots", w.modules, Tail(w.slots), None, None, w.found)]
          /\ IF s \in Matching THEN Skipping(e, ToSet(Contents[s])) ELSE UNCHANGED skipped
       \/ /\ w.slots # <<>> /\ s \in Matching
          /\ walk' = [walk EXCEPT ![e] =
                Walk("slot", w.modules, Tail(w.slots), s, None, w.found)]
          /\ UNCHANGED skipped
    /\ UNCHANGED <<shared, results, control, job, refs, holding, delivered>>

\* A session is opened, or cannot be.
StateSlot(c) ==
    LET e == at[c]
        w == walk[e]
    IN
    /\ Running(c, "slot")
    /\ \/ /\ \E s \in Session : refs[s] = 0
          /\ LET s == CHOOSE s \in Session : refs[s] = 0 IN
                /\ refs' = [refs EXCEPT ![s] = 1]
                /\ walk' = [walk EXCEPT ![e] =
                      Walk("session", w.modules, w.slots, w.slot, s, w.found)]
          /\ UNCHANGED skipped
       \/ /\ walk' = [walk EXCEPT ![e] =
                Walk("slots", w.modules, w.slots, None, None, w.found)]
          /\ Skipping(e, ToSet(Contents[w.slot]))
          /\ UNCHANGED refs
    /\ UNCHANGED <<shared, results, control, job, holding, delivered>>

\* Logging in; when it fails the enumeration goes on.
StateSession(c) ==
    LET e == at[c]
        w == walk[e]
    IN
    /\ Running(c, "session")
    /\ walk' = [walk EXCEPT ![e] =
          Walk("find", w.modules, w.slots, w.slot, w.session, w.found)]
    /\ UNCHANGED <<shared, results, control, job, refs, holding, history>>

\* The search, which may fail before it is complete.
StateFind(c) ==
    LET e == at[c]
        w == walk[e]
        objects == Contents[w.slot]
    IN
    /\ Running(c, "find")
    /\ \E n \in 0..Len(objects) :
          /\ walk' = [walk EXCEPT ![e] =
                Walk("results", w.modules, w.slots, w.slot, w.session,
                     w.found \o [i \in 1..n |-> [object |-> objects[i], session |-> w.session]])]
          /\ Adding(w.session, n)
          /\ Skipping(e, {objects[i] : i \in n + 1..Len(objects)})
    /\ UNCHANGED <<shared, results, control, job, holding, delivered>>

\* Mutant: the walk keeps its reference to the session it leaves.
FreedLess(s, bad, left) == Adding(s, -Cardinality(bad))

\* The references dropped: those of the bad results, and the session's own
\* when the walk leaves it.
Freed(s, bad, left) == Adding(s, -(Cardinality(bad) + (IF left THEN 1 ELSE 0)))

\* As many results as are wanted are taken from those found; the ones whose
\* attributes cannot be read are lost but count.  When the found ones run out
\* the walk goes back to the slots.
StateResults(c) ==
    LET e == at[c]
        w == walk[e]
        left == Len(w.found) < Wanted(c)
        taken == SubSeq(w.found, 1, IF left THEN Len(w.found) ELSE Wanted(c))
    IN
    /\ Running(c, "results")
    /\ \E bad \in SUBSET Entries(taken) : \E good \in Removed(taken, bad) :
          /\ results' = [results EXCEPT ![e] = @ \o good]
          /\ Freed(w.session, bad, left)
          /\ Skipping(e, {r.object : r \in bad})
          /\ \/ /\ left
                /\ walk' = [walk EXCEPT ![e] =
                      Walk("slots", w.modules, w.slots, None, None, <<>>)]
                /\ UNCHANGED <<pc, at, job>>
             \/ /\ ~left
                /\ walk' = [walk EXCEPT ![e] =
                      Walk("results", w.modules, w.slots, w.slot, w.session,
                           SubSeq(w.found, Wanted(c) + 1, Len(w.found)))]
                /\ Stop(c, results'[e], bad)
    /\ UNCHANGED <<shared, path, carry, holding, delivered>>

-----------------------------------------------------------------------------
(* The answer.                                                             *)

\* gck_enumerator_next_finish: the task may have been cancelled meanwhile.
Finish(c) ==
    /\ pc[c] = "done"
    /\ Goto(c, "deliver") \/ (c \in Async /\ Goto(c, "checkin"))
    /\ UNCHANGED <<shared, walk, results, path, carry, at, job, refs, holding, history>>

\* Mutant: the last result is taken.
ExtractLast(c) ==
    LET e == at[c]
        j == job[c]
        r == Last(results[e])
    IN
    /\ pc[c] \in {"extract", "deliver"}
    /\ j.want > 0 /\ results[e] # <<>>
    /\ results' = [results EXCEPT ![e] = Front(@)]
    /\ holding' = holding \cup {<<e, r>>}
    /\ delivered' = [delivered EXCEPT ![e] = Append(@, r.object)]
    /\ job' = [job EXCEPT ![c] = Job(j.top, j.want - 1, j.count, j.ran, j.short)]
    /\ UNCHANGED <<shared, walk, control, refs, skipped>>

\* extract_result: one object, from the first state in the chain that has one.
Extract(c) ==
    LET e == at[c]
        j == job[c]
        r == Head(results[e])
    IN
    /\ pc[c] \in {"extract", "deliver"}
    /\ j.want > 0 /\ results[e] # <<>>
    /\ results' = [results EXCEPT ![e] = Tail(@)]
    /\ holding' = holding \cup {<<e, r>>}
    /\ delivered' = [delivered EXCEPT ![e] = Append(@, r.object)]
    /\ job' = [job EXCEPT ![c] = Job(j.top, j.want - 1, j.count, j.ran, j.short)]
    /\ UNCHANGED <<shared, walk, control, refs, skipped>>

\* No more results are wanted or to be had: the answer is complete, or, before
\* the walk, more have to be found.
Extracted(c) ==
    LET e == at[c]
        j == job[c]
    IN
    /\ pc[c] \in {"extract", "deliver"}
    /\ j.want = 0 \/ results[e] = <<>>
    /\ IF j.want > 0 /\ link[e] # None
          THEN SetAt(c, link[e]) /\ UNCHANGED pc
          ELSE /\ SetAt(c, j.top)
               /\ Goto(c, IF pc[c] = "extract" /\ j.want > 0 THEN "perform" ELSE "checkin")
    /\ UNCHANGED <<shared, walk, results, path, carry, job, refs, holding, history>>

-----------------------------------------------------------------------------
Step(c) ==
    \/ Chain(c) \/ Claim(c) \/ CheckIn(c)
    \/ Perform(c) \/ Finish(c) \/ Extract(c) \/ Extracted(c)
    \/ StateModules(c) \/ StateSlots(c) \/ StateSlot(c)
    \/ StateSession(c) \/ StateFind(c) \/ StateResults(c)

Next ==
    \/ \E e \in Enumerator : Finalize(e)
    \/ \E e \in Enumerator, x \in Enumerator \cup {None} : SetChained(e, x)
    \/ \E h \in holding : Unref(h)
    \/ \E c \in Caller :
          \/ \E e \in Enumerator, want \in Want[c] : Begin(c, e, want)
          \/ Step(c)

Spec == Init /\ [][Next]_vars

-----------------------------------------------------------------------------
(* Properties.                                                             *)

TypeOK ==
    /\ alive \in [Enumerator -> BOOLEAN]
    /\ chained \in [Enumerator -> Enumerator \cup {None}]
    /\ owner \in [Enumerator -> Caller \cup {None}]
    /\ link \in [Enumerator -> Enumerator \cup {None}]
    /\ \A e \in Enumerator :
          /\ walk[e].handler \in Handler
          /\ walk[e].session \in Session \cup {None}
          /\ walk[e].found \in Seq(Result)
          /\ results[e] \in Seq(Result)
    /\ pc \in [Caller -> {"idle", "chain", "claim", "extract", "perform", "run", "done",
                          "deliver", "checkin"}]
    /\ path \in [Caller -> Seq(Enumerator)]
    /\ carry \in [Caller -> Enumerator \cup {None}]
    /\ at \in [Caller -> Enumerator \cup {None}]
    /\ refs \in [Session -> Nat]
    /\ holding \subseteq Enumerator \X Result

\* The callers that hold a state work on it alone: a state is worked on, and
\* put back, only by the caller that has taken it, and so are those chained to
\* it.
Exclusive ==
    /\ \A c \in Caller :
          pc[c] \in {"extract", "perform", "run", "done", "deliver", "checkin"} =>
              at[c] # None /\ owner[at[c]] = c
    /\ \A e \in Enumerator : owner[e] # None /\ link[e] # None => owner[link[e]] = owner[e]

\* The references of a session are those of the walks, of the results and of
\* the objects handed out, so that it is closed when the last of them goes.
SessionRefs ==
    \A s \in Session :
        refs[s] = Cardinality({e \in Enumerator : alive[e] /\ walk[e].session = s})
                  + Cardinality({h \in holding : h[2].session = s})
                  + Cardinality(UNION {{e} \X Referring(e, s) : e \in {x \in Enumerator : alive[x]}})

\* No object is in the hands of an enumerator twice, and none that it has already
\* given to the application under the same session.
FoundOnce ==
    \A e \in Enumerator : LET q == walk[e].found \o results[e] IN
        /\ \A i, j \in DOMAIN q : q[i] = q[j] => i = j
        /\ \A i \in DOMAIN q : <<e, q[i]>> \notin holding

\* The objects in slots that are still to be visited.
InSlots(slots) == FlattenSeq([i \in DOMAIN slots |->
                      IF slots[i] \in Matching THEN Contents[slots[i]] ELSE <<>>])

\* The objects a walk has not searched for yet.
Ahead(w) ==
    (IF w.handler \in {"slot", "session", "find"} THEN Contents[w.slot] ELSE <<>>)
    \o InSlots(w.slots) \o InSlots(FlattenSeq(w.modules))

Left(e) == Objects(results[e]) \o Objects(walk[e].found) \o Ahead(walk[e])

\* Every object is returned once, in the order in which the tokens list them:
\* whoever calls, whatever is cancelled, and however many are asked for, what
\* has been returned, what is kept and what lies ahead is the whole listing
\* without the objects that could not be read.
Conserved ==
    \A e \in Enumerator :
        LET listing == Ahead(Walk(IF Given[e] # None THEN "session" ELSE "slots",
                                  Modules[e], Slots[e], GivenSlot[e], None, <<>>))
        IN delivered[e] \o Left(e) = SelectSeq(listing, LAMBDA o : o \notin skipped[e])

\* Callers that enumerate at the same time keep out of each other's way: the state
\* is held by one, sessions are kept as long as they are used, nothing is found twice.
EnumerationSound == TypeOK /\ Exclusive /\ SessionRefs /\ FoundOnce

\* An answer with fewer objects than asked for, and no error, means that there
\* are no more, unless attributes could not be read.
FullAnswer ==
    \A c \in Caller :
        pc[c] = "deliver" /\ pc'[c] = "checkin" /\ job[c].want > 0 /\ ~job[c].short =>
            \A e \in job[c].ran : Left(e) = <<>> /\ link[e] \in job[c].ran \cup {None}

\* At every step: what is returned is all there is, in order, and an answer that
\* ends the enumeration says so rightly.
WholeListing == [][Conserved /\ FullAnswer]_vars
=============================================================================
