----------------------------- MODULE Importers -----------------------------
(***************************************************************************)
(* GcrImporter and GcrPkcs11Importer: which importers are made for what    *)
(* was parsed, and how one of them puts its queue of objects on a token.   *)
(* An import is a task of steps that answer later; two may be under way on *)
(* one importer.                                                           *)
(***************************************************************************)
EXTENDS Integers, Sequences, SequencesExt, FiniteSets, FiniteSetsExt

CONSTANTS
  Slots,        \* slot -> flags of its token: writable, initialized, pin, listed
  Items,        \* what may be parsed: [class, type, finger, label]
  Tasks,        \* the imports
  MaxQueue      \* bound: objects queued

VARIABLES
  registered,   \* registered importers: [type, attrs], in their order
  importers,    \* the importers made for the first item: <<type, slot>>
  queue,        \* one pkcs11 importer's queue of attributes
  objects,      \* the objects it created, in order
  task,         \* task -> [pc, cancel, label, held, result]
  rounds,       \* supplements made so far: each has a nonce of its own
  queued        \* how many were queued (history)

ivars == <<registered, importers, queue, objects, task, rounds, queued>>

NoTask == [pc |-> "none", cancel |-> FALSE, label |-> "", held |-> <<>>, result |-> ""]

\* The attributes of an item: its class and, of a certificate, its type.
AttrsOf(item) == {<<"class", item.class>>, <<"type", item.type>>}

----------------------------------------------------------------------------
(* Which importers there are. *)

\* gcr_importer_register_well_known: the classes register themselves.
WellKnown ==
  << [type |-> "pkcs11", attrs |-> {<<"class", "certificate">>, <<"type", "x509">>}],
     [type |-> "pkcs11", attrs |-> {<<"class", "private">>}],
     [type |-> "gnupg", attrs |-> {<<"class", "records">>}] >>

\* sort_registered_by_n_attrs: most attributes first.
SortRegistered(r) == SortSeq(r, LAMBDA a, b : Cardinality(a.attrs) > Cardinality(b.attrs))

\* is_slot_importable.
IsImportable(flags) ==
  /\ flags.writable /\ flags.initialized
  /\ flags.login => flags.pin
  /\ ~flags.listed

\* create_for_parsed of each kind: one importer for each token that can be
\* written, or the one for gpg's keyring.
CreateFor(type, item) ==
  IF type = "pkcs11"
  THEN SetToSeq({<<"pkcs11", s>> : s \in {s \in DOMAIN Slots : IsImportable(Slots[s])}})
  ELSE IF item.class = "records" THEN <<<<"gnupg", "">>>> ELSE <<>>

\* gcr_importer_create_for_parsed: every type once, if one of its registrations
\* matches.
CreateForParsed(item) ==
  /\ importers = <<>> /\ queue = <<>> /\ queued = 0
  /\ registered' = IF registered = <<>> THEN SortRegistered(WellKnown) ELSE registered
  /\ LET matched == SelectSeq(registered', LAMBDA r : r.attrs \subseteq AttrsOf(item))
         types == [i \in DOMAIN matched |-> matched[i].type]
         firsts == SelectSeq([i \in DOMAIN types |-> i],
                             LAMBDA i : \A j \in 1..(i - 1) : types[j] # types[i])
     IN  importers' = FlattenSeq([k \in DOMAIN firsts |-> CreateFor(types[firsts[k]], item)])
  /\ queue' = IF \E i \in DOMAIN importers' : importers'[i][1] = "pkcs11"
              THEN <<[item EXCEPT !.id = <<>>]>> ELSE <<>>
  /\ queued' = Len(queue')
  /\ UNCHANGED <<objects, task, rounds>>

\* gcr_importer_queue_and_filter_for_parsed: a pkcs11 importer takes anything,
\* gpg's only packets; _gcr_pkcs11_importer_queue adds the label if there is none.
QueueAndFilter(item) ==
  /\ importers # <<>> /\ queued < MaxQueue
  /\ importers' = SelectSeq(importers, LAMBDA m : m[1] = "pkcs11" \/ item.class = "records")
  /\ queue' = IF \E i \in DOMAIN importers : importers[i][1] = "pkcs11"
              THEN Append(queue, item) ELSE queue
  /\ queued' = queued + Len(queue') - Len(queue)
  /\ UNCHANGED <<registered, objects, task, rounds>>

----------------------------------------------------------------------------
(* An import. *)

\* supplement_prep: the label all queued objects have, if they have the same.
CommonLabel ==
  IF queue # <<>> /\ \A i \in DOMAIN queue : queue[i].label = queue[1].label
  THEN queue[1].label ELSE ""

\* The end of a task; held keeps the object it failed on.
Ended(t, result) == [NoTask EXCEPT !.pc = "done", !.result = result, !.held = task[t].held]

\* next_state: the cancellable is looked at before every step.
Enter(t, pc) == IF task[t].cancel THEN Ended(t, "cancelled") ELSE [task[t] EXCEPT !.pc = pc]

Put(t, r) == task' = [task EXCEPT ![t] = r]

\* _gcr_pkcs11_importer_import_async: the label is prepared, a session is opened.
ImportAsync(t) ==
  /\ task[t].pc = "none" /\ \E i \in DOMAIN importers : importers[i][1] = "pkcs11"
  /\ Put(t, [Enter(t, "open") EXCEPT !.label = CommonLabel])
  /\ UNCHANGED <<registered, importers, queue, objects, rounds, queued>>

CompleteOpenSession(t, ok) ==
  /\ task[t].pc = "open"
  /\ Put(t, IF ok THEN Enter(t, "supplement")
            ELSE Ended(t, "failed"))
  /\ UNCHANGED <<registered, importers, queue, objects, rounds, queued>>

\* The positions in the queue that make pairs: for each fingerprint the first
\* certificate and the first private key, if there are both.
FirstOf(class, finger) ==
  LET at == {i \in DOMAIN queue : queue[i].class = class /\ queue[i].finger = finger}
  IN  IF at = {} THEN 0 ELSE Min(at)

Pairs ==
  {f \in {queue[i].finger : i \in DOMAIN queue} \ {""} :
     FirstOf("certificate", f) # 0 /\ FirstOf("private", f) # 0}

\* supplement_id_for_data: only an object without an identifier gets one.
WithId(o, id) == IF o.id = <<>> THEN [o EXCEPT !.id = id] ELSE o

WithLabel(o, label) == IF label = "" THEN o ELSE [o EXCEPT !.label = label]

\* supplement_attributes: pairs first, key before certificate, with one
\* identifier for both; then the rest, each with its own.  The supplements go to
\* the pairs if there are any, else to everything.
SupplementAttributes(label) ==
  LET fingers == SetToSeq(Pairs)
      one(f, class) == WithId(WithLabel(queue[FirstOf(class, f)], label), <<rounds, FirstOf("certificate", f)>>)
      pairs == FlattenSeq([k \in DOMAIN fingers |->
                             <<one(fingers[k], "private"), one(fingers[k], "certificate")>>])
      paired == UNION {{FirstOf("certificate", f), FirstOf("private", f)} : f \in Pairs}
      others == SelectSeq([i \in DOMAIN queue |-> i], LAMBDA i : i \notin paired)
      rest == [k \in DOMAIN others |->
                 WithId(WithLabel(queue[others[k]], IF Pairs = {} THEN label ELSE ""),
                        <<rounds, others[k]>>)]
  IN  pairs \o rest

\* complete_supplement, after the interaction (if any) has filled in the label.
CompleteSupplement(t, ok) ==
  /\ task[t].pc = "supplement"
  /\ IF ok THEN /\ queue' = SupplementAttributes(task[t].label)
                /\ rounds' = rounds + 1
                /\ Put(t, Enter(t, "create"))
     ELSE /\ Put(t, Ended(t, "failed"))
          /\ UNCHANGED <<queue, rounds>>
  /\ UNCHANGED <<registered, importers, objects, queued>>

\* Mutant: the object stays at the head of the queue until it is created.
StateCreateObjectPeek(t) ==
  /\ task[t].pc = "create" /\ queue # <<>>
  /\ Put(t, [task[t] EXCEPT !.pc = "creating", !.held = <<queue[1]>>])
  /\ UNCHANGED <<registered, importers, queue, objects, rounds, queued>>

\* state_create_object: the next object, or the end.
StateCreateObject(t) ==
  /\ task[t].pc = "create"
  /\ IF queue = <<>>
     THEN /\ Put(t, Ended(t, "ok"))
          /\ UNCHANGED queue
     ELSE /\ Put(t, [task[t] EXCEPT !.pc = "creating", !.held = <<queue[1]>>])
          /\ queue' = Tail(queue)
  /\ UNCHANGED <<registered, importers, objects, rounds, queued>>

\* complete_create_object: an object that could not be created is dropped, and
\* with it the rest of this import; those created before stay.
CompleteCreateObject(t, ok) ==
  /\ task[t].pc = "creating"
  /\ IF ok
     THEN /\ objects' = Append(objects, task[t].held[1])
          /\ Put(t, [Enter(t, "create") EXCEPT !.held = <<>>])
     ELSE /\ Put(t, Ended(t, "failed"))
          /\ UNCHANGED objects
  /\ UNCHANGED <<registered, importers, queue, rounds, queued>>

CancelImport(t) ==
  /\ task[t].pc \notin {"done"} /\ ~task[t].cancel
  /\ Put(t, [task[t] EXCEPT !.cancel = TRUE])
  /\ UNCHANGED <<registered, importers, queue, objects, rounds, queued>>

IInit ==
  /\ registered = <<>> /\ importers = <<>> /\ queue = <<>> /\ objects = <<>>
  /\ task = [t \in Tasks |-> NoTask]
  /\ rounds = 0 /\ queued = 0

INext ==
  \/ \E item \in Items : CreateForParsed(item) \/ QueueAndFilter(item)
  \/ \E t \in Tasks :
       \/ ImportAsync(t) \/ StateCreateObject(t) \/ CancelImport(t)
       \/ \E ok \in BOOLEAN : CompleteOpenSession(t, ok) \/ CompleteSupplement(t, ok)
                                \/ CompleteCreateObject(t, ok)

ISpec == IInit /\ [][INext]_ivars

----------------------------------------------------------------------------
Held == FoldSet(LAMBDA t, n : n + Len(task[t].held), 0, Tasks)

\* Whatever imports run at once, however they fail and wherever they are
\* cancelled: every object that was queued is in the queue, on its way, on the
\* token, or the one an import failed on (kept in held); none is created twice.
NothingLost == Len(queue) + Len(objects) + Held = queued

\* Two objects on the token have one identifier only if they are a certificate
\* and the private key it is for; and such a pair, prepared by one import, has
\* one, unless there were more objects of the same key to choose from.  (An
\* object that is queued after the import was prepared gets no identifier.)
PairsShareId ==
  \A i, j \in DOMAIN objects :
    LET a == objects[i]
        b == objects[j]
        more == \/ \E k \in DOMAIN objects \ {i, j} : objects[k].finger = a.finger
                \/ \E t \in Tasks : task[t].held # <<>> /\ task[t].held[1].finger = a.finger
                \/ \E k \in DOMAIN queue : queue[k].finger = a.finger
    IN  (i # j /\ a.id # <<>> /\ b.id # <<>>) =>
          /\ a.id = b.id => (a.finger = b.finger /\ a.class # b.class)
          /\ (/\ a.class = "private" /\ b.class = "certificate" /\ a.finger = b.finger
              /\ a.id[1] = b.id[1] /\ ~more) => a.id = b.id
============================================================================
