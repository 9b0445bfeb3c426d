------------------------------ MODULE GckModules ------------------------------
(***************************************************************************)
(* GckModule, GckSlot and the functions over lists of modules:              *)
(* src/gck/gck-module.c, gck-modules.c, gck-slot.c, gck-uri.c, and the      *)
(* strings and matches of gck-misc.c.  A module object is one               *)
(* initialization of a p11-kit function list, which p11-kit counts; slots   *)
(* keep their module, and tokens come and go between the calls that a       *)
(* function makes.                                                          *)
(***************************************************************************)
EXTENDS Integers, Sequences, FiniteSets, FiniteSetsExt, SequencesExt, Functions

CONSTANTS
    Funcs,       \* the function lists that p11-kit has
    Module,      \* the module objects that may be made, numbers
    SlotId,      \* the slots of each, numbers
    Label,       \* the labels of tokens, as fixed size character fields
    Tokens,      \* the tokens that are there at first
    Name,        \* the label of each function list
    Mechs,       \* how many mechanisms the token with each label has
    Uri,         \* the URIs that tokens are looked up with
    Caller,      \* the threads
    MaxChanges,  \* bound: insertions and removals
    MaxCalls     \* bound: calls that are made

VARIABLES
    inits,       \* external: how often p11-kit has each function list initialized
    token,       \* external: the label of the token in each slot, as <<label>> or <<>>
    module,      \* the module objects
    held,        \* the references to modules, and to slots <<module, id>>, that the
                 \* application has
    call,        \* what each thread does
    budget       \* what is left of the bounds

vars == <<inits, token, module, held, call, budget>>

NoModule == [refs |-> 0, funcs |-> "none", initialized |-> FALSE, finalized |-> FALSE]
Idle == [pc |-> "idle", op |-> "none", mods |-> <<>>, all |-> {}, uri |-> 0, one |-> FALSE, count |-> 0,
         made |-> <<>>, slots |-> <<>>, found |-> <<>>, quiet |-> TRUE]

Init ==
    /\ inits = [f \in Funcs |-> 0]
    /\ token = Tokens
    /\ module = [m \in Module |-> NoModule]
    /\ held = [modules |-> {}, slots |-> {}]
    /\ call = [c \in Caller |-> Idle]
    /\ budget = [changes |-> MaxChanges, calls |-> MaxCalls]

-----------------------------------------------------------------------------
(* Strings, URIs and matches.                                              *)

\* gck_string_from_chars: nothing when the first is NUL, otherwise without the
\* blanks at the end, as <<string>> or <<>>.
FromChars(chars) ==
    LET kept == {i \in DOMAIN chars : chars[i] # " "}
    IN  IF chars[1] = "NUL" THEN <<>>
        ELSE <<SubSeq(chars, 1, IF kept = {} THEN 0 ELSE Max(kept))>>

\* gck_string_to_chars, for strings that are not too long.
ToChars(string, size) ==
    [i \in 1..size |-> IF string = <<>> THEN "NUL"
                       ELSE IF i <= Len(string[1]) THEN string[1][i] ELSE " "]

\* match_info_string: no string to match matches anything.
MatchString(match, string) == match = <<>> \/ match = string

\* gck_uri_data_parse: the parts that the flags ask for, as p11-kit reads them.
ParseUri(uri) ==
    [unrecognized |-> uri.unrecognized,
     module |-> FromChars(uri.module), token |-> FromChars(uri.token)]

\* _gck_module_info_from_pkcs11 and _gck_module_info_to_pkcs11: the descriptions as
\* strings and as fields, the numbers as they are.
ModuleInfoFrom(info) ==
    [text |-> [k \in DOMAIN info.text |-> FromChars(info.text[k])], numbers |-> info.numbers]
ModuleInfoTo(info, size) ==
    [text |-> [k \in DOMAIN info.text |-> ToChars(info.text[k], size)], numbers |-> info.numbers]

\* _gck_token_info_from_pkcs11: also the time, the first eight digits of which are
\* the date, of a token that has a clock.
TokenInfoFrom(info) ==
    [text |-> [k \in DOMAIN info.text |-> FromChars(info.text[k])], numbers |-> info.numbers, clock |-> info.clock,
     time |-> IF info.clock THEN <<[date |-> SubSeq(info.time, 1, 8), time |-> SubSeq(info.time, 9, 14)]>> ELSE <<>>]

\* _gck_token_info_to_pkcs11.
TokenInfoTo(info, size) ==
    [text |-> [k \in DOMAIN info.text |-> ToChars(info.text[k], size)], numbers |-> info.numbers,
     clock |-> info.clock,
     time |-> IF info.clock THEN info.time[1].date \o info.time[1].time ELSE [i \in 1..14 |-> 0]]

\* gck_uri_data_build: what the flags ask for and there is.
BuildUri(data, flags, size) ==
    [unrecognized |-> FALSE,
     module |-> ToChars(IF "module" \in flags THEN data.module ELSE <<>>, size),
     token |-> ToChars(IF "token" \in flags THEN data.token ELSE <<>>, size)]

\* _gck_module_info_match with gck_module_get_info.
ModuleMatches(f, data) == MatchString(data.module, FromChars(Name[f]))

\* _gck_token_info_match with the token info of a slot, <<>> if there is no token.
TokenMatches(label, data) == label # <<>> /\ MatchString(data.token, FromChars(label[1]))

-----------------------------------------------------------------------------
(* Module objects.                                                         *)

Live(m) == module[m].refs > 0
Unused == {m \in Module : module[m] = NoModule}
Fresh == Min(Unused)

NewModule(f, initialized) ==
    [refs |-> 1, funcs |-> f, initialized |-> initialized, finalized |-> FALSE]

\* What is left of a module when references to it go.  gck_module_dispose and
\* gck_module_finalize: the last one finalizes what was initialized, once.
Dropped(mod, n) ==
    IF mod.refs > n THEN [mod EXCEPT !.refs = @ - n]
    ELSE [mod EXCEPT !.refs = 0, !.finalized = mod.initialized]

Drop(m, n) ==
    /\ module' = [module EXCEPT ![m] = Dropped(@, n)]
    /\ inits' = IF module'[m].finalized /\ ~module[m].finalized
                THEN [inits EXCEPT ![module[m].funcs] = @ - 1] ELSE inits

Spend == budget.calls > 0 /\ budget' = [budget EXCEPT !.calls = @ - 1]

\* gck_module_initialize and gck_module_initialize_async with perform_initialize:
\* p11-kit may fail to load the module, or to initialize it and the object goes.
Initialize(c, f) ==
    /\ call[c].pc = "idle" /\ Unused # {} /\ Spend
    /\ \/ /\ call' = [call EXCEPT ![c] = [Idle EXCEPT !.pc = "new", !.mods = <<Fresh>>]]
          /\ module' = [module EXCEPT ![Fresh] = NewModule(f, TRUE)]
          /\ inits' = [inits EXCEPT ![f] = @ + 1]
       \/ UNCHANGED <<call, module, inits>>
    /\ UNCHANGED <<token, held>>

\* gck_modules_initialize_registered with perform_initialize_registered: a module
\* object for everything that p11-kit has loaded and initialized.
InitializeRegistered(c) ==
    LET fs == SetToSeq(Funcs)
        ms == SetToSortSeq(Unused, <)
        n == Len(fs)
    IN
    /\ call[c].pc = "idle" /\ Cardinality(Unused) >= n /\ Spend
    /\ call' = [call EXCEPT ![c] = [Idle EXCEPT !.pc = "new", !.mods = Reverse(SubSeq(ms, 1, n))]]
    /\ module' = [m \in Module |-> IF \E i \in 1..n : ms[i] = m
                                   THEN NewModule(fs[CHOOSE i \in 1..n : ms[i] = m], TRUE)
                                   ELSE module[m]]
    /\ inits' = [f \in Funcs |-> inits[f] + 1]
    /\ UNCHANGED <<token, held>>

\* gck_module_initialize_finish, gck_modules_initialize_registered_finish, and
\* the functions that wait: the application gets the modules.
Receive(c) ==
    /\ call[c].pc = "new"
    /\ held' = [held EXCEPT !.modules = @ \cup Range(call[c].mods)]
    /\ call' = [call EXCEPT ![c] = Idle]
    /\ UNCHANGED <<inits, token, module, budget>>

\* The task was cancelled, or its result is not picked up: free_initialize and
\* free_initialize_registered drop what was made.
Forget(c) ==
    LET gone == Range(call[c].mods) IN
    /\ call[c].pc = "new"
    /\ module' = [m \in Module |-> IF m \in gone THEN Dropped(module[m], 1) ELSE module[m]]
    /\ inits' = [f \in Funcs |-> inits[f] - Cardinality({m \in gone : module[m].funcs = f})]
    /\ call' = [call EXCEPT ![c] = Idle]
    /\ UNCHANGED <<token, held, budget>>

\* The modules and slots that a thread has been given and still uses.
InUse(m) == \E c \in Caller : call[c].op # "slot" /\ call[c].pc # "idle" /\ m \in Range(call[c].mods)
SlotInUse(s) == \E c \in Caller : call[c].op = "slot" /\ call[c].mods = <<s[1]>> /\ call[c].slots = <<s[2]>>

UnrefModule(m) ==
    /\ m \in held.modules /\ ~InUse(m)
    /\ Drop(m, 1)
    /\ held' = [held EXCEPT !.modules = @ \ {m}]
    /\ UNCHANGED <<token, call, budget>>

\* gck_slot_finalize: a slot lets its module go.
UnrefSlot(s) ==
    /\ s \in held.slots /\ ~SlotInUse(s)
    /\ Drop(s[1], 1)
    /\ held' = [held EXCEPT !.slots = @ \ {s}]
    /\ UNCHANGED <<token, call, budget>>

\* External: a token is inserted, removed or exchanged.
Change(f, id, l) ==
    /\ budget.changes > 0 /\ token[f][id] # l
    /\ token' = [token EXCEPT ![f][id] = l]
    /\ budget' = [budget EXCEPT !.changes = @ - 1]
    /\ call' = [c \in Caller |-> [call[c] EXCEPT !.quiet = FALSE]]
    /\ UNCHANGED <<inits, module, held>>

-----------------------------------------------------------------------------
(* Lists of slots and tokens.                                              *)

\* C_GetSlotList with the slots that have a token.
Present(m) == SetToSortSeq({id \in SlotId : token[module[m].funcs][id] # <<>>}, <)

Continue(c, r) == call' = [call EXCEPT ![c] = r] /\ UNCHANGED <<token, held, budget>>

\* gck_modules_get_slots, gck_modules_tokens_for_uri, gck_modules_token_for_uri.
BeginList(c, ms, op, data, one) ==
    /\ call[c].pc = "idle" /\ ms # {} /\ ms \subseteq held.modules /\ Spend
    /\ call' = [call EXCEPT ![c] = [Idle EXCEPT !.pc = "module", !.op = op, !.uri = data,
                                                !.mods = SetToSortSeq(ms, <), !.all = ms, !.one = one]]
    /\ UNCHANGED <<inits, token, module, held>>

\* The loop over the modules in tokens_for_uri and gck_modules_get_slots.
NextModule(c) ==
    LET a == call[c] IN
    /\ a.pc = "module"
    /\ IF a.mods = <<>> \/ (a.op = "tokens" /\ (a.uri.unrecognized \/ (a.one /\ a.found # <<>>)))
       THEN Continue(c, [a EXCEPT !.pc = "done"])
       ELSE IF a.op = "tokens" /\ ~ModuleMatches(module[Head(a.mods)].funcs, a.uri)
       THEN Continue(c, [a EXCEPT !.mods = Tail(@)])
       ELSE Continue(c, [a EXCEPT !.pc = "count"])
    /\ UNCHANGED <<inits, module>>

\* gck_module_get_slots: how many slots there are, and then which.
CountSlots(c) ==
    LET n == Len(Present(Head(call[c].mods))) IN
    /\ call[c].pc = "count"
    /\ Continue(c, [call[c] EXCEPT !.count = n, !.mods = IF n = 0 THEN Tail(@) ELSE @,
                                   !.pc = IF n = 0 THEN "module" ELSE "list"])
    /\ UNCHANGED <<inits, module>>

\* Mutant: slots are made without a reference to their module.
ListSlotsBare(c) ==
    LET m == Head(call[c].mods)
        ids == IF Len(Present(m)) > call[c].count THEN <<>> ELSE Present(m)
    IN
    /\ call[c].pc = "list"
    /\ Continue(c, [call[c] EXCEPT !.pc = "slot", !.made = ids, !.slots = ids])
    /\ UNCHANGED <<inits, module>>

\* The second call fails when there are more than before; every slot that is
\* made has a reference to the module.
ListSlots(c) ==
    LET m == Head(call[c].mods)
        ids == IF Len(Present(m)) > call[c].count THEN <<>> ELSE Present(m)
    IN
    /\ call[c].pc = "list"
    /\ module' = [module EXCEPT ![m].refs = @ + Len(ids)]
    /\ Continue(c, [call[c] EXCEPT !.pc = "slot", !.made = ids, !.slots = ids])
    /\ UNCHANGED inits

\* The loop over the slots of a module: gck_slot_get_token_info, and a reference
\* to the slot if it matches.
NextSlot(c) ==
    LET a == call[c]
        m == Head(a.mods)
        id == Head(a.slots)
    IN
    /\ a.pc = "slot" /\ a.slots # <<>> /\ ~(a.op = "tokens" /\ a.one /\ a.found # <<>>)
    /\ Continue(c, [a EXCEPT !.slots = Tail(@),
          !.found = IF a.op = "slots" \/ TokenMatches(token[module[m].funcs][id], a.uri)
                    THEN Append(@, <<m, id>>) ELSE @])
    /\ UNCHANGED <<inits, module>>

\* The list of slots goes; those that were found stay.
EndSlots(c) ==
    LET a == call[c]
        m == Head(a.mods)
        kept == Len(SelectSeq(a.found, LAMBDA s : s[1] = m))
    IN
    /\ a.pc = "slot" /\ (a.slots = <<>> \/ (a.op = "tokens" /\ a.one /\ a.found # <<>>))
    /\ Drop(m, Len(a.made) - kept)
    /\ Continue(c, [a EXCEPT !.pc = "module", !.mods = Tail(@), !.made = <<>>, !.slots = <<>>])

\* The application gets the slots; it drops the ones it has already, which are
\* equal (gck_slot_equal).
ReceiveSlots(c) ==
    LET found == Range(call[c].found)
        twice == found \cap held.slots
    IN
    /\ call[c].pc = "done"
    /\ held' = [held EXCEPT !.slots = @ \cup found]
    /\ module' = [m \in Module |-> [module[m] EXCEPT !.refs =
                     @ - Cardinality({s \in twice : s[1] = m})]]
    /\ call' = [call EXCEPT ![c] = Idle]
    /\ UNCHANGED <<inits, token, budget>>

-----------------------------------------------------------------------------
(* What is asked of a slot.                                                *)

\* gck_slot_get_mechanisms, gck_slot_get_token_info, gck_slot_get_info,
\* gck_slot_has_flags, gck_slot_token_has_flags and gck_slot_match take a
\* reference to the module for the call.
BeginSlot(c, s, pc) ==
    /\ call[c].pc = "idle" /\ s \in held.slots /\ Spend
    /\ module' = [module EXCEPT ![s[1]].refs = @ + 1]
    /\ call' = [call EXCEPT ![c] = [Idle EXCEPT !.pc = pc, !.op = "slot", !.mods = <<s[1]>>,
                                                !.slots = <<s[2]>>]]
    /\ UNCHANGED <<inits, token, held>>

TokenOf(c) == token[module[call[c].mods[1]].funcs][call[c].slots[1]]

\* gck_slot_get_token_info and the others that ask once.
TokenInfo(c) ==
    /\ call[c].pc = "info"
    /\ Continue(c, [call[c] EXCEPT !.pc = "told", !.found = TokenOf(c)])
    /\ UNCHANGED <<inits, module>>

\* gck_slot_get_info: of the slot, with or without a token.
SlotInfo(c) ==
    /\ call[c].pc = "slotinfo"
    /\ Continue(c, [call[c] EXCEPT !.pc = "told", !.found = FromChars(Name[module[call[c].mods[1]].funcs])])
    /\ UNCHANGED <<inits, module>>

\* gck_slot_get_mechanism_info: of a mechanism that the token may not have any more.
MechanismInfo(c) ==
    LET t == TokenOf(c) IN
    /\ call[c].pc = "mechinfo"
    /\ Continue(c, [call[c] EXCEPT !.pc = "told", !.found = IF t = <<>> THEN <<>> ELSE IF Mechs[t[1]] = 0 THEN <<>> ELSE t])
    /\ UNCHANGED <<inits, module>>

MechanismCount(c) ==
    LET t == TokenOf(c) IN
    /\ call[c].pc = "mechanisms"
    /\ Continue(c, IF t = <<>> THEN [call[c] EXCEPT !.pc = "told"]
                   ELSE [call[c] EXCEPT !.pc = "mechlist", !.count = Mechs[t[1]]])
    /\ UNCHANGED <<inits, module>>

\* With no mechanism to make room for, the list is NULL and the second call
\* counts again: what it counts is read from a list that is not there.
MechanismList(c) ==
    LET t == TokenOf(c)
        bad == t = <<>> \/ (call[c].count > 0 /\ Mechs[t[1]] > call[c].count)
    IN
    /\ call[c].pc = "mechlist"
    /\ Continue(c, [call[c] EXCEPT !.pc = "told",
          !.found = IF bad \/ Mechs[t[1]] = 0 THEN <<>>
                    ELSE IF call[c].count = 0 THEN <<"null">> ELSE t])
    /\ UNCHANGED <<inits, module>>

EndSlot(c) ==
    /\ call[c].pc = "told"
    /\ Drop(call[c].mods[1], 1)
    /\ call' = [call EXCEPT ![c] = Idle]
    /\ UNCHANGED <<token, held, budget>>

-----------------------------------------------------------------------------
Next ==
    \/ \E c \in Caller :
          \/ \E f \in Funcs : Initialize(c, f)
          \/ InitializeRegistered(c) \/ Receive(c) \/ Forget(c)
          \/ \E ms \in SUBSET Module :
                \/ BeginList(c, ms, "slots", 0, FALSE)
                \/ \E uri \in Uri, one \in BOOLEAN :
                      BeginList(c, ms, "tokens", ParseUri(uri), one)
          \/ NextModule(c) \/ CountSlots(c) \/ ListSlots(c) \/ NextSlot(c) \/ EndSlots(c)
          \/ ReceiveSlots(c)
          \/ \E s \in held.slots, pc \in {"info", "slotinfo", "mechinfo", "mechanisms"} : BeginSlot(c, s, pc)
          \/ TokenInfo(c) \/ SlotInfo(c) \/ MechanismInfo(c) \/ MechanismCount(c) \/ MechanismList(c) \/ EndSlot(c)
    \/ \E m \in Module : UnrefModule(m)
    \/ \E s \in held.slots : UnrefSlot(s)
    \/ \E f \in Funcs, id \in SlotId, l \in {<<>>} \cup {<<x>> : x \in Label} : Change(f, id, l)

Spec == Init /\ [][Next]_vars

-----------------------------------------------------------------------------
(* Properties.                                                             *)

\* p11-kit has a function list initialized as often as there are module objects
\* for it that somebody has, and whoever is about to call a module, directly or
\* through one of its slots, has one that is not finalized: whatever is
\* cancelled, forgotten or let go in the meantime.
ModulesAlive ==
    /\ \A f \in Funcs : inits[f] = Cardinality({m \in Module : Live(m) /\ module[m].funcs = f})
    /\ \A c \in Caller :
          call[c].pc \in {"count", "list", "slot", "info", "slotinfo", "mechinfo", "mechanisms", "mechlist"} =>
              inits[module[call[c].mods[1]].funcs] > 0 /\ Live(call[c].mods[1])
    /\ \A s \in held.slots : Live(s[1])

\* The tokens that a lookup ought to find: blanks at the end of a label, and what
\* the URI does not say, make no difference.
Same(want, field) ==
    want = <<>> \/ ToChars(want, Len(field)) = ToChars(FromChars(field), Len(field))
Matching(c) ==
    {s \in call[c].all \X SlotId :
        LET f == module[s[1]].funcs
        IN  /\ ~call[c].uri.unrecognized /\ Same(call[c].uri.module, Name[f])
            /\ token[f][s[2]] # <<>> /\ Same(call[c].uri.token, token[f][s[2]][1])}

\* A lookup of tokens during which none comes or goes finds exactly those that
\* match, or one of them when one is asked for.
TokensFound ==
    \A c \in Caller :
        (call[c].pc = "done" /\ call[c].op = "tokens" /\ call[c].quiet) =>
            IF call[c].one
            THEN Len(call[c].found) = Min({1, Cardinality(Matching(c))})
                 /\ Range(call[c].found) \subseteq Matching(c)
            ELSE Range(call[c].found) = Matching(c)

\* What a token and a module say of themselves survives the way into the structures
\* of the library and back, but for what blanks and NULs stand for, and a URI that is
\* built from what was parsed says the same.
InfosKept ==
    /\ \A label \in Label, name \in Range(Name), clock \in BOOLEAN :
         LET text == [label |-> label, model |-> name]
             info == [text |-> text, numbers |-> 7, clock |-> clock, time |-> [i \in 1..14 |-> i % 10]]
             mine == TokenInfoFrom(info)
             module_info == ModuleInfoFrom([text |-> text, numbers |-> 7])
         IN  /\ TokenInfoFrom(TokenInfoTo(mine, Len(label))) = mine
             /\ clock => TokenInfoTo(mine, Len(label)).time = info.time
             /\ ModuleInfoFrom(ModuleInfoTo(module_info, Len(label))) = module_info
    /\ \A uri \in Uri :
         LET data == ParseUri(uri)
             size == Len(uri.token)
         IN  /\ ParseUri(BuildUri(data, {"module", "token"}, size)) = [data EXCEPT !.unrecognized = FALSE]
             /\ ParseUri(BuildUri(data, {}, size)).token = <<>>
=============================================================================
