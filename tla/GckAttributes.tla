---------------------------- MODULE GckAttributes ----------------------------
(***************************************************************************)
(* The memory behind GckBuilder, GckAttributes and GckAttribute,            *)
(* src/gck/gck-attributes.c.  Values are counted blocks that attributes     *)
(* share: copying an attribute takes a reference, and ending a builder      *)
(* hands its array over.                                                    *)
(***************************************************************************)
EXTENDS Integers, Sequences, FiniteSets, FiniteSetsExt, SequencesExt

CONSTANTS
    Type,        \* attribute types
    Secret,      \* data that the application has in secure memory
    Plain,       \* other data
    Block,       \* bound: value blocks
    Builder, Attrs, Single,   \* the GckBuilders, GckAttributes and GckAttributes that are used
    MaxLen,      \* bound: attributes of a builder
    MaxOps       \* bound: calls that are made

NoValue == 0      \* a NULL value
Data == Secret \cup Plain

VARIABLES
    refs,        \* the references of each value block
    data,        \* what it holds
    secure,      \* whether it is in secure memory
    builder,     \* whether each builder is secure, and its array
    attrs,       \* the references and the array of each GckAttributes
    single,      \* the attributes that stand alone, as a sequence of one or none
    ops          \* the calls that were made

heap == <<refs, data, secure>>
vars == <<heap, builder, attrs, single, ops>>

Init ==
    /\ refs = [v \in Block |-> 0]
    /\ data = [v \in Block |-> NoValue]
    /\ secure = [v \in Block |-> FALSE]
    /\ builder \in [Builder -> [secure : BOOLEAN, array : {<<>>}]]
    /\ attrs = [a \in Attrs |-> [refs |-> 0, array |-> <<>>]]
    /\ single = [s \in Single |-> <<>>]
    /\ ops = 0

-----------------------------------------------------------------------------
(* Value blocks.                                                           *)

Entry(t, v, invalid) == [type |-> t, value |-> v, invalid |-> invalid]

\* How often an array refers to a block.
Uses(array, v) == Cardinality({i \in DOMAIN array : array[i].value = v})

Fresh == CHOOSE v \in Block : refs[v] = 0
Room == \E v \in Block : refs[v] = 0

\* value_ref on every value of one array, value_unref on those of another: the
\* last reference frees the block.
Count(gained, lost) ==
    /\ refs' = [v \in Block |-> refs[v] + Uses(gained, v) - Uses(lost, v)]
    /\ data' = [v \in Block |-> IF refs'[v] = 0 THEN NoValue ELSE data[v]]
    /\ secure' = [v \in Block |-> refs'[v] # 0 /\ secure[v]]

\* value_new, value_take, value_blank: a block that holds d, with one reference.
NewValue(d, safe, lost) ==
    /\ refs' = [v \in Block |-> IF v = Fresh THEN 1 ELSE refs[v] - Uses(lost, v)]
    /\ data' = [v \in Block |-> IF v = Fresh THEN d ELSE IF refs'[v] = 0 THEN NoValue ELSE data[v]]
    /\ secure' = [v \in Block |-> IF v = Fresh THEN safe ELSE refs'[v] # 0 /\ secure[v]]

-----------------------------------------------------------------------------
(* GckBuilder.                                                             *)

\* find_attribute: the first of the type.
Where(array, t) == {i \in DOMAIN array : array[i].type = t}

\* builder_clear_or_push: where the entry goes, and what it replaces.
Place(array, e) ==
    IF Where(array, e.type) = {} THEN Append(array, e)
    ELSE [array EXCEPT ![Min(Where(array, e.type))] = e]
Replaced(array, t) ==
    IF Where(array, t) = {} THEN <<>> ELSE <<array[Min(Where(array, t))]>>

Push(b, e) == builder' = [builder EXCEPT ![b].array = Append(@, e)]
Put(b, e) == builder' = [builder EXCEPT ![b].array = Place(@, e)]

\* gck_builder_add_data with its variants for numbers, booleans, dates and
\* strings: secure if the builder or the data is.
AddData(b, t, d) ==
    /\ Len(builder[b].array) < MaxLen /\ Room
    /\ NewValue(d, builder[b].secure \/ d \in Secret, <<>>)
    /\ Push(b, Entry(t, Fresh, FALSE))
    /\ UNCHANGED <<attrs, single>>

\* gck_builder_take_data: the value stays where it lies.
TakeData(b, t, d) ==
    /\ Len(builder[b].array) < MaxLen /\ Room
    /\ NewValue(d, d \in Secret, <<>>)
    /\ Push(b, Entry(t, Fresh, FALSE))
    /\ UNCHANGED <<attrs, single>>

\* gck_builder_set_data and its variants.
SetData(b, t, d) ==
    /\ Len(builder[b].array) < MaxLen /\ Room
    /\ NewValue(d, builder[b].secure \/ d \in Secret, Replaced(builder[b].array, t))
    /\ Put(b, Entry(t, Fresh, FALSE))
    /\ UNCHANGED <<attrs, single>>

\* gck_builder_add_empty, gck_builder_add_invalid.
AddNone(b, t, invalid) ==
    /\ Len(builder[b].array) < MaxLen
    /\ Push(b, Entry(t, NoValue, invalid))
    /\ UNCHANGED <<heap, attrs, single>>

\* gck_builder_set_empty, gck_builder_set_invalid.
SetNone(b, t, invalid) ==
    /\ Len(builder[b].array) < MaxLen
    /\ Put(b, Entry(t, NoValue, invalid))
    /\ Count(<<>>, Replaced(builder[b].array, t))
    /\ UNCHANGED <<attrs, single>>

\* gck_builder_add_attribute: the value is shared.
AddAttribute(b, s) ==
    /\ Len(builder[b].array) < MaxLen /\ single[s] # <<>>
    /\ Push(b, single[s][1])
    /\ Count(single[s], <<>>)
    /\ UNCHANGED <<attrs, single>>

\* gck_builder_add_all, gck_builder_add_onlyv, gck_builder_add_exceptv.
AddSome(b, a, types) ==
    LET some == SelectSeq(attrs[a].array, LAMBDA e : e.type \in types) IN
    /\ attrs[a].refs > 0 /\ Len(builder[b].array) + Len(some) <= MaxLen
    /\ builder' = [builder EXCEPT ![b].array = @ \o some]
    /\ Count(some, <<>>)
    /\ UNCHANGED <<attrs, single>>

\* gck_builder_set_all: builder_copy in the place of what has the type, also of
\* an entry of the same call.
SetAll(b, a) ==
    LET more == attrs[a].array
        lost == FoldLeft(LAMBDA acc, e : [array |-> Place(acc.array, e),
                                          lost |-> acc.lost \o Replaced(acc.array, e.type)],
                         [array |-> builder[b].array, lost |-> <<>>], more)
    IN
    /\ attrs[a].refs > 0 /\ Len(lost.array) <= MaxLen
    /\ builder' = [builder EXCEPT ![b].array = lost.array]
    /\ Count(more, lost.lost)
    /\ UNCHANGED <<attrs, single>>

\* gck_builder_copy.
BuilderCopy(b, from) ==
    /\ b # from /\ builder[b].array = <<>>
    /\ builder' = [builder EXCEPT ![b] = builder[from]]
    /\ Count(builder[from].array, <<>>)
    /\ UNCHANGED <<attrs, single>>

\* Mutant: the builder keeps its array.
EndKeeping(b, a) ==
    /\ attrs[a].refs = 0
    /\ attrs' = [attrs EXCEPT ![a] = [refs |-> 1, array |-> builder[b].array]]
    /\ UNCHANGED <<heap, builder, single>>

\* gck_builder_end: the array is handed over.
End(b, a) ==
    /\ attrs[a].refs = 0
    /\ attrs' = [attrs EXCEPT ![a] = [refs |-> 1, array |-> builder[b].array]]
    /\ builder' = [builder EXCEPT ![b].array = <<>>]
    /\ UNCHANGED <<heap, single>>

\* gck_builder_clear, and gck_builder_unref with the last reference.
Clear(b) ==
    /\ builder[b].array # <<>>
    /\ Count(<<>>, builder[b].array)
    /\ builder' = [builder EXCEPT ![b].array = <<>>]
    /\ UNCHANGED <<attrs, single>>

\* Mutant: _gck_builder_prepare_in leaves the values where they are, and the
\* module writes over them.
FetchInPlace(b, d) ==
    /\ builder[b].array # <<>> /\ d \in Plain
    /\ data' = [v \in Block |-> IF Uses(builder[b].array, v) > 0 THEN d ELSE data[v]]
    /\ UNCHANGED <<refs, secure, builder, attrs, single>>

\* _gck_builder_prepare_in and _gck_builder_commit_in around the two calls of
\* C_GetAttributeValue: the first entry gets a block of its own with what the
\* module writes, the others turn out to be missing.
Fetch(b, d) ==
    LET old == builder[b].array IN
    /\ old # <<>> /\ d \in Plain /\ Room
    /\ NewValue(d, builder[b].secure, old)
    /\ builder' = [builder EXCEPT ![b].array =
          [i \in DOMAIN old |-> Entry(old[i].type, IF i = 1 THEN Fresh ELSE NoValue, i # 1)]]
    /\ UNCHANGED <<attrs, single>>

-----------------------------------------------------------------------------
(* GckAttributes and GckAttribute.                                         *)

Ref(a) ==
    /\ attrs[a].refs \in {1, 2}
    /\ attrs' = [attrs EXCEPT ![a].refs = @ + 1]
    /\ UNCHANGED <<heap, builder, single>>

\* gck_attributes_unref: the values go with the last reference.
Unref(a) ==
    /\ attrs[a].refs > 0
    /\ IF attrs[a].refs = 1
       THEN /\ attrs' = [attrs EXCEPT ![a] = [refs |-> 0, array |-> <<>>]]
            /\ Count(<<>>, attrs[a].array)
       ELSE attrs' = [attrs EXCEPT ![a].refs = @ - 1] /\ UNCHANGED heap
    /\ UNCHANGED <<builder, single>>

\* gck_attribute_init and gck_attribute_new with their variants.
NewAttribute(s, t, d) ==
    /\ single[s] = <<>> /\ Room
    /\ NewValue(d, d \in Secret, <<>>)
    /\ single' = [single EXCEPT ![s] = <<Entry(t, Fresh, FALSE)>>]
    /\ UNCHANGED <<builder, attrs>>

\* gck_attribute_dup and gck_attribute_init_copy of one of an array.
Dup(s, a, i) ==
    /\ single[s] = <<>> /\ i \in DOMAIN attrs[a].array
    /\ single' = [single EXCEPT ![s] = <<attrs[a].array[i]>>]
    /\ Count(single'[s], <<>>)
    /\ UNCHANGED <<builder, attrs>>

\* gck_attribute_clear and gck_attribute_free.
Free(s) ==
    /\ single[s] # <<>>
    /\ Count(<<>>, single[s])
    /\ single' = [single EXCEPT ![s] = <<>>]
    /\ UNCHANGED <<builder, attrs>>

-----------------------------------------------------------------------------
Operation ==
    \/ \E b \in Builder, t \in Type :
          \/ \E d \in Data : AddData(b, t, d) \/ TakeData(b, t, d) \/ SetData(b, t, d)
          \/ \E invalid \in BOOLEAN : AddNone(b, t, invalid) \/ SetNone(b, t, invalid)
    \/ \E b \in Builder, a \in Attrs :
          \/ \E types \in SUBSET Type : AddSome(b, a, types)
          \/ SetAll(b, a) \/ End(b, a)
    \/ \E b \in Builder :
          \/ \E s \in Single : AddAttribute(b, s)
          \/ \E from \in Builder : BuilderCopy(b, from)
          \/ \E d \in Plain : Fetch(b, d)
          \/ Clear(b)
    \/ \E a \in Attrs : Ref(a) \/ Unref(a)
    \/ \E s \in Single :
          \/ \E t \in Type, d \in Data : NewAttribute(s, t, d)
          \/ \E a \in Attrs, i \in 1..MaxLen : Dup(s, a, i)
          \/ Free(s)

Next == ops < MaxOps /\ ops' = ops + 1 /\ Operation

Spec == Init /\ [][Next]_vars

-----------------------------------------------------------------------------
(* Properties.                                                             *)

\* A block has as many references as attributes that point at it: nothing is
\* freed that is used, and nothing is left behind.
ValuesCounted ==
    \A v \in Block :
        refs[v] = FoldFunction(+, 0, [b \in Builder |-> Uses(builder[b].array, v)])
                + FoldFunction(+, 0, [a \in Attrs |-> Uses(attrs[a].array, v)])
                + FoldFunction(+, 0, [s \in Single |-> Uses(single[s], v)])

\* Data that the application has in secure memory is copied to secure memory
\* only, through builders of either kind.
SecretsSecure == \A v \in Block : data[v] \in Secret => secure[v]

\* What a GckAttributes holds, as its readers see it.
Seen(a) == [i \in DOMAIN attrs[a].array |->
               LET e == attrs[a].array[i]
               IN  <<e.type, e.invalid, IF e.value = NoValue THEN NoValue ELSE data[e.value]>>]

\* A GckAttributes that is referenced never changes, although its values are
\* shared with builders that set, clear and fetch theirs.
Immutable ==
    [][\A a \in Attrs : attrs[a].refs > 0 /\ attrs'[a].refs > 0 => Seen(a)' = Seen(a)]_vars
=============================================================================
