----------------------------- MODULE MCGckLibrary -----------------------------
(***************************************************************************)
(* Four parts of the gck library, one at a time: calls on one session of a  *)
(* token, calls on its objects, the memory behind attributes, and modules   *)
(* and slots.                                                               *)
(***************************************************************************)
EXTENDS GckSession, Sequences, TLC

VARIABLES part,
    tok, objectCall, cache, seen, calls,
    blockRefs, data, secure, builder, attrs, single, ops,
    inits, slots, module, held, caller, budget

At == INSTANCE GckMock

Objects == (2 :> <<At!Attr("value", At!Value(1, 5)), At!Attr("label", At!Value(2, 6))>>)

O == INSTANCE GckObjects WITH
    call <- objectCall, Call <- {1, 2}, Objects <- Objects, Wanted <- {<<"value", "id">>},
    Template <- {<<>>, <<At!Boolean("token", TRUE)>>},
    Change <- {<<At!Attr("value", At!Value(2, 9))>>,
               <<At!Attr("value", At!Null), At!Attr("id", At!Value(1, 4))>>},
    Pin <- {1, 2}, MaxId <- 104, MaxCalls <- 3

A == INSTANCE GckAttributes WITH
    refs <- blockRefs, Type <- {"value", "label"}, Secret <- {11}, Plain <- {12}, Block <- {1, 2},
    Builder <- {"b1", "b2"}, Attrs <- {"a1"}, Single <- {"s1"}, MaxLen <- 2, MaxOps <- 4

Long == <<"a", "b">>
Short == <<"a", " ">>
Every == <<"NUL", "NUL">>
U(unrecognized, m, t) == [unrecognized |-> unrecognized, module |-> m, token |-> t]

M == INSTANCE GckModules WITH
    token <- slots, call <- caller, Funcs <- {"f", "g"}, Module <- {1, 2}, SlotId <- {1, 2}, Caller <- {1},
    Label <- {Long, Short},
    Tokens <- ("f" :> <<<<Long>>, <<Short>>>>) @@ ("g" :> <<<<>>, <<Short>>>>),
    Name <- ("f" :> <<"x", " ">>) @@ ("g" :> <<"x", "y">>),
    Mechs <- (Long :> 0) @@ (Short :> 1),
    Uri <- {U(FALSE, Every, Short), U(FALSE, <<"x", " ">>, Every), U(TRUE, Every, Every)},
    MaxChanges <- 1, MaxCalls <- 3

svars == vars
ovars == <<tok, objectCall, cache, seen, calls>>
avars == <<blockRefs, data, secure, builder, attrs, single, ops>>
mvars == <<inits, slots, module, held, caller, budget>>

LibraryInit ==
    /\ part \in {"sessions", "objects", "attributes", "modules"}
    /\ Init /\ O!Init /\ A!Init /\ M!Init
    /\ part = "sessions" \/ refusing
    /\ part = "attributes" \/ \A b \in DOMAIN builder : ~builder[b].secure

LibraryNext ==
    \/ part = "sessions" /\ Next /\ UNCHANGED <<part, ovars, avars, mvars>>
    \/ part = "objects" /\ O!Next /\ UNCHANGED <<part, svars, avars, mvars>>
    \/ part = "attributes" /\ A!Next /\ UNCHANGED <<part, svars, ovars, mvars>>
    \/ part = "modules" /\ M!Next /\ UNCHANGED <<part, svars, ovars, avars>>

LibrarySpec == LibraryInit /\ [][LibraryNext]_<<part, svars, ovars, avars, mvars>>

\* A value that is read is one that the object had while the call ran
\* (src/gck/gck-object.c, perform_get_attributes), a lookup in the cache has what
\* was asked for (src/gck/gck-object-cache.c, gck_object_cache_lookup), and the
\* readers of attributes agree on every object (src/gck/gck-attributes.c).
ObjectsTrue ==
    part = "objects" => /\ O!AnswersTrue /\ O!LookupComplete
                        /\ \A o \in DOMAIN tok.objects : At!ReadersAgree(tok.objects[o])

\* Value blocks are counted right, and data from secure memory stays there
\* (src/gck/gck-attributes.c, value_ref and value_unref).
ValuesCounted == part = "attributes" => A!ValuesCounted /\ A!SecretsSecure

\* A GckAttributes does not change (src/gck/gck-attributes.c).
Immutable == A!Immutable

\* Modules are finalized once and not before their last use (src/gck/gck-module.c,
\* gck_module_dispose), lookups of tokens find those that match
\* (src/gck/gck-modules.c, tokens_for_uri), and what is told of modules and tokens is
\* kept on the way (src/gck/gck-slot.c, _gck_token_info_from_pkcs11).
ModulesServe == part = "modules" => M!ModulesAlive /\ M!TokensFound /\ M!InfosKept
=============================================================================
