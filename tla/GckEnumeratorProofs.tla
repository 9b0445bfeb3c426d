------------------------- MODULE GckEnumeratorProofs -------------------------
(***************************************************************************)
(* Proofs about GckEnumerator: EnumerationSound is an invariant, for any    *)
(* enumerators, callers, sessions and tokens.                               *)
(*                                                                          *)
(* The inductive invariant has two parts.  Control is about the callers: the*)
(* states a caller has taken form a chain that its own call began with, and *)
(* nobody else has them.  Data is about the walks: which results there are and*)
(* where, and that the references of a session count the walks, the results *)
(* and the objects handed out.                                              *)
(***************************************************************************)
EXTENDS GckEnumerator, FiniteSetTheorems, SequenceTheorems, TLAPS

\* The values a walk and the record of a call may have.
WalkState == [handler : Handler, modules : Seq(Seq(Slot)), slots : Seq(Slot),
              slot : Slot \cup {None}, session : Session \cup {None}, found : Seq(Result)]

JobState == [top : Enumerator \cup {None}, want : Nat, count : Nat,
             ran : SUBSET Enumerator, short : BOOLEAN]

Label == {"idle", "chain", "claim", "extract", "perform", "run", "done", "deliver", "checkin"}
\* A caller in these states works on an enumerator's state.
Working == {"extract", "perform", "run", "done", "deliver"}
\* A walk in these states has a session.
Holding == {"session", "find", "results"}

\* The types, by what the steps change together.
SharedType ==
    /\ alive \in [Enumerator -> BOOLEAN]
    /\ chained \in [Enumerator -> Enumerator \cup {None}]
    /\ owner \in [Enumerator -> Caller \cup {None}]
    /\ link \in [Enumerator -> Enumerator \cup {None}]

ControlType ==
    /\ pc \in [Caller -> Label]
    /\ path \in [Caller -> Seq(Enumerator)]
    /\ carry \in [Caller -> Enumerator \cup {None}]
    /\ at \in [Caller -> Enumerator \cup {None}]
    /\ job \in [Caller -> JobState]

DataType ==
    /\ walk \in [Enumerator -> WalkState]
    /\ results \in [Enumerator -> Seq(Result)]
    /\ refs \in [Session -> Nat]
    /\ holding \subseteq Enumerator \X Result
    /\ IsFiniteSet(holding)

\* A state that is taken belongs to an enumerator that is there, its chain to the
\* same caller, and no two states are chained to the same one.
Bonds ==
    /\ \A e \in Enumerator : owner[e] # None => alive[e]
    /\ \A e \in Enumerator : chained[e] # None => alive[chained[e]]
    /\ \A e \in Enumerator : link[e] # None => owner[e] # None /\ owner[link[e]] = owner[e]
    /\ \A e, x \in Enumerator : link[e] # None /\ link[e] = link[x] => e = x

\* No state is chained to this one.
Unlinked(e) == \A x \in Enumerator : link[x] # e

\* The enumerators a call still has to take states from, ending with its own, and
\* the state it has taken last.
Route(c) ==
    /\ \A i \in DOMAIN path[c] : alive[path[c][i]]
    /\ pc[c] \in {"chain", "claim"} => path[c] # <<>> /\ path[c][1] = job[c].top
    /\ carry[c] # None => pc[c] = "claim" /\ owner[carry[c]] = c /\ Unlinked(carry[c])

\* The state a caller works on is its own, as is the one its call began with.
Work(c) ==
    /\ pc[c] \in Working =>
          /\ job[c].top # None /\ owner[job[c].top] = c /\ Unlinked(job[c].top)
          /\ at[c] # None /\ owner[at[c]] = c
          /\ pc[c] \in {"perform", "done"} => at[c] = job[c].top
    /\ pc[c] = "checkin" => at[c] # None /\ owner[at[c]] = c /\ Unlinked(at[c])

\* A walk runs only while more objects are wanted than it has come up with.
Counts(c) ==
    /\ pc[c] \in {"chain", "claim", "extract", "perform"} => job[c].count = 0
    /\ pc[c] \in {"chain", "claim", "perform"} => job[c].want > 0
    /\ pc[c] = "run" => job[c].count < job[c].want

\* A walk has a session exactly when it searches or reads, and its results are of
\* that session.
WalkSound(w) ==
    /\ w.handler \in {"slot", "session", "find"} => w.slot # None
    /\ w.session # None <=> w.handler \in Holding
    /\ w.handler # "results" => w.found = <<>>
    /\ \A r \in Entries(w.found) : r.session = w.session

\* Before the search nothing of the session has been found.
Fresh(e) ==
    walk[e].handler \in {"session", "find"} =>
        /\ \A r \in Entries(results[e]) : r.session # walk[e].session
        /\ \A h \in holding : h[1] = e => h[2].session # walk[e].session

-----------------------------------------------------------------------------
(* The callers.                                                            *)

\* Who has what: the part of the invariant about the callers.
Control ==
    /\ SharedType /\ ControlType
    /\ Bonds
    /\ \A c \in Caller : Route(c) /\ Work(c) /\ Counts(c)

\* None is nobody and nothing.
LEMMA NoneIsNot == /\ None \notin Enumerator /\ None \notin Caller
                   /\ None \notin Session /\ None \notin Slot
  BY NoneAssumption

\* A caller that works on a state goes on with one it has taken, in the same call.
Moves(c, l, a, j) ==
    /\ pc[c] \in Working /\ l \in Working \cup {"checkin"}
    /\ a \in Enumerator /\ j \in JobState
    /\ UNCHANGED <<shared, path, carry>>
    /\ pc' = [pc EXCEPT ![c] = l] /\ at' = [at EXCEPT ![c] = a] /\ job' = [job EXCEPT ![c] = j]
    /\ j.top = job[c].top /\ owner[a] = c
    /\ l = "checkin" => Unlinked(a)
    /\ l \in {"perform", "done"} => a = j.top
    /\ l \in {"extract", "perform"} => j.count = 0
    /\ l = "perform" => j.want > 0
    /\ l = "run" => j.count < j.want

\* Such a step keeps the invariant of the callers.
LEMMA WorkMoves ==
    ASSUME Control, NEW c \in Caller, NEW l, NEW a, NEW j, Moves(c, l, a, j)
    PROVE  Control'
<1> USE DEF Moves
<1>1. /\ SharedType' /\ Bonds'
  BY DEF Control, SharedType, Bonds, shared
<1>2. ControlType'
  BY DEF Control, ControlType, Label, Working
<1>3. ASSUME NEW d \in Caller, d # c PROVE (Route(d) /\ Work(d) /\ Counts(d))'
  <2>1. pc'[d] = pc[d] /\ at'[d] = at[d] /\ job'[d] = job[d] /\ path'[d] = path[d] /\ carry'[d] = carry[d]
    BY <1>3 DEF Control, ControlType
  <2>2. Route(d) /\ Work(d) /\ Counts(d)
    BY DEF Control
  <2> QED BY <2>1, <2>2 DEF Route, Work, Counts, Unlinked, shared
<1>4. pc'[c] = l /\ at'[c] = a /\ job'[c] = j /\ path'[c] = path[c] /\ carry'[c] = carry[c]
  BY DEF Control, ControlType
<1>5. Route(c) /\ Work(c) /\ Counts(c)
  BY DEF Control
<1>6. l \notin {"chain", "claim"} /\ carry[c] = None
  BY <1>5 DEF Route, Working
<1>7. Route(c)'
  BY <1>4, <1>5, <1>6 DEF Route, shared
<1>8. Work(c)'
  BY <1>4, <1>5, NoneIsNot DEF Work, Unlinked, shared, Working
<1>9. Counts(c)'
  BY <1>4, <1>6 DEF Counts
<1> QED BY <1>1, <1>2, <1>3, <1>7, <1>8, <1>9 DEF Control

\* The handler has returned NULL: the walk goes on in the chained state, or stops.
LEMMA StopControl ==
    ASSUME Control, NEW c \in Caller, pc[c] = "run", NEW kept, Len(kept) \in Nat, NEW bad,
           Stop(c, kept, bad), UNCHANGED <<shared, path, carry>>
    PROVE  Control'
<1> DEFINE j == job[c]
<1> DEFINE e == at[c]
<1> DEFINE n == j.count + Len(kept)
<1> DEFINE k == Job(j.top, j.want, n, j.ran \cup {e}, j.short \/ bad # {})
<1>1. j \in JobState /\ e \in Enumerator \cup {None} /\ pc \in [Caller -> Label] /\ Route(c) /\ Work(c)
      /\ link \in [Enumerator -> Enumerator \cup {None}]
  BY DEF Control, ControlType, SharedType
<1>2. e \in Enumerator /\ owner[e] = c /\ j.top \in Enumerator /\ owner[j.top] = c /\ pc[c] \in Working
  BY <1>1 DEF Work, Working, JobState
<1>3. n \in Nat
  BY <1>1 DEF JobState
<1>4. k \in JobState /\ k.top = j.top /\ k.want = j.want /\ k.count = n
  BY <1>1, <1>2, <1>3 DEF JobState, Job
<1>5. job' = [job EXCEPT ![c] = k]
  BY DEF Stop
<1>6. CASE n >= j.want \/ link[e] = None
  <2>1. pc' = [pc EXCEPT ![c] = "done"] /\ at' = [at EXCEPT ![c] = j.top]
    BY <1>6 DEF Stop, Goto, SetAt
  <2>2. "done" \in Working \cup {"checkin"}
    BY DEF Working
  <2> HIDE DEF k, n
  <2>3. Moves(c, "done", j.top, k)
    BY <1>2, <1>4, <1>5, <2>1, <2>2 DEF Moves
  <2> QED BY <2>3, WorkMoves
<1>7. CASE ~(n >= j.want \/ link[e] = None)
  <2>1. UNCHANGED pc /\ at' = [at EXCEPT ![c] = link[e]]
    BY <1>7 DEF Stop, SetAt
  <2>2. "run" \in Working \cup {"checkin"} /\ pc' = [pc EXCEPT ![c] = "run"]
    BY <1>1, <2>1 DEF Working
  <2>3. link[e] \in Enumerator /\ owner[link[e]] = c
    BY <1>1, <1>2, <1>7, NoneIsNot DEF Control, Bonds
  <2>4. k.count < k.want
    BY <1>1, <1>3, <1>4, <1>7 DEF JobState
  <2> HIDE DEF k, n
  <2>5. Moves(c, "run", link[e], k)
    BY <1>2, <1>4, <1>5, <2>1, <2>2, <2>3, <2>4 DEF Moves
  <2> QED BY <2>5, WorkMoves
<1> QED BY <1>6, <1>7

\* Nothing that the invariant of the callers speaks of changes.
LEMMA ControlStands ==
    ASSUME Control, UNCHANGED <<shared, control, job>>
    PROVE  Control'
  BY DEF Control, SharedType, ControlType, Bonds, Route, Work, Counts, Unlinked, shared, control

\* gck_enumerator_set_chained changes who is chained to whom, not who has what.
LEMMA SetChainedControl ==
    ASSUME Control, NEW e \in Enumerator, NEW x \in Enumerator \cup {None}, SetChained(e, x)
    PROVE  Control'
<1>1. UNCHANGED <<alive, owner, link, control, job>> /\ chained' = [chained EXCEPT ![e] = x]
      /\ (x # None => alive[x])
  BY DEF SetChained
<1>2. SharedType' /\ ControlType'
  BY <1>1 DEF Control, SharedType, ControlType, control
<1>3. Bonds'
  BY <1>1 DEF Control, Bonds, SharedType
<1>4. ASSUME NEW c \in Caller PROVE (Route(c) /\ Work(c) /\ Counts(c))'
  BY <1>1 DEF Control, Route, Work, Counts, Unlinked, control
<1> QED BY <1>2, <1>3, <1>4 DEF Control

\* An enumerator that is finalized is not on any caller's path, nor in its hands.
LEMMA FinalizeControl ==
    ASSUME Control, NEW e \in Enumerator, Finalize(e)
    PROVE  Control'
<1>1. /\ UNCHANGED <<owner, link, control, job>> /\ owner[e] = None
      /\ chained' = [chained EXCEPT ![e] = None] /\ alive' = [alive EXCEPT ![e] = FALSE]
      /\ \A x \in Enumerator : chained[x] # e
      /\ \A c \in Caller : ~Contains(path[c], e)
  BY DEF Finalize
<1>2. SharedType' /\ ControlType'
  BY <1>1 DEF Control, SharedType, ControlType, control
<1>3. Bonds'
  BY <1>1, NoneIsNot DEF Control, Bonds, SharedType
<1>4. ASSUME NEW c \in Caller PROVE (Route(c) /\ Work(c) /\ Counts(c))'
  <2>1. Route(c) /\ Work(c) /\ Counts(c) /\ path[c] \in Seq(Enumerator)
    BY DEF Control, ControlType
  <2>2. \A i \in DOMAIN path[c] : path[c][i] # e /\ path[c][i] \in Enumerator
    BY <1>1, <2>1 DEF Contains
  <2>3. \A i \in DOMAIN path[c] : alive'[path[c][i]]
    BY <1>1, <2>1, <2>2 DEF Route, Control, SharedType
  <2>4. Route(c)'
    BY <1>1, <2>1, <2>3 DEF Route, Unlinked, control
  <2> QED BY <1>1, <2>1, <2>4 DEF Work, Counts, Unlinked, control
<1> QED BY <1>2, <1>3, <1>4 DEF Control

\* A call begins with an enumerator that somebody refers to.
LEMMA BeginControl ==
    ASSUME Control, NEW c \in Caller, NEW e \in Enumerator, NEW want \in Want[c], Begin(c, e, want)
    PROVE  Control'
<1> DEFINE j == Job(e, want, 0, {}, FALSE)
<1>1. /\ pc[c] = "idle" /\ alive[e] /\ UNCHANGED <<shared, carry, at>>
      /\ pc' = [pc EXCEPT ![c] = "chain"]
      /\ path' = [path EXCEPT ![c] = <<e>>]
      /\ job' = [job EXCEPT ![c] = j]
  BY DEF Begin, Goto
<1>2. want \in Nat /\ want > 0
  BY WantAssumption
<1>3. j \in JobState /\ j.top = e /\ j.want = want /\ j.count = 0
  BY <1>2 DEF Job, JobState
<1> HIDE DEF j
<1>4. SharedType' /\ Bonds'
  BY <1>1 DEF Control, SharedType, Bonds, shared
<1>5. ControlType'
  BY <1>1, <1>3 DEF Control, ControlType, Label
<1>6. ASSUME NEW d \in Caller, d # c PROVE (Route(d) /\ Work(d) /\ Counts(d))'
  <2>1. pc'[d] = pc[d] /\ at'[d] = at[d] /\ job'[d] = job[d] /\ path'[d] = path[d] /\ carry'[d] = carry[d]
    BY <1>1, <1>6 DEF Control, ControlType
  <2>2. Route(d) /\ Work(d) /\ Counts(d)
    BY DEF Control
  <2> QED BY <1>1, <2>1, <2>2 DEF Route, Work, Counts, Unlinked, shared
<1>7. pc'[c] = "chain" /\ path'[c] = <<e>> /\ job'[c] = j /\ carry'[c] = carry[c] /\ carry[c] = None
  BY <1>1 DEF Control, ControlType, Route
<1>8. \A i \in DOMAIN path'[c] : alive'[path'[c][i]]
  BY <1>1, <1>7 DEF shared
<1>9. Route(c)'
  BY <1>3, <1>7, <1>8 DEF Route
<1>10. (Work(c) /\ Counts(c))'
  BY <1>2, <1>3, <1>7 DEF Work, Counts, Working
<1> QED BY <1>4, <1>5, <1>6, <1>9, <1>10 DEF Control

\* The chain of enumerators is followed.
LEMMA ChainControl ==
    ASSUME Control, NEW c \in Caller, Chain(c)
    PROVE  Control'
<1> DEFINE p == path[c]
<1> DEFINE x == chained[Last(p)]
<1>1. pc[c] = "chain" /\ UNCHANGED <<shared, carry, at, job>>
  BY DEF Chain
<1>2. Route(c) /\ Work(c) /\ Counts(c) /\ p \in Seq(Enumerator)
  BY DEF Control, ControlType
<1>3. p # <<>> /\ p[1] = job[c].top /\ carry[c] = None /\ job[c].count = 0 /\ job[c].want > 0
  BY <1>1, <1>2 DEF Route, Counts
<1>4. SharedType' /\ Bonds'
  BY <1>1 DEF Control, SharedType, Bonds, shared
<1>5. ASSUME NEW l \in {"chain", "claim"}, NEW q \in Seq(Enumerator), q # <<>>, q[1] = p[1],
             \A i \in DOMAIN q : alive[q[i]],
             pc' = [pc EXCEPT ![c] = l], path' = [path EXCEPT ![c] = q]
      PROVE  Control'
  <2>1. ControlType'
    BY <1>1, <1>5 DEF Control, ControlType, Label
  <2>2. ASSUME NEW d \in Caller, d # c PROVE (Route(d) /\ Work(d) /\ Counts(d))'
    <3>1. pc'[d] = pc[d] /\ at'[d] = at[d] /\ job'[d] = job[d] /\ path'[d] = path[d] /\ carry'[d] = carry[d]
      BY <1>1, <1>5, <2>2 DEF Control, ControlType
    <3>2. Route(d) /\ Work(d) /\ Counts(d)
      BY DEF Control
    <3> QED BY <1>1, <3>1, <3>2 DEF Route, Work, Counts, Unlinked, shared
  <2>3. pc'[c] = l /\ path'[c] = q /\ job'[c] = job[c] /\ carry'[c] = None
    BY <1>1, <1>3, <1>5 DEF Control, ControlType
  <2>4. (Route(c) /\ Work(c) /\ Counts(c))'
    BY <1>1, <1>3, <1>5, <2>3 DEF Route, Work, Counts, Working, shared
  <2> QED BY <1>4, <2>1, <2>2, <2>4 DEF Control
<1>6. CASE x = None
  <2>1. pc' = [pc EXCEPT ![c] = "claim"] /\ path' = [path EXCEPT ![c] = p]
    BY <1>6 DEF Chain, Goto, Control, ControlType
  <2>2. \A i \in DOMAIN p : alive[p[i]]
    BY <1>2 DEF Route
  <2> HIDE DEF p
  <2> QED BY <1>2, <1>3, <1>5, <2>1, <2>2
<1>7. CASE x # None
  <2>1. pc' = [pc EXCEPT ![c] = "chain"] /\ path' = [path EXCEPT ![c] = Append(p, x)]
    BY <1>1, <1>7 DEF Chain, Control, ControlType
  <2>2. Len(p) \in Nat /\ Len(p) > 0 /\ DOMAIN p = 1..Len(p) /\ Last(p) = p[Len(p)]
    BY <1>2, <1>3 DEF Last
  <2>3. Last(p) \in Enumerator
    BY <1>2, <2>2
  <2>4. x \in Enumerator /\ alive[x]
    BY <1>7, <2>3 DEF Control, SharedType, Bonds
  <2>5. Append(p, x) \in Seq(Enumerator) /\ Append(p, x) # <<>> /\ Append(p, x)[1] = p[1]
    BY <1>2, <2>2, <2>4
  <2>6. \A i \in DOMAIN Append(p, x) : alive[Append(p, x)[i]]
    BY <1>2, <2>2, <2>4 DEF Route
  <2> HIDE DEF p, x
  <2> QED BY <1>5, <2>1, <2>5, <2>6
<1> QED BY <1>6, <1>7

\* The path without its last enumerator.
LEMMA FrontOf ==
    ASSUME NEW p \in Seq(Enumerator), p # <<>>
    PROVE  /\ Front(p) \in Seq(Enumerator) /\ Last(p) \in Enumerator
           /\ Len(p) \in Nat /\ Len(p) > 0 /\ Last(p) = p[Len(p)]
           /\ DOMAIN p = 1..Len(p) /\ DOMAIN Front(p) = 1..Len(p) - 1
           /\ \A i \in 1..Len(p) - 1 : Front(p)[i] = p[i]
           /\ Len(p) > 1 => Front(p) # <<>> /\ Front(p)[1] = p[1]
<1>1. Len(p) \in Nat /\ Len(p) > 0 /\ DOMAIN p = 1..Len(p) /\ Front(p) = SubSeq(p, 1, Len(p) - 1)
      /\ Last(p) = p[Len(p)]
  BY DEF Front, Last
<1>2. /\ Front(p) \in Seq(Enumerator) /\ DOMAIN Front(p) = 1..Len(p) - 1
      /\ \A i \in 1..Len(p) - 1 : Front(p)[i] = p[i]
  BY <1>1
<1>3. Last(p) \in Enumerator
  BY <1>1
<1>4. Len(p) > 1 => 1 \in 1..Len(p) - 1
  BY <1>1
<1>5. Len(p) > 1 => Front(p) # <<>> /\ Front(p)[1] = p[1]
  BY <1>2, <1>4
<1> QED BY <1>1, <1>2, <1>3, <1>5

\* check_out_enumerator_state: a state that nobody has is taken, or the call
\* goes on without.
LEMMA ClaimControl ==
    ASSUME Control, NEW c \in Caller, Claim(c)
    PROVE  Control'
<1> SUFFICES ASSUME NEW p, p = path[c], NEW e, e = Last(p), NEW y, y = IF owner[e] = None THEN e ELSE None
             PROVE  Control'
  OBVIOUS
<1>1. pc[c] = "claim" /\ UNCHANGED <<alive, chained>> /\ path' = [path EXCEPT ![c] = Front(p)]
  BY DEF Claim
<1>2. Route(c) /\ Work(c) /\ Counts(c) /\ p \in Seq(Enumerator) /\ carry[c] \in Enumerator \cup {None}
      /\ job[c] \in JobState
  BY DEF Control, ControlType
<1>3. /\ p # <<>> /\ p[1] = job[c].top /\ job[c].count = 0 /\ job[c].want > 0
      /\ carry[c] # None => owner[carry[c]] = c /\ Unlinked(carry[c])
      /\ \A i \in DOMAIN p : alive[p[i]]
  BY <1>1, <1>2 DEF Route, Counts
<1>4. /\ Front(p) \in Seq(Enumerator) /\ e \in Enumerator
      /\ Len(p) \in Nat /\ Len(p) > 0 /\ e = p[Len(p)]
      /\ DOMAIN p = 1..Len(p) /\ DOMAIN Front(p) = 1..Len(p) - 1
      /\ \A i \in 1..Len(p) - 1 : Front(p)[i] = p[i]
      /\ Len(p) > 1 => Front(p) # <<>> /\ Front(p)[1] = p[1]
  BY <1>2, <1>3, FrontOf
<1>5. alive[e] /\ \A i \in DOMAIN Front(p) : alive[Front(p)[i]]
  BY <1>3, <1>4
<1>6. Claimed(c, y)
  BY DEF Claim
<1>7. /\ owner[e] = None => owner' = [owner EXCEPT ![e] = c] /\ link' = [link EXCEPT ![e] = carry[c]]
      /\ owner[e] # None => UNCHANGED <<owner, link>>
  BY DEF Claim
<1>8. SharedType'
  BY <1>1, <1>2, <1>4, <1>7 DEF Control, SharedType
<1>9. owner[e] = None => Unlinked(e)
  <2> SUFFICES ASSUME owner[e] = None, NEW x \in Enumerator, link[x] = e PROVE FALSE
    BY DEF Unlinked
  <2>1. link[x] # None
    BY <1>4, NoneIsNot
  <2> QED BY <2>1 DEF Control, Bonds
<1>10. owner[e] = None /\ carry[c] # None => carry[c] # e
  BY <1>3, NoneIsNot
<1>11. /\ owner[e] = None => Unlinked(e)' /\ owner'[e] = c
       /\ \A x \in Enumerator, d \in Caller : owner[x] = d => owner'[x] = d
       /\ \A x \in Enumerator : Unlinked(x) /\ x # carry[c] => Unlinked(x)'
  <2>1. CASE owner[e] # None
    BY <2>1, <1>7 DEF Unlinked
  <2>2. CASE owner[e] = None
    <3>1. owner' = [owner EXCEPT ![e] = c] /\ link' = [link EXCEPT ![e] = carry[c]] /\ Unlinked(e)
      BY <1>7, <1>9, <2>2
    <3>2. /\ \A x \in Enumerator : owner'[x] = IF x = e THEN c ELSE owner[x]
          /\ \A x \in Enumerator : link'[x] = IF x = e THEN carry[c] ELSE link[x]
      BY <3>1, <1>4 DEF Control, SharedType
    <3> QED BY <1>4, <1>10, <2>2, <3>1, <3>2, NoneIsNot DEF Unlinked
  <2> QED BY <2>1, <2>2
<1>12. Bonds'
  <2>1. CASE owner[e] # None
    BY <1>1, <1>7, <2>1 DEF Control, Bonds
  <2>2. CASE owner[e] = None
    <3>1. owner' = [owner EXCEPT ![e] = c] /\ link' = [link EXCEPT ![e] = carry[c]]
      BY <1>7, <2>2
    <3>2. /\ \A x \in Enumerator : owner'[x] = IF x = e THEN c ELSE owner[x]
          /\ \A x \in Enumerator : link'[x] = IF x = e THEN carry[c] ELSE link[x]
      BY <3>1, <1>4 DEF Control, SharedType
    <3>3. Bonds /\ link \in [Enumerator -> Enumerator \cup {None}] /\ Unlinked(e)
      BY <1>9, <2>2 DEF Control, SharedType
    <3>4. \A x \in Enumerator : owner'[x] # None => alive'[x]
      BY <1>1, <1>5, <3>2, <3>3 DEF Bonds
    <3>5. \A x \in Enumerator : chained'[x] # None => alive'[chained'[x]]
      BY <1>1, <3>3 DEF Bonds
    <3>6. ASSUME NEW x \in Enumerator, link'[x] # None
          PROVE  owner'[x] # None /\ owner'[link'[x]] = owner'[x]
      <4>1. CASE x = e
        BY <1>2, <1>3, <1>10, <2>2, <3>2, <3>6, <4>1, NoneIsNot
      <4>2. CASE x # e
        BY <3>2, <3>3, <3>6, <4>2 DEF Bonds, Unlinked
      <4> QED BY <4>1, <4>2
    <3>7. ASSUME NEW x \in Enumerator, NEW z \in Enumerator, link'[x] # None, link'[x] = link'[z]
          PROVE  x = z
      BY <1>2, <1>3, <3>2, <3>3, <3>7 DEF Bonds, Unlinked
    <3> QED BY <3>4, <3>5, <3>6, <3>7 DEF Bonds
  <2> QED BY <2>1, <2>2
<1>13. /\ at' \in [Caller -> Enumerator \cup {None}] /\ pc' \in [Caller -> Label]
       /\ job' \in [Caller -> JobState] /\ carry' \in [Caller -> Enumerator \cup {None}]
       /\ path' \in [Caller -> Seq(Enumerator)]
       /\ path'[c] = Front(p)
       /\ \A d \in Caller : d # c => /\ pc'[d] = pc[d] /\ at'[d] = at[d] /\ job'[d] = job[d]
                                     /\ path'[d] = path[d] /\ carry'[d] = carry[d]
  <2>1. NoJob \in JobState
    BY DEF NoJob, Job, JobState
  <2>2. y \in Enumerator \cup {None}
    BY <1>4
  <2>3. ControlType
    BY DEF Control
  <2>4. /\ at' \in [Caller -> Enumerator \cup {None}] /\ pc' \in [Caller -> Label]
        /\ \A d \in Caller : d # c => pc'[d] = pc[d] /\ at'[d] = at[d]
    <3>1. CASE UNCHANGED <<pc, at>>
      BY <2>3, <3>1 DEF ControlType
    <3>2. CASE /\ pc' = [pc EXCEPT ![c] = IF c \in Async THEN "perform" ELSE "extract"]
               /\ at' = [at EXCEPT ![c] = y]
      BY <2>2, <2>3, <3>2 DEF ControlType, Label
    <3>3. CASE pc' = [pc EXCEPT ![c] = "idle"] /\ UNCHANGED at
      BY <2>3, <3>3 DEF ControlType, Label
    <3> QED BY <1>6, <3>1, <3>2, <3>3 DEF Claimed, Goto, SetAt
  <2>5. /\ job' \in [Caller -> JobState] /\ carry' \in [Caller -> Enumerator \cup {None}]
        /\ \A d \in Caller : d # c => job'[d] = job[d] /\ carry'[d] = carry[d]
    BY <1>6, <2>1, <2>2, <2>3 DEF Claimed, ControlType
  <2>6. path' \in [Caller -> Seq(Enumerator)] /\ path'[c] = Front(p)
        /\ \A d \in Caller : d # c => path'[d] = path[d]
    BY <1>1, <1>4, <2>3 DEF ControlType
  <2> QED BY <2>4, <2>5, <2>6
<1>14. ControlType'
  BY <1>13 DEF ControlType
<1>15. ASSUME NEW d \in Caller, d # c PROVE (Route(d) /\ Work(d) /\ Counts(d))'
  <2>1. Route(d) /\ Work(d) /\ Counts(d)
    BY DEF Control
  <2>2. pc'[d] = pc[d] /\ at'[d] = at[d] /\ job'[d] = job[d] /\ path'[d] = path[d] /\ carry'[d] = carry[d]
    BY <1>13, <1>15
  <2>3. \A x \in Enumerator : owner[x] = d => x # carry[c]
    BY <1>3, <1>15, NoneIsNot
  <2>4. at[d] \in Enumerator \cup {None} /\ carry[d] \in Enumerator \cup {None}
        /\ job[d].top \in Enumerator \cup {None}
    BY DEF Control, ControlType, JobState
  <2>5. Route(d)'
    BY <1>1, <1>11, <2>1, <2>2, <2>3, <2>4 DEF Route
  <2>6. Work(d)'
    BY <1>11, <2>1, <2>2, <2>3, <2>4 DEF Work
  <2>7. Counts(d)'
    BY <2>1, <2>2 DEF Counts
  <2> QED BY <2>5, <2>6, <2>7
<1>16. (Route(c) /\ Work(c) /\ Counts(c))'
  <2>1. \A i \in DOMAIN path'[c] : alive'[path'[c][i]]
    BY <1>1, <1>5, <1>13
  <2>2. /\ Len(p) > 1 \/ Len(p) = 1
        /\ pc \in [Caller -> Label] /\ carry \in [Caller -> Enumerator \cup {None}]
        /\ at \in [Caller -> Enumerator \cup {None}] /\ job \in [Caller -> JobState]
    BY <1>4 DEF Control, ControlType
  <2>3. CASE Len(p) > 1
    <3>1. carry' = [carry EXCEPT ![c] = y] /\ UNCHANGED <<pc, at, job>>
      BY <1>4, <1>6, <2>3 DEF Claimed
    <3>2. carry'[c] = y /\ pc'[c] = "claim" /\ job'[c] = job[c]
      BY <1>1, <2>2, <3>1
    <3>3. y # None => owner'[y] = c /\ Unlinked(y)'
      BY <1>11
    <3>4. Route(c)'
        <4>1. path'[c] # <<>> /\ path'[c][1] = job'[c].top
        BY <1>3, <1>4, <1>13, <2>3, <3>2
      <4>2. carry'[c] # None => owner'[carry'[c]] = c /\ Unlinked(carry[c])'
        BY <3>2, <3>3 DEF Unlinked
      <4> QED BY <2>1, <3>2, <4>1, <4>2 DEF Route
    <3> QED BY <1>3, <3>2, <3>4 DEF Work, Counts, Working
  <2>4. CASE Len(p) = 1 /\ owner[e] = None
    <3>1. /\ carry' = [carry EXCEPT ![c] = None]
          /\ pc' = [pc EXCEPT ![c] = IF c \in Async THEN "perform" ELSE "extract"]
          /\ at' = [at EXCEPT ![c] = e] /\ UNCHANGED job
      BY <1>4, <1>6, <2>4, NoneIsNot DEF Claimed, Goto, SetAt
    <3>2. carry'[c] = None /\ at'[c] = e /\ job'[c] = job[c] /\ pc'[c] \in {"perform", "extract"}
      BY <2>2, <3>1
    <3>3. job[c].top = e
      BY <1>3, <1>4, <2>4
    <3>4. Route(c)'
      BY <2>1, <3>2 DEF Route
    <3>5. Work(c)'
      BY <1>4, <1>11, <2>4, <3>2, <3>3, NoneIsNot DEF Work
    <3> QED BY <1>3, <3>2, <3>4, <3>5 DEF Counts
  <2>5. CASE Len(p) = 1 /\ owner[e] # None
    <3>1. carry' = [carry EXCEPT ![c] = None] /\ pc' = [pc EXCEPT ![c] = "idle"]
      BY <1>4, <1>6, <2>5, NoneIsNot DEF Claimed, Goto
    <3>2. carry'[c] = None /\ pc'[c] = "idle"
      BY <2>2, <3>1
    <3> QED BY <2>1, <3>2 DEF Route, Work, Counts, Working
  <2> QED BY <2>2, <2>3, <2>4, <2>5
<1> QED BY <1>8, <1>12, <1>14, <1>15, <1>16 DEF Control
\* check_in_enumerator_state: the first of the chain is put back, nobody
\* links to it.
LEMMA CheckInControl ==
    ASSUME Control, NEW c \in Caller, CheckIn(c)
    PROVE  Control'
<1> SUFFICES ASSUME NEW e, e = at[c], NEW x, x = link[e] PROVE Control'
  OBVIOUS
<1>1. /\ pc[c] = "checkin" /\ UNCHANGED <<alive, chained, path, carry>>
      /\ owner' = [owner EXCEPT ![e] = None] /\ link' = [link EXCEPT ![e] = None]
      /\ at' = [at EXCEPT ![c] = x]
      /\ IF x = None THEN pc' = [pc EXCEPT ![c] = "idle"] /\ job' = [job EXCEPT ![c] = NoJob]
                     ELSE UNCHANGED <<pc, job>>
  BY DEF CheckIn, Goto, SetAt
<1>2. Bonds /\ SharedType /\ ControlType /\ Route(c) /\ Work(c) /\ Counts(c)
  BY DEF Control
<1>3. e \in Enumerator /\ owner[e] = c /\ Unlinked(e) /\ carry[c] = None
      /\ x \in Enumerator \cup {None}
  BY <1>1, <1>2 DEF Work, Route, ControlType, SharedType
<1>4. x # None => owner[x] = c /\ x # e
  BY <1>2, <1>3, NoneIsNot DEF Bonds, Unlinked
<1>5. /\ \A z \in Enumerator : owner'[z] = IF z = e THEN None ELSE owner[z]
      /\ \A z \in Enumerator : link'[z] = IF z = e THEN None ELSE link[z]
  BY <1>1, <1>3 DEF Control, SharedType
<1>6. SharedType'
  BY <1>1, <1>3 DEF Control, SharedType
<1>7. Bonds'
  BY <1>1, <1>2, <1>3, <1>5, NoneIsNot DEF Bonds, Unlinked
<1>8. x # None => Unlinked(x)'
  BY <1>2, <1>3, <1>5, NoneIsNot DEF Bonds, Unlinked
<1>9. NoJob \in JobState
  BY DEF NoJob, Job, JobState
<1>10. ControlType'
  BY <1>1, <1>2, <1>3, <1>9 DEF ControlType, Label
<1>11. ASSUME NEW d \in Caller, d # c PROVE (Route(d) /\ Work(d) /\ Counts(d))'
  <2>1. Route(d) /\ Work(d) /\ Counts(d)
    BY DEF Control
  <2>2. pc'[d] = pc[d] /\ at'[d] = at[d] /\ job'[d] = job[d] /\ path'[d] = path[d] /\ carry'[d] = carry[d]
    BY <1>1, <1>2, <1>11 DEF ControlType
  <2>3. at[d] \in Enumerator \cup {None} /\ carry[d] \in Enumerator \cup {None}
        /\ job[d].top \in Enumerator \cup {None}
    BY <1>2 DEF ControlType, JobState
  <2>4. \A z \in Enumerator : owner[z] = d => owner'[z] = d
    BY <1>3, <1>5, <1>11
  <2>5. \A z \in Enumerator : Unlinked(z) => Unlinked(z)'
    BY <1>5, NoneIsNot DEF Unlinked
  <2>6. Route(d)'
    BY <1>1, <2>1, <2>2, <2>3, <2>4, <2>5 DEF Route
  <2>7. Work(d)'
    BY <2>1, <2>2, <2>3, <2>4, <2>5 DEF Work
  <2>8. Counts(d)'
    BY <2>1, <2>2 DEF Counts
  <2> QED BY <2>6, <2>7, <2>8
<1>12. (Route(c) /\ Work(c) /\ Counts(c))'
  <2>1. path'[c] = path[c] /\ carry'[c] = None /\ at'[c] = x
    BY <1>1, <1>2, <1>3 DEF ControlType
  <2>2. pc'[c] \in {"idle", "checkin"} /\ (pc'[c] = "checkin" => x # None)
    BY <1>1, <1>2 DEF ControlType
  <2>3. Route(c)'
    BY <1>1, <1>2, <2>1, <2>2 DEF Route
  <2>4. x # None => owner'[x] = c
    BY <1>3, <1>4, <1>5
  <2>5. Work(c)'
    BY <1>8, <2>1, <2>2, <2>4 DEF Work, Working, Unlinked
  <2>6. Counts(c)'
    BY <2>2 DEF Counts
  <2> QED BY <2>3, <2>5, <2>6
<1> QED BY <1>6, <1>7, <1>10, <1>11, <1>12 DEF Control

\* The walk begins, or the call was cancelled before.
LEMMA PerformControl ==
    ASSUME Control, NEW c \in Caller, Perform(c)
    PROVE  Control'
<1>1. /\ pc[c] = "perform" /\ UNCHANGED <<shared, path, carry, at, job>>
      /\ \E l \in {"run", "checkin"} : pc' = [pc EXCEPT ![c] = l]
  BY DEF Perform, Goto
<1>2. PICK l \in {"run", "checkin"} : pc' = [pc EXCEPT ![c] = l]
  BY <1>1
<1>3. Work(c) /\ Counts(c) /\ ControlType
  BY DEF Control
<1>4. /\ at[c] \in Enumerator /\ owner[at[c]] = c /\ Unlinked(job[c].top)
      /\ job[c].count = 0 /\ job[c].want > 0 /\ job[c] \in JobState
  BY <1>1, <1>3 DEF Work, Counts, Working, ControlType
<1>5. at[c] = job[c].top
  BY <1>1, <1>3 DEF Work, Working
<1>6. at' = [at EXCEPT ![c] = at[c]] /\ job' = [job EXCEPT ![c] = job[c]]
  BY <1>1, <1>3 DEF ControlType
<1>7. pc[c] \in Working /\ l \in Working \cup {"checkin"}
  BY <1>1 DEF Working
<1>8. UNCHANGED <<shared, path, carry>> /\ Unlinked(at[c])
  BY <1>1, <1>4, <1>5
<1>9. Moves(c, l, at[c], job[c])
  BY <1>2, <1>4, <1>5, <1>6, <1>7, <1>8 DEF Moves, JobState
<1> QED BY <1>9, WorkMoves

\* The answer is read, or the call was cancelled meanwhile.
LEMMA FinishControl ==
    ASSUME Control, NEW c \in Caller, Finish(c)
    PROVE  Control'
<1>1. /\ pc[c] = "done" /\ UNCHANGED <<shared, path, carry, at, job>>
      /\ \E l \in {"deliver", "checkin"} : pc' = [pc EXCEPT ![c] = l]
  BY DEF Finish, Goto
<1>2. PICK l \in {"deliver", "checkin"} : pc' = [pc EXCEPT ![c] = l]
  BY <1>1
<1>3. Work(c) /\ Counts(c) /\ ControlType
  BY DEF Control
<1>4. /\ at[c] \in Enumerator /\ owner[at[c]] = c /\ Unlinked(job[c].top)
      /\ job[c] \in JobState /\ at[c] = job[c].top
  BY <1>1, <1>3 DEF Work, Working, ControlType
<1>5. at' = [at EXCEPT ![c] = at[c]] /\ job' = [job EXCEPT ![c] = job[c]]
  BY <1>1, <1>3 DEF ControlType
<1>6. pc[c] \in Working /\ l \in Working \cup {"checkin"}
  BY <1>1 DEF Working
<1>7. UNCHANGED <<shared, path, carry>> /\ Unlinked(at[c])
  BY <1>1, <1>4
<1>8. Moves(c, l, at[c], job[c])
  BY <1>2, <1>4, <1>5, <1>6, <1>7 DEF Moves
<1> QED BY <1>8, WorkMoves

\* One object is handed out.
LEMMA ExtractControl ==
    ASSUME Control, NEW c \in Caller, Extract(c)
    PROVE  Control'
<1> DEFINE j == job[c]
<1> DEFINE k == Job(j.top, j.want - 1, j.count, j.ran, j.short)
<1>1. /\ pc[c] \in {"extract", "deliver"} /\ UNCHANGED <<shared, path, carry, at, pc>>
      /\ j.want > 0 /\ job' = [job EXCEPT ![c] = k]
  BY DEF Extract, control
<1>2. Work(c) /\ Counts(c) /\ ControlType
  BY DEF Control
<1>3. at[c] \in Enumerator /\ owner[at[c]] = c /\ j \in JobState
  BY <1>1, <1>2 DEF Work, Working, ControlType
<1>4. k \in JobState /\ k.top = j.top /\ k.count = j.count
  BY <1>1, <1>3 DEF Job, JobState
<1>5. at' = [at EXCEPT ![c] = at[c]] /\ pc' = [pc EXCEPT ![c] = pc[c]]
  BY <1>1, <1>2 DEF ControlType
<1>6. pc[c] \in Working /\ pc[c] \notin {"perform", "done", "run", "checkin"}
  BY <1>1 DEF Working
<1>7. pc[c] = "extract" => k.count = 0
  BY <1>2, <1>4 DEF Counts
<1> HIDE DEF k
<1>8. Moves(c, pc[c], at[c], k)
  BY <1>1, <1>3, <1>4, <1>5, <1>6, <1>7 DEF Moves
<1> QED BY <1>8, WorkMoves

\* The next of the chain is looked at, the walk begins, or the answer is complete.
LEMMA ExtractedControl ==
    ASSUME Control, NEW c \in Caller, Extracted(c)
    PROVE  Control'
<1> DEFINE e == at[c]
<1> DEFINE j == job[c]
<1>1. pc[c] \in {"extract", "deliver"} /\ UNCHANGED <<shared, path, carry>> /\ UNCHANGED job
  BY DEF Extracted
<1>2. Work(c) /\ Counts(c) /\ ControlType /\ SharedType /\ Bonds
  BY DEF Control
<1>3. /\ e \in Enumerator /\ owner[e] = c /\ j \in JobState
      /\ j.top \in Enumerator /\ owner[j.top] = c /\ Unlinked(j.top)
      /\ pc[c] = "extract" => j.count = 0
  BY <1>1, <1>2 DEF Work, Working, ControlType, JobState, Counts
<1>4. pc[c] \in Working /\ job' = [job EXCEPT ![c] = j] /\ j.want \in Nat
  BY <1>1, <1>2, <1>3 DEF Working, ControlType, JobState
<1>5. CASE j.want > 0 /\ link[e] # None
  <2>1. at' = [at EXCEPT ![c] = link[e]] /\ UNCHANGED pc
    BY <1>5 DEF Extracted, SetAt
  <2>2. pc' = [pc EXCEPT ![c] = pc[c]] /\ pc[c] \notin {"perform", "done", "run", "checkin"}
    BY <1>1, <1>2, <2>1 DEF ControlType
  <2>3. link[e] \in Enumerator /\ owner[link[e]] = c
    BY <1>2, <1>3, <1>5 DEF Bonds, SharedType
  <2>4. Moves(c, pc[c], link[e], j)
    BY <1>1, <1>3, <1>4, <2>1, <2>2, <2>3 DEF Moves
  <2> QED BY <2>4, WorkMoves
<1>6. CASE ~(j.want > 0 /\ link[e] # None)
  <2>1. /\ at' = [at EXCEPT ![c] = j.top]
        /\ pc' = [pc EXCEPT ![c] = IF pc[c] = "extract" /\ j.want > 0 THEN "perform" ELSE "checkin"]
    BY <1>6 DEF Extracted, SetAt, Goto
  <2>2. CASE pc[c] = "extract" /\ j.want > 0
    <3>1. pc' = [pc EXCEPT ![c] = "perform"] /\ "perform" \in Working
      BY <2>1, <2>2 DEF Working
    <3>2. Moves(c, "perform", j.top, j)
      BY <1>1, <1>3, <1>4, <2>1, <2>2, <3>1 DEF Moves
    <3> QED BY <3>2, WorkMoves
  <2>3. CASE ~(pc[c] = "extract" /\ j.want > 0)
    <3>1. pc' = [pc EXCEPT ![c] = "checkin"]
      BY <2>1, <2>3
    <3>2. Moves(c, "checkin", j.top, j)
      BY <1>1, <1>3, <1>4, <2>1, <3>1 DEF Moves
    <3> QED BY <3>2, WorkMoves
  <2> QED BY <2>2, <2>3
<1> QED BY <1>5, <1>6

\* The steps of the walk leave the callers where they are, or stop one.
LEMMA StateControl ==
    ASSUME Control, DataType, DataType', NEW c \in Caller,
           \/ StateModules(c) \/ StateSlots(c) \/ StateSlot(c)
           \/ StateSession(c) \/ StateFind(c) \/ StateResults(c)
    PROVE  Control'
<1>1. ControlType /\ Work(c) /\ UNCHANGED <<shared, path, carry>>
  BY DEF Control, StateModules, StateSlots, StateSlot, StateSession, StateFind, StateResults, control
<1>2. CASE UNCHANGED <<pc, at, job>>
  BY <1>1, <1>2, ControlStands DEF control
<1>3. ASSUME NEW kept, NEW bad, Stop(c, kept, bad), Len(kept) \in Nat, pc[c] = "run" PROVE Control'
  BY <1>1, <1>3, StopControl
<1>4. pc[c] = "run"
  BY DEF StateModules, StateSlots, StateSlot, StateSession, StateFind, StateResults, Running
<1>5. at[c] \in Enumerator
  BY <1>1, <1>4 DEF Work, Working, ControlType
<1>6. Len(results[at[c]]) \in Nat /\ Len(results'[at[c]]) \in Nat
  BY <1>5 DEF DataType
<1>7. CASE StateModules(c)
  <2>1. Stop(c, results[at[c]], {}) \/ UNCHANGED <<pc, at, job>>
    BY <1>7 DEF StateModules
  <2> QED BY <1>2, <1>3, <1>4, <1>6, <2>1
<1>8. CASE StateResults(c)
  <2>1. (\E bad : Stop(c, results'[at[c]], bad)) \/ UNCHANGED <<pc, at, job>>
    BY <1>8 DEF StateResults
  <2> QED BY <1>2, <1>3, <1>4, <1>6, <2>1
<1>9. CASE StateSlots(c) \/ StateSlot(c) \/ StateSession(c) \/ StateFind(c)
  BY <1>2, <1>9 DEF StateSlots, StateSlot, StateSession, StateFind, control
<1> QED BY <1>7, <1>8, <1>9

-----------------------------------------------------------------------------
(* Queues.                                                                 *)

Distinct(q) == \A i, j \in DOMAIN q : q[i] = q[j] => i = j

\* Removing entries from a queue leaves exactly the others, and a queue
\* without duplicates stays one (g_queue_remove).
LEMMA RemovedEntries ==
    ASSUME NEW C, NEW q \in Seq(C), NEW S, NEW r \in Removed(q, S)
    PROVE  /\ r \in Seq(C)
           /\ Entries(r) = Entries(q) \ S
           /\ Distinct(q) => Distinct(r)
<1>0. PICK n \in 0..Len(q) : \E e \in [1..n -> DOMAIN q] :
        /\ \A i, j \in DOMAIN e : i < j => e[i] < e[j]
        /\ {e[i] : i \in DOMAIN e} = {k \in DOMAIN q : q[k] \notin S}
        /\ r = [i \in DOMAIN e |-> q[e[i]]]
  BY DEF Removed
<1>1. PICK e \in [1..n -> DOMAIN q] :
        /\ \A i, j \in DOMAIN e : i < j => e[i] < e[j]
        /\ {e[i] : i \in DOMAIN e} = {k \in DOMAIN q : q[k] \notin S}
        /\ r = [i \in DOMAIN e |-> q[e[i]]]
  BY <1>0
<1>2. /\ n \in Nat
      /\ DOMAIN e = 1..n
      /\ DOMAIN q = 1..Len(q)
      /\ \A k \in DOMAIN q : q[k] \in C
      /\ r = [i \in 1..n |-> q[e[i]]]
  BY <1>1
<1>3. r \in Seq(C)
  BY <1>2
<1>4. DOMAIN r = 1..n /\ \A i \in 1..n : r[i] = q[e[i]] /\ e[i] \in DOMAIN q
  BY <1>1, <1>2
<1>5. Entries(r) = Entries(q) \ S
  <2>1. ASSUME NEW x \in Entries(r) PROVE x \in Entries(q) \ S
    BY <1>1, <1>2, <1>4 DEF Entries
  <2>2. ASSUME NEW x \in Entries(q) \ S PROVE x \in Entries(r)
    <3>1. PICK k \in DOMAIN q : q[k] = x /\ q[k] \notin S
      BY DEF Entries
    <3>2. PICK i \in 1..n : e[i] = k
      BY <1>1, <1>2, <3>1
    <3> QED BY <1>4, <3>1, <3>2 DEF Entries
  <2> QED BY <2>1, <2>2
<1>6. ASSUME Distinct(q) PROVE Distinct(r)
  <2>1. ASSUME NEW i \in 1..n, NEW j \in 1..n, i < j PROVE r[i] # r[j]
    <3>1. e[i] < e[j] /\ e[i] \in DOMAIN q /\ e[j] \in DOMAIN q
      BY <1>1, <1>2, <2>1
    <3> QED BY <3>1, <1>2, <1>4, <1>6 DEF Distinct
  <2> QED BY <2>1, <1>2, <1>4 DEF Distinct
<1> QED BY <1>3, <1>5, <1>6

\* Taking the head off a queue (g_queue_pop_head).
LEMMA TailEntries ==
    ASSUME NEW C, NEW q \in Seq(C), q # <<>>
    PROVE  /\ Head(q) \in Entries(q) /\ Head(q) \in C
           /\ Tail(q) \in Seq(C)
           /\ Entries(q) = Entries(Tail(q)) \cup {Head(q)}
           /\ Distinct(q) => Distinct(Tail(q)) /\ Head(q) \notin Entries(Tail(q))
<1> DEFINE t == Tail(q)
<1>1. /\ Len(q) \in Nat /\ Len(q) > 0 /\ DOMAIN q = 1..Len(q)
      /\ t \in Seq(C) /\ DOMAIN t = 1..(Len(q) - 1)
      /\ \A i \in 1..(Len(q) - 1) : t[i] = q[i + 1]
      /\ Head(q) = q[1]
  OBVIOUS
<1>2. Head(q) \in Entries(q) /\ Head(q) \in C
  BY <1>1 DEF Entries
<1> HIDE DEF t
<1>3. Entries(q) = Entries(t) \cup {Head(q)}
  <2>1. ASSUME NEW y \in Entries(t) PROVE y \in Entries(q)
    <3>1. PICK i \in 1..(Len(q) - 1) : t[i] = y
      BY <1>1 DEF Entries
    <3>2. i + 1 \in DOMAIN q /\ q[i + 1] = y
      BY <1>1, <3>1
    <3> QED BY <3>2 DEF Entries
  <2>2. ASSUME NEW y \in Entries(q), y # Head(q) PROVE y \in Entries(t)
    <3>1. PICK i \in 1..Len(q) : q[i] = y
      BY <1>1 DEF Entries
    <3>2. i # 1
      BY <1>1, <2>2, <3>1
    <3>3. i - 1 \in DOMAIN t /\ t[i - 1] = y
      BY <1>1, <3>1, <3>2
    <3> QED BY <3>3 DEF Entries
  <2> QED BY <1>2, <2>1, <2>2
<1>4. ASSUME Distinct(q) PROVE Distinct(t) /\ Head(q) \notin Entries(t)
  <2>1. Distinct(t)
    <3>1. ASSUME NEW i \in DOMAIN t, NEW j \in DOMAIN t, t[i] = t[j] PROVE i = j
      <4>1. /\ i \in Int /\ j \in Int /\ i + 1 \in DOMAIN q /\ j + 1 \in DOMAIN q
            /\ q[i + 1] = q[j + 1]
        BY <1>1, <3>1
      <4>2. i + 1 = j + 1
        BY <4>1, <1>4 DEF Distinct
      <4> QED BY <4>1, <4>2
    <3> QED BY <3>1 DEF Distinct
  <2>2. Head(q) \notin Entries(t)
    <3> SUFFICES ASSUME NEW i \in DOMAIN t, t[i] = Head(q) PROVE FALSE
      BY DEF Entries
    <3>1. i \in Int /\ i + 1 \in DOMAIN q /\ 1 \in DOMAIN q /\ q[i + 1] = q[1] /\ i + 1 # 1
      BY <1>1
    <3> QED BY <3>1, <1>4 DEF Distinct
  <2> QED BY <2>1, <2>2
<1> QED BY <1>1, <1>2, <1>3, <1>4 DEF t

\* The entries of two sequences, one after the other.
LEMMA ConcatEntries ==
    ASSUME NEW C, NEW p \in Seq(C), NEW q \in Seq(C)
    PROVE  /\ p \o q \in Seq(C)
           /\ Entries(p \o q) = Entries(p) \cup Entries(q)
           /\ Distinct(p \o q) <=> /\ Distinct(p) /\ Distinct(q)
                                   /\ Entries(p) \cap Entries(q) = {}
<1> DEFINE b == p \o q
<1> DEFINE m == Len(p)
<1> DEFINE n == Len(q)
<1>1. /\ m \in Nat /\ n \in Nat /\ b \in Seq(C)
      /\ DOMAIN p = 1..m /\ DOMAIN q = 1..n /\ DOMAIN b = 1..(m + n)
      /\ \A i \in 1..m : b[i] = p[i]
      /\ \A i \in 1..n : b[i + m] = q[i]
  OBVIOUS
<1> HIDE DEF b, m, n
<1>2. /\ \A i \in 1..m : i \in 1..(m + n)
      /\ \A i \in 1..n : i + m \in 1..(m + n) /\ i + m \notin 1..m
      /\ \A i \in 1..(m + n) : i \in 1..m \/ (i - m \in 1..n /\ i = (i - m) + m)
  BY <1>1
<1>3. Entries(b) = Entries(p) \cup Entries(q)
  <2>1. ASSUME NEW i \in 1..(m + n) PROVE b[i] \in Entries(p) \cup Entries(q)
    <3>1. CASE i \in 1..m
      BY <1>1, <3>1 DEF Entries
    <3>2. CASE i - m \in 1..n /\ i = (i - m) + m
      <4>1. b[i] = q[i - m]
        BY <1>1, <3>2
      <4> QED BY <1>1, <3>2, <4>1 DEF Entries
    <3> QED BY <1>2, <3>1, <3>2
  <2>2. ASSUME NEW x \in Entries(p) PROVE x \in Entries(b)
    BY <1>1, <1>2 DEF Entries
  <2>3. ASSUME NEW x \in Entries(q) PROVE x \in Entries(b)
    BY <1>1, <1>2 DEF Entries
  <2> QED BY <1>1, <2>1, <2>2, <2>3 DEF Entries
<1>4. ASSUME Distinct(b) PROVE Distinct(p) /\ Distinct(q) /\ Entries(p) \cap Entries(q) = {}
  <2>1. Distinct(p)
    BY <1>1, <1>2, <1>4 DEF Distinct
  <2>2. Distinct(q)
    <3> SUFFICES ASSUME NEW i \in 1..n, NEW j \in 1..n, q[i] = q[j] PROVE i = j
      BY <1>1 DEF Distinct
    <3>1. i + m = j + m
      BY <1>1, <1>2, <1>4 DEF Distinct
    <3> QED BY <1>1, <3>1
  <2>3. ASSUME NEW i \in 1..m, NEW j \in 1..n, p[i] = q[j] PROVE FALSE
    <3>1. i = j + m
      BY <1>1, <1>2, <1>4, <2>3 DEF Distinct
    <3> QED BY <1>2, <3>1
  <2> QED BY <1>1, <2>1, <2>2, <2>3 DEF Entries
<1>5. ASSUME Distinct(p), Distinct(q), Entries(p) \cap Entries(q) = {} PROVE Distinct(b)
  <2> SUFFICES ASSUME NEW i \in 1..(m + n), NEW j \in 1..(m + n), b[i] = b[j] PROVE i = j
    BY <1>1 DEF Distinct
  <2>1. \A k \in 1..m, l \in 1..n : p[k] # q[l]
    BY <1>1, <1>5 DEF Entries
  <2>2. \A k \in 1..(m + n) : k \in 1..m \/ \E l \in 1..n : k = l + m
    BY <1>2
  <2>3. CASE i \in 1..m /\ j \in 1..m
    BY <1>1, <1>5, <2>3 DEF Distinct
  <2>4. ASSUME NEW k \in 1..m, NEW l \in 1..n PROVE b[k] # b[l + m]
    BY <1>1, <2>1
  <2>5. ASSUME NEW k \in 1..n, NEW l \in 1..n, b[k + m] = b[l + m] PROVE k = l
    <3>1. q[k] = q[l]
      BY <1>1, <2>5
    <3> QED BY <1>1, <1>5, <3>1 DEF Distinct
  <2> QED BY <2>2, <2>3, <2>4, <2>5
<1> QED BY <1>1, <1>3, <1>4, <1>5 DEF b

\* A sequence cut in two.
LEMMA CutEntries ==
    ASSUME NEW C, NEW q \in Seq(C), NEW k \in 0..Len(q)
    PROVE  LET a == SubSeq(q, 1, k)
               b == SubSeq(q, k + 1, Len(q))
           IN  /\ a \in Seq(C) /\ b \in Seq(C) /\ Len(a) = k
               /\ Entries(q) = Entries(a) \cup Entries(b)
               /\ Distinct(q) => /\ Distinct(a) /\ Distinct(b)
                                 /\ Entries(a) \cap Entries(b) = {}
<1> DEFINE a == SubSeq(q, 1, k)
<1> DEFINE b == SubSeq(q, k + 1, Len(q))
<1>1. /\ Len(q) \in Nat /\ k \in Nat /\ k <= Len(q) /\ a \in Seq(C) /\ b \in Seq(C) /\ Len(a) = k
  OBVIOUS
<1>2. q = a \o b
  <2>1. 1 \in 1..Len(q) + 1 /\ k \in 1 - 1..Len(q) /\ Len(q) \in k..Len(q)
    BY <1>1
  <2>2. SubSeq(q, 1, k) \o SubSeq(q, k + 1, Len(q)) = SubSeq(q, 1, Len(q))
    BY <2>1, ConcatAdjacentSubSeq
  <2>3. SubSeq(q, 1, Len(q)) = q
    BY SubSeqFull
  <2> QED BY <2>2, <2>3
<1>3. /\ Entries(a \o b) = Entries(a) \cup Entries(b)
      /\ Distinct(a \o b) <=> /\ Distinct(a) /\ Distinct(b)
                              /\ Entries(a) \cap Entries(b) = {}
  <2> HIDE DEF a, b
  <2> QED BY <1>1, ConcatEntries
<1> QED BY <1>1, <1>2, <1>3

-----------------------------------------------------------------------------
(* The references of a session.                                            *)

\* The results an enumerator has, read and yet to be read.
Has(e) == Entries(walk[e].found) \cup Entries(results[e])

\* The walks, the objects handed out, and the results that refer to a session.
Users(s) == {e \in Enumerator : alive[e] /\ walk[e].session = s}
Held(s) == {h \in holding : h[2].session = s}
Kept(s) == {p \in Enumerator \X Result :
               alive[p[1]] /\ p[2] \in Has(p[1]) /\ p[2].session = s}

Counted(s) ==
    /\ IsFiniteSet(Kept(s))
    /\ refs[s] = Cardinality(Users(s)) + Cardinality(Held(s)) + Cardinality(Kept(s))

\* No result is with an enumerator twice, nor is one it has already returned.
Apart(e) ==
    /\ Distinct(walk[e].found) /\ Distinct(results[e])
    /\ Entries(walk[e].found) \cap Entries(results[e]) = {}
    /\ \A r \in Has(e) : <<e, r>> \notin holding

\* The part of the invariant about the walks, the results and the references.
Data ==
    /\ DataType
    /\ \A e \in Enumerator : WalkSound(walk[e]) /\ Fresh(e) /\ Apart(e)
    /\ \A s \in Session : Counted(s)

\* A finite set and one disjoint from it.
LEMMA CountBoth ==
    ASSUME NEW S, IsFiniteSet(S), NEW T, IsFiniteSet(T), S \cap T = {}
    PROVE  /\ IsFiniteSet(S \cup T) /\ Cardinality(S \cup T) = Cardinality(S) + Cardinality(T)
           /\ Cardinality(S) \in Nat /\ Cardinality(T) \in Nat
<1>1. Cardinality(S \cap T) = 0
  BY FS_EmptySet
<1>2. Cardinality(S) \in Nat /\ Cardinality(T) \in Nat
  BY FS_CardinalityType
<1>3. /\ IsFiniteSet(S \cup T)
      /\ Cardinality(S \cup T) = Cardinality(S) + Cardinality(T) - Cardinality(S \cap T)
  BY FS_Union
<1> QED BY <1>1, <1>2, <1>3

\* A finite set without some of its elements.
LEMMA CountRest ==
    ASSUME NEW S, IsFiniteSet(S), NEW T, T \subseteq S
    PROVE  /\ IsFiniteSet(S \ T) /\ IsFiniteSet(T)
           /\ Cardinality(S \ T) = Cardinality(S) - Cardinality(T)
           /\ Cardinality(S) \in Nat /\ Cardinality(T) \in Nat /\ Cardinality(S \ T) \in Nat
<1>1. S \cap T = T
  OBVIOUS
<1> QED BY <1>1, FS_Difference, FS_Subset, FS_CardinalityType

\* As many pairs as second members, when the first is the same.
LEMMA CountTagged ==
    ASSUME NEW e, NEW S, IsFiniteSet(S)
    PROVE  IsFiniteSet({e} \X S) /\ Cardinality({e} \X S) = Cardinality(S)
<1>1. IsFiniteSet({e}) /\ Cardinality({e}) = 1 /\ Cardinality(S) \in Nat
  BY FS_Singleton, FS_CardinalityType
<1> QED BY <1>1, FS_Product

\* The entries of a queue are finitely many, as many as its length when they differ.
LEMMA CountEntries ==
    ASSUME NEW C, NEW q \in Seq(C)
    PROVE  /\ IsFiniteSet(Entries(q))
           /\ Distinct(q) => Cardinality(Entries(q)) = Len(q)
<1>1. Len(q) \in Nat /\ DOMAIN q = 1..Len(q) /\ q \in [1..Len(q) -> C]
  OBVIOUS
<1>2. IsFiniteSet(1..Len(q)) /\ Cardinality(1..Len(q)) = Len(q)
  BY <1>1, FS_Interval
<1>3. q \in Surjection(1..Len(q), Entries(q))
  BY <1>1 DEF Surjection, Entries
<1>4. IsFiniteSet(Entries(q)) /\ (q \in Injection(1..Len(q), Entries(q)) => Cardinality(Entries(q)) = Len(q))
  BY <1>2, <1>3, FS_Surjection
<1>5. Distinct(q) => q \in Injection(1..Len(q), Entries(q))
  BY <1>1 DEF Injection, IsInjective, Distinct, Entries
<1> QED BY <1>4, <1>5

\* FoundOnce says of every enumerator that its results are apart.
LEMMA FoundOnceApart ==
    ASSUME DataType
    PROVE  FoundOnce <=> \A e \in Enumerator : Apart(e)
<1>1. ASSUME NEW e \in Enumerator
      PROVE  Apart(e) <=> LET q == walk[e].found \o results[e] IN
                /\ \A i, j \in DOMAIN q : q[i] = q[j] => i = j
                /\ \A i \in DOMAIN q : <<e, q[i]>> \notin holding
  <2> DEFINE q == walk[e].found \o results[e]
  <2>1. walk[e].found \in Seq(Result) /\ results[e] \in Seq(Result)
    BY DEF DataType, WalkState
  <2>2. Entries(q) = Has(e)
        /\ (Distinct(q) <=> /\ Distinct(walk[e].found) /\ Distinct(results[e])
                            /\ Entries(walk[e].found) \cap Entries(results[e]) = {})
    BY <2>1, ConcatEntries DEF Has
  <2>3. (\A i \in DOMAIN q : <<e, q[i]>> \notin holding) <=> \A x \in Entries(q) : <<e, x>> \notin holding
    BY DEF Entries
  <2>4. (\A i, j \in DOMAIN q : q[i] = q[j] => i = j) <=> Distinct(q)
    BY DEF Distinct
  <2> QED BY <2>2, <2>3, <2>4 DEF Apart
<1> QED BY <1>1 DEF FoundOnce

\* SessionRefs counts the references of every session.
LEMMA RefsCounted ==
    ASSUME DataType, \A s \in Session : Counted(s)
    PROVE  SessionRefs
<1>1. ASSUME NEW s \in Session
      PROVE  Kept(s) = UNION {{e} \X Referring(e, s) : e \in {x \in Enumerator : alive[x]}}
  <2>1. ASSUME NEW e \in Enumerator
        PROVE  Referring(e, s) = {r \in Has(e) : r.session = s} /\ Has(e) \subseteq Result
    <3>1. walk[e].found \in Seq(Result) /\ results[e] \in Seq(Result)
      BY DEF DataType, WalkState
    <3>2. Entries(walk[e].found \o results[e]) = Has(e)
      BY <3>1, ConcatEntries DEF Has
    <3>3. Has(e) \subseteq Result
      BY <3>1 DEF Has, Entries
    <3> QED BY <3>2, <3>3 DEF Referring
  <2>2. ASSUME NEW p \in Kept(s)
        PROVE  p \in UNION {{e} \X Referring(e, s) : e \in {x \in Enumerator : alive[x]}}
    <3>1. p[1] \in Enumerator /\ alive[p[1]] /\ p[2] \in Referring(p[1], s) /\ p = <<p[1], p[2]>>
      BY <2>1 DEF Kept
    <3> QED BY <3>1
  <2>3. ASSUME NEW e \in Enumerator, alive[e], NEW p \in {e} \X Referring(e, s)
        PROVE  p \in Kept(s)
    BY <2>1, <2>3 DEF Kept
  <2> QED BY <2>2, <2>3
<1> QED BY <1>1 DEF SessionRefs, Counted, Users, Held

-----------------------------------------------------------------------------
(* The walks, the results and the references, step by step.                *)

\* Nothing that the walks and the results consist of changes.
LEMMA StandData ==
    ASSUME Data, UNCHANGED <<alive, walk, results, refs, holding>>
    PROVE  Data'
<1>1. DataType'
  BY DEF Data, DataType
<1>2. ASSUME NEW e \in Enumerator PROVE (WalkSound(walk[e]) /\ Fresh(e) /\ Apart(e))'
  BY DEF Data, WalkSound, Fresh, Apart, Has
<1>3. ASSUME NEW s \in Session PROVE Counted(s)'
  <2>1. Users(s)' = Users(s) /\ Held(s)' = Held(s) /\ Kept(s)' = Kept(s)
    BY DEF Users, Held, Kept, Has
  <2> QED BY <2>1 DEF Data, Counted
<1> QED BY <1>1, <1>2, <1>3 DEF Data

\* Only the enumerator's own walk and results change.
OnlyWalk(e, w, r) ==
    /\ walk' = [walk EXCEPT ![e] = w] /\ results' = [results EXCEPT ![e] = r]
    /\ w \in WalkState /\ r \in Seq(Result)
    /\ UNCHANGED <<alive, holding>>

\* The others are as they were.
LEMMA OthersStand ==
    ASSUME Data, NEW e \in Enumerator, NEW w, NEW r, OnlyWalk(e, w, r), refs' \in [Session -> Nat]
    PROVE  /\ DataType' /\ walk'[e] = w /\ results'[e] = r
           /\ \A x \in Enumerator \ {e} :
                 /\ walk'[x] = walk[x] /\ results'[x] = results[x]
                 /\ WalkSound(walk[x])' /\ Fresh(x)' /\ Apart(x)' /\ Has(x)' = Has(x)
<1>1. /\ walk \in [Enumerator -> WalkState] /\ results \in [Enumerator -> Seq(Result)]
      /\ holding' \subseteq Enumerator \X Result /\ IsFiniteSet(holding')
  BY DEF Data, DataType, OnlyWalk
<1>2. DataType' /\ walk'[e] = w /\ results'[e] = r
  BY <1>1 DEF DataType, OnlyWalk
<1>3. ASSUME NEW x \in Enumerator \ {e}
      PROVE  /\ walk'[x] = walk[x] /\ results'[x] = results[x]
             /\ WalkSound(walk[x])' /\ Fresh(x)' /\ Apart(x)' /\ Has(x)' = Has(x)
  <2>1. walk'[x] = walk[x] /\ results'[x] = results[x] /\ holding' = holding
    BY <1>1, <1>3 DEF OnlyWalk
  <2>2. WalkSound(walk[x]) /\ Fresh(x) /\ Apart(x)
    BY <1>3 DEF Data
  <2> QED BY <2>1, <2>2 DEF WalkSound, Fresh, Apart, Has
<1> QED BY <1>2, <1>3

\* The walk goes on with what it has, in the same session or without one.
LEMMA WalkOnData ==
    ASSUME Data, NEW e \in Enumerator, NEW w \in WalkState, WalkSound(w),
           walk' = [walk EXCEPT ![e] = w],
           w.found = walk[e].found, w.session = walk[e].session,
           w.handler \in {"session", "find"} => walk[e].handler \in {"session", "find"},
           UNCHANGED <<alive, results, refs, holding>>
    PROVE  Data'
<1>1. results \in [Enumerator -> Seq(Result)] /\ refs \in [Session -> Nat]
  BY DEF Data, DataType
<1>2. results' = [results EXCEPT ![e] = results[e]]
  BY <1>1
<1>3. OnlyWalk(e, w, results[e])
  BY <1>1, <1>2 DEF OnlyWalk
<1>4. /\ DataType' /\ walk'[e] = w /\ results'[e] = results[e]
      /\ \A x \in Enumerator \ {e} :
            /\ walk'[x] = walk[x] /\ results'[x] = results[x]
            /\ WalkSound(walk[x])' /\ Fresh(x)' /\ Apart(x)' /\ Has(x)' = Has(x)
  BY <1>1, <1>3, OthersStand
<1>5. WalkSound(walk[e])' /\ Fresh(e)' /\ Apart(e)' /\ Has(e)' = Has(e)
  <2>1. Fresh(e) /\ Apart(e)
    BY DEF Data
  <2> QED BY <1>4, <2>1 DEF WalkSound, Fresh, Apart, Has
<1>6. \A x \in Enumerator : Has(x)' = Has(x) /\ walk'[x].session = walk[x].session
  BY <1>4, <1>5
<1>7. ASSUME NEW s \in Session PROVE Counted(s)'
  <2>1. Users(s)' = Users(s) /\ Held(s)' = Held(s) /\ Kept(s)' = Kept(s)
    BY <1>6 DEF Users, Held, Kept
  <2>2. Counted(s)
    BY DEF Data
  <2> QED BY <2>1, <2>2 DEF Counted
<1> QED BY <1>4, <1>5, <1>7 DEF Data

\* A caller at work has the state of an enumerator that is there.
LEMMA AtWork ==
    ASSUME Control, NEW c \in Caller, pc[c] \in Working
    PROVE  /\ at[c] \in Enumerator /\ alive[at[c]]
           /\ job[c] \in JobState /\ (pc[c] = "run" => job[c].count < job[c].want)
<1>1. Work(c) /\ Counts(c) /\ ControlType /\ Bonds
  BY DEF Control
<1> QED BY <1>1, NoneIsNot DEF Work, Counts, ControlType, Bonds

\* The parts of a walk are typed, and they make a walk.
LEMMA WalkParts ==
    ASSUME Data, NEW e \in Enumerator
    PROVE  LET w == walk[e] IN
           /\ w \in WalkState /\ WalkSound(w)
           /\ w.modules \in Seq(Seq(Slot)) /\ w.slots \in Seq(Slot)
           /\ w.slot \in Slot \cup {None} /\ w.session \in Session \cup {None}
           /\ w.found \in Seq(Result) /\ results[e] \in Seq(Result)
  BY DEF Data, DataType, WalkState

\* The head and the tail of a queue.
LEMMA HeadAndTail ==
    ASSUME NEW C, NEW q \in Seq(C), q # <<>>
    PROVE  Head(q) \in C /\ Tail(q) \in Seq(C)
  OBVIOUS

\* state_modules.
LEMMA ModulesData ==
    ASSUME Data, Control, NEW c \in Caller, StateModules(c)
    PROVE  Data'
<1> SUFFICES ASSUME NEW e, e = at[c], NEW w, w = walk[e] PROVE Data'
  OBVIOUS
<1>1. w.handler = "modules" /\ e \in Enumerator /\ UNCHANGED <<alive, results, refs, holding>>
  BY AtWork DEF StateModules, Running, Working, shared
<1>2. w \in WalkState /\ WalkSound(w) /\ w.modules \in Seq(Seq(Slot)) /\ w.found \in Seq(Result)
  BY <1>1, WalkParts
<1>3. CASE UNCHANGED walk
  BY <1>1, <1>3, StandData
<1>4. CASE w.modules # <<>> /\ walk' = [walk EXCEPT ![e] =
               Walk("slots", Tail(w.modules), Head(w.modules), None, None, w.found)]
  <2> DEFINE v == Walk("slots", Tail(w.modules), Head(w.modules), None, None, w.found)
  <2>1. Head(w.modules) \in Seq(Slot) /\ Tail(w.modules) \in Seq(Seq(Slot))
    BY <1>2, <1>4, HeadAndTail
  <2>2. w.session = None
    BY <1>1, <1>2 DEF WalkSound, Holding
  <2>3. v \in WalkState
    BY <1>2, <2>1 DEF WalkState, Walk, Handler
  <2>4. WalkSound(v) /\ v.found = w.found /\ v.session = w.session /\ v.handler = "slots"
    BY <1>1, <1>2, <2>2 DEF WalkSound, Walk, Holding
  <2> QED BY <1>1, <1>4, <2>3, <2>4, WalkOnData
<1> QED BY <1>3, <1>4 DEF StateModules

\* state_slots.
LEMMA SlotsData ==
    ASSUME Data, Control, NEW c \in Caller, StateSlots(c)
    PROVE  Data'
<1> SUFFICES ASSUME NEW e, e = at[c], NEW w, w = walk[e] PROVE Data'
  OBVIOUS
<1>1. w.handler = "slots" /\ e \in Enumerator /\ UNCHANGED <<alive, results, refs, holding>>
  BY AtWork DEF StateSlots, Running, Working, shared
<1>2. /\ w \in WalkState /\ WalkSound(w) /\ w.modules \in Seq(Seq(Slot)) /\ w.found \in Seq(Result)
      /\ w.slots \in Seq(Slot)
  BY <1>1, WalkParts
<1>3. w.session = None
  BY <1>1, <1>2 DEF WalkSound, Holding
<1>4. ASSUME NEW v \in WalkState, WalkSound(v), v.found = w.found, v.session = None,
             v.handler \notin {"session", "find"}, walk' = [walk EXCEPT ![e] = v]
      PROVE  Data'
  BY <1>1, <1>3, <1>4, WalkOnData
<1>5. CASE walk' = [walk EXCEPT ![e] = NoMoreSlots(w)]
  <2>1. NoMoreSlots(w) \in WalkState
    BY <1>2 DEF NoMoreSlots, WalkState, Walk, Handler
  <2>2. WalkSound(NoMoreSlots(w)) /\ NoMoreSlots(w).found = w.found /\ NoMoreSlots(w).session = None
        /\ NoMoreSlots(w).handler = "modules"
    BY <1>1, <1>2 DEF NoMoreSlots, WalkSound, Walk, Holding
  <2> QED BY <1>4, <1>5, <2>1, <2>2
<1>6. ASSUME NEW h \in {"slots", "slot"}, NEW t \in Slot \cup {None}, h = "slot" => t # None,
             w.slots # <<>>,
             walk' = [walk EXCEPT ![e] = Walk(h, w.modules, Tail(w.slots), t, None, w.found)]
      PROVE  Data'
  <2> DEFINE v == Walk(h, w.modules, Tail(w.slots), t, None, w.found)
  <2>1. Tail(w.slots) \in Seq(Slot)
    BY <1>2, <1>6, HeadAndTail
  <2>2. v \in WalkState
    BY <1>2, <1>6, <2>1 DEF WalkState, Walk, Handler
  <2>3. WalkSound(v) /\ v.found = w.found /\ v.session = None /\ v.handler = h
    BY <1>1, <1>2, <1>6 DEF WalkSound, Walk, Holding
  <2> QED BY <1>4, <1>6, <2>2, <2>3
<1>7. CASE /\ w.slots # <<>>
           /\ walk' = [walk EXCEPT ![e] =
                 Walk("slots", w.modules, Tail(w.slots), None, None, w.found)]
  BY <1>6, <1>7
<1>8. CASE /\ w.slots # <<>>
           /\ walk' = [walk EXCEPT ![e] =
                 Walk("slot", w.modules, Tail(w.slots), Head(w.slots), None, w.found)]
  <2>1. Head(w.slots) \in Slot
    BY <1>2, <1>8, HeadAndTail
  <2> QED BY <1>6, <1>8, <2>1, NoneIsNot
<1> QED BY <1>5, <1>7, <1>8 DEF StateSlots

\* state_session.
LEMMA SessionData ==
    ASSUME Data, Control, NEW c \in Caller, StateSession(c)
    PROVE  Data'
<1> SUFFICES ASSUME NEW e, e = at[c], NEW w, w = walk[e] PROVE Data'
  OBVIOUS
<1> DEFINE v == Walk("find", w.modules, w.slots, w.slot, w.session, w.found)
<1>1. /\ w.handler = "session" /\ e \in Enumerator /\ UNCHANGED <<alive, results, refs, holding>>
      /\ walk' = [walk EXCEPT ![e] = v]
  BY AtWork DEF StateSession, Running, Working, shared
<1>2. w \in WalkState /\ WalkSound(w)
  BY <1>1, WalkParts
<1>3. v \in WalkState
  BY <1>2 DEF WalkState, Walk, Handler
<1>4. WalkSound(v) /\ v.found = w.found /\ v.session = w.session
  BY <1>1, <1>2 DEF WalkSound, Walk, Holding
<1> QED BY <1>1, <1>3, <1>4, WalkOnData

\* The counts of a session are numbers.
LEMMA CountTypes ==
    ASSUME Data, NEW s \in Session
    PROVE  /\ IsFiniteSet(Users(s)) /\ IsFiniteSet(Held(s)) /\ IsFiniteSet(Kept(s))
           /\ Cardinality(Users(s)) \in Nat /\ Cardinality(Held(s)) \in Nat /\ Cardinality(Kept(s)) \in Nat
           /\ refs[s] = Cardinality(Users(s)) + Cardinality(Held(s)) + Cardinality(Kept(s))
<1>1. Users(s) \in SUBSET Enumerator /\ Held(s) \in SUBSET holding
  BY DEF Users, Held
<1>2. IsFiniteSet(Users(s)) /\ IsFiniteSet(Held(s)) /\ Counted(s)
  BY <1>1, FiniteAssumption, FS_Subset DEF Data, DataType
<1> QED BY <1>2, FS_CardinalityType DEF Counted

\* A session without references is used by no walk and by no object.
LEMMA Unused ==
    ASSUME Data, NEW s \in Session, refs[s] = 0
    PROVE  Users(s) = {} /\ Held(s) = {} /\ Kept(s) = {}
<1>1. Cardinality(Users(s)) = 0 /\ Cardinality(Held(s)) = 0 /\ Cardinality(Kept(s)) = 0
  BY CountTypes
<1> QED BY <1>1, CountTypes, FS_EmptySet

\* state_slot.
LEMMA SlotData ==
    ASSUME Data, Control, NEW c \in Caller, StateSlot(c)
    PROVE  Data'
<1> SUFFICES ASSUME NEW e, e = at[c], NEW w, w = walk[e] PROVE Data'
  OBVIOUS
<1>1. w.handler = "slot" /\ e \in Enumerator /\ alive[e] /\ UNCHANGED <<alive, results, holding>>
  BY AtWork DEF StateSlot, Running, Working, shared
<1>2. /\ w \in WalkState /\ WalkSound(w) /\ w.modules \in Seq(Seq(Slot)) /\ w.found \in Seq(Result)
      /\ w.slots \in Seq(Slot) /\ w.slot \in Slot \cup {None} /\ results[e] \in Seq(Result)
  BY <1>1, WalkParts
<1>3. w.session = None /\ w.found = <<>>
  BY <1>1, <1>2 DEF WalkSound, Holding
<1>4. CASE UNCHANGED refs /\ walk' = [walk EXCEPT ![e] =
                Walk("slots", w.modules, w.slots, None, None, w.found)]
  <2> DEFINE v == Walk("slots", w.modules, w.slots, None, None, w.found)
  <2>1. v \in WalkState
    BY <1>2 DEF WalkState, Walk, Handler
  <2>2. WalkSound(v) /\ v.found = w.found /\ v.session = w.session /\ v.handler = "slots"
    BY <1>1, <1>2, <1>3 DEF WalkSound, Walk, Holding
  <2> QED BY <1>1, <1>4, <2>1, <2>2, WalkOnData
<1>5. ASSUME NEW s \in Session, refs[s] = 0, refs' = [refs EXCEPT ![s] = 1],
             walk' = [walk EXCEPT ![e] = Walk("session", w.modules, w.slots, w.slot, s, w.found)]
      PROVE  Data'
  <2> DEFINE v == Walk("session", w.modules, w.slots, w.slot, s, w.found)
  <2>1. v \in WalkState /\ v.session = s /\ v.found = <<>> /\ v.handler = "session" /\ v.slot = w.slot
    BY <1>2, <1>3 DEF WalkState, Walk, Handler
  <2>2. WalkSound(v)
    BY <1>1, <1>2, <2>1, NoneIsNot DEF WalkSound, Holding, Entries
  <2>3. refs \in [Session -> Nat] /\ results' = [results EXCEPT ![e] = results[e]]
    BY <1>1 DEF Data, DataType
  <2> HIDE DEF v
  <2>4. OnlyWalk(e, v, results[e]) /\ refs' \in [Session -> Nat]
    BY <1>1, <1>2, <1>5, <2>1, <2>3 DEF OnlyWalk, v
  <2>5. /\ DataType' /\ walk'[e] = v /\ results'[e] = results[e]
        /\ \A x \in Enumerator \ {e} :
              /\ walk'[x] = walk[x] /\ results'[x] = results[x]
              /\ WalkSound(walk[x])' /\ Fresh(x)' /\ Apart(x)' /\ Has(x)' = Has(x)
    BY <1>1, <2>4, OthersStand
  <2>6. Users(s) = {} /\ Held(s) = {} /\ Kept(s) = {}
    BY <1>5, Unused
  <2>7. Fresh(e)'
    <3>1. ASSUME NEW r \in Entries(results[e]) PROVE r.session # s
      <4>1. r \in Result
        BY <1>2 DEF Entries
      <4>2. <<e, r>> \in Kept(s) \/ r.session # s
        BY <1>1, <4>1 DEF Kept, Has
      <4> QED BY <2>6, <4>2
    <3>2. ASSUME NEW h \in holding PROVE h[2].session # s
      BY <2>6 DEF Held
    <3> QED BY <1>1, <2>1, <2>5, <3>1, <3>2 DEF Fresh
  <2>8. Has(e)' = Has(e) /\ Apart(e)' /\ WalkSound(walk[e])'
    BY <1>1, <1>3, <2>1, <2>2, <2>5 DEF Has, Apart, Data
  <2>9. \A x \in Enumerator : Has(x)' = Has(x)
    BY <2>5, <2>8
  <2>10. ASSUME NEW t \in Session PROVE Counted(t)'
    <3>1. Held(t)' = Held(t) /\ Kept(t)' = Kept(t)
      BY <1>1, <2>9 DEF Held, Kept
    <3>2. CASE t = s
      <4>1. Users(s)' = {e}
        <5>1. \A x \in Enumerator \ {e} : ~(alive'[x] /\ walk'[x].session = s)
          BY <1>1, <2>5, <2>6 DEF Users
        <5>2. alive'[e] /\ walk'[e].session = s
          BY <1>1, <2>1, <2>5
        <5> QED BY <1>1, <5>1, <5>2 DEF Users
      <4>2. refs'[s] = 1
        BY <1>5, <2>3
      <4> QED BY <2>6, <3>1, <3>2, <4>1, <4>2, FS_EmptySet, FS_Singleton DEF Counted
    <3>3. CASE t # s
      <4>1. Users(t)' = Users(t)
        <5>1. e \notin Users(t) /\ e \notin Users(t)'
          BY <1>3, <2>1, <2>5, <3>3, NoneIsNot DEF Users
        <5> QED BY <1>1, <2>5, <5>1 DEF Users
      <4>2. refs'[t] = refs[t]
        BY <1>5, <2>3, <3>3
      <4> QED BY <3>1, <4>1, <4>2 DEF Counted, Data
    <3> QED BY <3>2, <3>3
  <2> QED BY <2>5, <2>7, <2>8, <2>10 DEF Data
<1>6. CASE /\ \E s \in Session : refs[s] = 0
           /\ LET s == CHOOSE s \in Session : refs[s] = 0 IN
                 /\ refs' = [refs EXCEPT ![s] = 1]
                 /\ walk' = [walk EXCEPT ![e] =
                       Walk("session", w.modules, w.slots, w.slot, s, w.found)]
  <2>1. (CHOOSE s \in Session : refs[s] = 0) \in Session /\ refs[CHOOSE s \in Session : refs[s] = 0] = 0
    BY <1>6
  <2> QED BY <1>5, <1>6, <2>1
<1> QED BY <1>4, <1>6 DEF StateSlot

\* A queue without entries.
LEMMA NoEntries == Entries(<<>>) = {}
  BY DEF Entries

\* What a search for the first n objects in a slot adds.
IsListing(q, slot, n, s) == q = [i \in 1..n |-> [object |-> Contents[slot][i], session |-> s]]

\* The results of a search are different ones, all in the session.
LEMMA FoundEntries ==
    ASSUME NEW slot \in Slot, NEW n \in 0..Len(Contents[slot]), NEW s \in Session, NEW q,
           IsListing(q, slot, n, s)
    PROVE  /\ q \in Seq(Result) /\ Distinct(q) /\ Len(q) = n
           /\ \A r \in Entries(q) : r.session = s /\ r \in Result
<1> USE DEF IsListing
<1>1. Contents[slot] \in Seq(Object) /\ n \in Nat
      /\ \A i, j \in DOMAIN Contents[slot] : Contents[slot][i] = Contents[slot][j] => i = j
  BY ContentsAssumption
<1>2. DOMAIN Contents[slot] = 1..Len(Contents[slot]) /\ 1..n \subseteq DOMAIN Contents[slot]
      /\ \A i \in 1..n : Contents[slot][i] \in Object
  BY <1>1
<1>3. q \in [1..n -> Result] /\ \A i \in 1..n : q[i].session = s /\ q[i].object = Contents[slot][i]
  BY <1>2 DEF Result
<1>4. q \in Seq(Result) /\ Len(q) = n /\ DOMAIN q = 1..n
  BY <1>1, <1>3
<1>5. Distinct(q)
  BY <1>1, <1>2, <1>3, <1>4 DEF Distinct
<1> QED BY <1>3, <1>4, <1>5 DEF Entries

\* state_find.
LEMMA FindData ==
    ASSUME Data, Control, NEW c \in Caller, StateFind(c)
    PROVE  Data'
<1> SUFFICES ASSUME NEW e, e = at[c], NEW w, w = walk[e], NEW s, s = w.session PROVE Data'
  OBVIOUS
<1>1. w.handler = "find" /\ e \in Enumerator /\ alive[e] /\ UNCHANGED <<alive, results, holding>>
  BY AtWork DEF StateFind, Running, Working, shared
<1>2. /\ w \in WalkState /\ WalkSound(w) /\ w.modules \in Seq(Seq(Slot)) /\ w.found \in Seq(Result)
      /\ w.slots \in Seq(Slot) /\ w.slot \in Slot \cup {None} /\ results[e] \in Seq(Result)
      /\ w.session \in Session \cup {None}
  BY <1>1, WalkParts
<1>3. s \in Session /\ w.found = <<>> /\ w.slot \in Slot
  BY <1>1, <1>2 DEF WalkSound, Holding
<1>4. PICK n \in 0..Len(Contents[w.slot]) : \E q :
          /\ IsListing(q, w.slot, n, s)
          /\ walk' = [walk EXCEPT ![e] =
                Walk("results", w.modules, w.slots, w.slot, s, <<>> \o q)]
          /\ Adding(s, n)
  <2>1. PICK n \in 0..Len(Contents[w.slot]) :
            /\ walk' = [walk EXCEPT ![e] =
                  Walk("results", w.modules, w.slots, w.slot, s,
                       <<>> \o [i \in 1..n |-> [object |-> Contents[w.slot][i], session |-> s]])]
            /\ Adding(s, n)
    BY <1>3 DEF StateFind
  <2> WITNESS n \in 0..Len(Contents[w.slot])
  <2> WITNESS [i \in 1..n |-> [object |-> Contents[w.slot][i], session |-> s]]
  <2> QED BY <2>1 DEF IsListing
<1>5. PICK q : /\ IsListing(q, w.slot, n, s)
               /\ walk' = [walk EXCEPT ![e] =
                     Walk("results", w.modules, w.slots, w.slot, s, <<>> \o q)]
               /\ Adding(s, n)
  BY <1>4
<1>5a. /\ q \in Seq(Result) /\ Distinct(q) /\ Len(q) = n
       /\ \A r \in Entries(q) : r.session = s /\ r \in Result
  BY <1>3, <1>5, FoundEntries
<1>6. <<>> \o q = q
  BY <1>5a, EmptySeq, ConcatEmptySeq
<1> DEFINE v == Walk("results", w.modules, w.slots, w.slot, s, q)
<1>7. /\ v \in WalkState /\ v.session = s /\ v.found = q /\ v.handler = "results" /\ v.slot = w.slot
      /\ walk' = [walk EXCEPT ![e] = v]
  BY <1>2, <1>3, <1>5, <1>5a, <1>6 DEF WalkState, Walk, Handler
<1> HIDE DEF v
<1>8. WalkSound(v)
  BY <1>3, <1>5a, <1>7, NoneIsNot DEF WalkSound, Holding
<1>9. n \in Nat /\ refs \in [Session -> Nat] /\ results' = [results EXCEPT ![e] = results[e]]
      /\ refs' = [refs EXCEPT ![s] = @ + n] /\ refs' \in [Session -> Nat]
  <2>1. refs \in [Session -> Nat] /\ results' = [results EXCEPT ![e] = results[e]]
    BY <1>1 DEF Data, DataType
  <2>2. Len(Contents[w.slot]) \in Nat
    BY <1>3, ContentsAssumption
  <2> QED BY <1>3, <1>5, <2>1, <2>2 DEF Adding
<1>10. OnlyWalk(e, v, results[e])
  BY <1>1, <1>2, <1>7, <1>9 DEF OnlyWalk
<1>11. /\ DataType' /\ walk'[e] = v /\ results'[e] = results[e]
       /\ \A x \in Enumerator \ {e} :
             /\ walk'[x] = walk[x] /\ results'[x] = results[x]
             /\ WalkSound(walk[x])' /\ Fresh(x)' /\ Apart(x)' /\ Has(x)' = Has(x)
  BY <1>1, <1>9, <1>10, OthersStand
<1>12. WalkSound(walk[e])' /\ Fresh(e)'
  BY <1>7, <1>8, <1>11 DEF Fresh
<1>13. Has(e) = Entries(results[e]) /\ Has(e)' = Entries(q) \cup Entries(results[e])
  <2>1. Entries(walk[e].found) = {}
    BY <1>3, NoEntries
  <2> QED BY <1>7, <1>11, <2>1 DEF Has
<1>14. /\ \A r \in Entries(results[e]) : r.session # s
       /\ \A h \in holding : h[1] = e => h[2].session # s
  BY <1>1, <1>3 DEF Fresh, Data
<1>15. Apart(e)'
  <2>1. Apart(e)
    BY <1>1 DEF Data
  <2>2. Entries(q) \cap Entries(results[e]) = {} /\ \A r \in Entries(q) : <<e, r>> \notin holding
    BY <1>5a, <1>14
  <2>3. \A r \in Has(e)' : <<e, r>> \notin holding'
    BY <1>1, <1>13, <2>1, <2>2 DEF Apart
  <2>4. Distinct(results[e])
    BY <2>1 DEF Apart
  <2>5. walk'[e].found = q /\ results'[e] = results[e]
    BY <1>7, <1>11
  <2> HIDE DEF Has
  <2> QED BY <1>5a, <2>2, <2>3, <2>4, <2>5 DEF Apart
<1>16. ASSUME NEW t \in Session PROVE Counted(t)'
  <2>1. Held(t)' = Held(t)
    BY <1>1 DEF Held
  <2>2. Users(t)' = Users(t)
    BY <1>1, <1>7, <1>11 DEF Users
  <2>3. CASE t = s
    <3>1. Kept(s)' = Kept(s) \cup ({e} \X Entries(q))
      <4>1. ASSUME NEW p \in Enumerator \X Result
            PROVE  p \in Kept(s)' <=> p \in Kept(s) \/ p \in {e} \X Entries(q)
        <5>1. CASE p[1] = e
          BY <1>1, <1>5a, <1>13, <4>1, <5>1 DEF Kept
        <5>2. CASE p[1] # e
          BY <1>1, <1>11, <4>1, <5>2 DEF Kept
        <5> QED BY <5>1, <5>2
      <4>2. {e} \X Entries(q) \subseteq Enumerator \X Result
        BY <1>1, <1>5a
      <4>3. Kept(s)' \subseteq Enumerator \X Result /\ Kept(s) \subseteq Enumerator \X Result
        BY DEF Kept
      <4> QED BY <4>1, <4>2, <4>3
    <3>2. IsFiniteSet(Kept(s)) /\ Cardinality(Users(s)) \in Nat /\ Cardinality(Held(s)) \in Nat
          /\ refs[s] = Cardinality(Users(s)) + Cardinality(Held(s)) + Cardinality(Kept(s))
      BY <1>3, CountTypes
    <3>3. IsFiniteSet({e} \X Entries(q)) /\ Cardinality({e} \X Entries(q)) = n
      BY <1>5a, CountEntries, CountTagged
    <3>4. Kept(s) \cap ({e} \X Entries(q)) = {}
      BY <1>13, <1>14 DEF Kept
    <3> SUFFICES ASSUME NEW K, K = Kept(s), NEW X, X = {e} \X Entries(q) PROVE Counted(t)'
      OBVIOUS
    <3>5. IsFiniteSet(K) /\ IsFiniteSet(X) /\ K \cap X = {} /\ Cardinality(X) = n /\ Kept(s)' = K \cup X
      BY <3>1, <3>2, <3>3, <3>4
    <3>6. /\ IsFiniteSet(Kept(s)') /\ Cardinality(Kept(s)) \in Nat
          /\ Cardinality(Kept(s)') = Cardinality(Kept(s)) + n
      <4>1. /\ IsFiniteSet(K \cup X) /\ Cardinality(K) \in Nat
            /\ Cardinality(K \cup X) = Cardinality(K) + Cardinality(X)
        BY <3>5, CountBoth
      <4>2. Kept(s)' = K \cup X /\ Kept(s) = K
        BY <3>5
      <4> QED BY <3>5, <4>1, <4>2
    <3>7. refs'[s] = refs[s] + n
      BY <1>3, <1>9
    <3>8. refs'[s] = Cardinality(Users(s)') + Cardinality(Held(s)') + Cardinality(Kept(s)')
      BY <1>9, <2>1, <2>2, <2>3, <3>2, <3>6, <3>7
    <3> QED BY <2>3, <3>6, <3>8 DEF Counted
  <2>4. CASE t # s
    <3>1. Kept(t)' = Kept(t)
      <4>1. ASSUME NEW p \in Enumerator \X Result PROVE p \in Kept(t)' <=> p \in Kept(t)
        <5>1. CASE p[1] = e
          BY <1>1, <1>5a, <1>13, <2>4, <4>1, <5>1 DEF Kept
        <5>2. CASE p[1] # e
          BY <1>1, <1>11, <4>1, <5>2 DEF Kept
        <5> QED BY <5>1, <5>2
      <4> QED BY <4>1 DEF Kept
    <3>2. refs'[t] = refs[t]
      BY <1>9, <2>4
    <3> QED BY <2>1, <2>2, <3>1, <3>2 DEF Counted, Data
  <2> QED BY <2>3, <2>4
<1> QED BY <1>11, <1>12, <1>15, <1>16 DEF Data

\* Letting go of some of an enumerator's results of a session.
LEMMA CountLess ==
    ASSUME Data, NEW e \in Enumerator, alive[e], NEW s \in Session,
           NEW B, B \subseteq {r \in Has(e) : r.session = s}
    PROVE  /\ IsFiniteSet(Kept(s) \ ({e} \X B)) /\ Cardinality(B) \in Nat
           /\ Cardinality(Kept(s) \ ({e} \X B)) = Cardinality(Kept(s)) - Cardinality(B)
           /\ Cardinality(Kept(s) \ ({e} \X B)) \in Nat
<1>1. walk[e].found \in Seq(Result) /\ results[e] \in Seq(Result)
  BY WalkParts
<1>2. Has(e) \subseteq Result /\ IsFiniteSet(Has(e))
  <2>1. IsFiniteSet(Entries(walk[e].found)) /\ IsFiniteSet(Entries(results[e]))
    BY <1>1, CountEntries
  <2>2. IsFiniteSet(Has(e))
    BY <2>1, FS_Union DEF Has
  <2> QED BY <1>1, <2>2 DEF Has, Entries
<1>3. IsFiniteSet(B)
  BY <1>2, FS_Subset
<1> SUFFICES ASSUME NEW K, K = Kept(s), NEW X, X = {e} \X B
    PROVE  /\ IsFiniteSet(K \ X) /\ Cardinality(B) \in Nat
           /\ Cardinality(K \ X) = Cardinality(K) - Cardinality(B) /\ Cardinality(K \ X) \in Nat
  OBVIOUS
<1>4. IsFiniteSet(X) /\ Cardinality(X) = Cardinality(B)
  BY <1>3, CountTagged
<1>5. X \subseteq K
  BY <1>2 DEF Kept
<1>6. IsFiniteSet(K)
  BY CountTypes
<1>7. /\ IsFiniteSet(K \ X) /\ Cardinality(K \ X) = Cardinality(K) - Cardinality(X)
      /\ Cardinality(X) \in Nat /\ Cardinality(K \ X) \in Nat
  BY <1>5, <1>6, CountRest
<1> QED BY <1>4, <1>7

\* The first k entries of a queue, or all of them, and the rest.
IsCut(f, k, t, d) ==
    /\ t = SubSeq(f, 1, IF Len(f) < k THEN Len(f) ELSE k)
    /\ d = IF Len(f) < k THEN <<>> ELSE SubSeq(f, k + 1, Len(f))

\* They make the queue, and differ when its entries do.
Parts(f, t, d) ==
    /\ t \in Seq(Result) /\ d \in Seq(Result)
    /\ Entries(f) = Entries(t) \cup Entries(d)
    /\ Distinct(f) => /\ Distinct(t) /\ Distinct(d)
                      /\ Entries(t) \cap Entries(d) = {}

\* SubSeq cuts a queue in two.
LEMMA TakenEntries ==
    ASSUME NEW f \in Seq(Result), NEW k \in Nat, NEW t, NEW d, IsCut(f, k, t, d)
    PROVE  Parts(f, t, d)
<1>1. Len(f) \in Nat
  OBVIOUS
<1>2. CASE Len(f) < k
  <2>1. t = SubSeq(f, 1, Len(f)) /\ d = <<>>
    BY <1>2 DEF IsCut
  <2>2. t = f
    BY <2>1, SubSeqFull
  <2>3. d \in Seq(Result) /\ DOMAIN d = {} /\ Entries(d) = {}
    BY <2>1, NoEntries
  <2>4. Distinct(d)
    BY <2>3 DEF Distinct
  <2> QED BY <2>2, <2>3, <2>4 DEF Parts
<1>3. CASE ~(Len(f) < k)
  <2>1. t = SubSeq(f, 1, k) /\ d = SubSeq(f, k + 1, Len(f)) /\ k \in 0..Len(f)
    BY <1>1, <1>3 DEF IsCut
  <2> QED BY <2>1, CutEntries DEF Parts
<1> QED BY <1>2, <1>3

\* The step of a walk that takes t from its results and leaves d: the bad ones
\* are let go, the good ones kept.
Takes(e, s, left, t, d, bad, good, v) ==
    /\ alive[e] /\ s \in Session /\ walk[e].session = s
    /\ \A r \in Entries(walk[e].found) : r.session = s
    /\ Parts(walk[e].found, t, d)
    /\ bad \subseteq Entries(t) /\ good \in Removed(t, bad)
    /\ v \in WalkState /\ WalkSound(v) /\ v.found = d /\ left \in BOOLEAN
    /\ v.handler \notin {"session", "find"}
    /\ v.session = IF left THEN None ELSE s
    /\ walk' = [walk EXCEPT ![e] = v]
    /\ results' = [results EXCEPT ![e] = @ \o good]
    /\ Freed(s, bad, left)
    /\ UNCHANGED <<alive, holding>>

\* Such a step keeps the invariant of the walks.
LEMMA TakesData ==
    ASSUME Data, NEW e \in Enumerator, NEW s, NEW left, NEW t, NEW d, NEW bad, NEW good, NEW v,
           Takes(e, s, left, t, d, bad, good, v)
    PROVE  Data'
<1> SUFFICES ASSUME NEW f, f = walk[e].found, NEW r, r = results[e], NEW g, g = r \o good PROVE Data'
  OBVIOUS
<1>1. /\ alive[e] /\ s \in Session /\ walk[e].session = s
      /\ \A x \in Entries(f) : x.session = s
      /\ Parts(f, t, d)
      /\ bad \in SUBSET Entries(t) /\ good \in Removed(t, bad)
      /\ v \in WalkState /\ WalkSound(v) /\ v.found = d /\ left \in BOOLEAN
      /\ v.handler \notin {"session", "find"}
      /\ v.session = IF left THEN None ELSE s
      /\ walk' = [walk EXCEPT ![e] = v]
      /\ UNCHANGED <<alive, holding>>
      /\ refs' = [refs EXCEPT ![s] = @ + (-(Cardinality(bad) + (IF left THEN 1 ELSE 0)))]
  BY DEF Takes, Freed, Adding
<1>2. f \in Seq(Result) /\ r \in Seq(Result) /\ refs \in [Session -> Nat]
  BY WalkParts DEF Data, DataType
<1>3. Apart(e)
  BY DEF Data
<1>4. Distinct(f) /\ Distinct(r) /\ Entries(f) \cap Entries(r) = {}
  BY <1>3 DEF Apart
<1>5. /\ t \in Seq(Result) /\ d \in Seq(Result) /\ Entries(f) = Entries(t) \cup Entries(d)
      /\ Distinct(t) /\ Distinct(d) /\ Entries(t) \cap Entries(d) = {}
  BY <1>1, <1>4 DEF Parts
<1>6. good \in Seq(Result) /\ Entries(good) = Entries(t) \ bad /\ Distinct(good)
  BY <1>1, <1>5, RemovedEntries
<1>7. /\ g \in Seq(Result) /\ Entries(g) = Entries(r) \cup Entries(good) /\ Distinct(g)
      /\ results' = [results EXCEPT ![e] = g]
  <2>1. Entries(r) \cap Entries(good) = {}
    BY <1>4, <1>5, <1>6
  <2>2. g \in Seq(Result) /\ Entries(g) = Entries(r) \cup Entries(good) /\ Distinct(g)
    BY <1>2, <1>4, <1>6, <2>1, ConcatEntries
  <2>3. results' = [results EXCEPT ![e] = g]
    BY DEF Takes
  <2> QED BY <2>2, <2>3
<1> HIDE DEF Takes
<1>8. Has(e) = Entries(f) \cup Entries(r) /\ Entries(d) \cup Entries(g) = Has(e) \ bad
      /\ bad \subseteq {x \in Has(e) : x.session = s}
  BY <1>1, <1>4, <1>5, <1>6, <1>7 DEF Has
<1>9. /\ IsFiniteSet(Kept(s) \ ({e} \X bad)) /\ Cardinality(bad) \in Nat
      /\ Cardinality(Kept(s) \ ({e} \X bad)) = Cardinality(Kept(s)) - Cardinality(bad)
      /\ Cardinality(Kept(s) \ ({e} \X bad)) \in Nat
  BY <1>1, <1>8, CountLess
<1>10. e \in Users(s) /\ Cardinality(Users(s) \ {e}) = Cardinality(Users(s)) - 1
       /\ Cardinality(Users(s) \ {e}) \in Nat
  <2>1. e \in Users(s)
    BY <1>1 DEF Users
  <2>2. IsFiniteSet(Users(s))
    BY <1>1, CountTypes
  <2>3. IsFiniteSet(Users(s) \ {e}) /\ Cardinality(Users(s) \ {e}) = Cardinality(Users(s)) - 1
    BY <2>1, <2>2, FS_RemoveElement
  <2> QED BY <2>1, <2>3, FS_CardinalityType
<1>11. /\ refs[s] = Cardinality(Users(s)) + Cardinality(Held(s)) + Cardinality(Kept(s))
       /\ Cardinality(Users(s)) \in Nat /\ Cardinality(Held(s)) \in Nat /\ Cardinality(Kept(s)) \in Nat
  BY <1>1, CountTypes
<1>12. refs'[s] = refs[s] - Cardinality(bad) - (IF left THEN 1 ELSE 0) /\ refs'[s] \in Nat
       /\ \A x \in Session \ {s} : refs'[x] = refs[x]
  <2>1. refs'[s] = refs[s] + (-(Cardinality(bad) + (IF left THEN 1 ELSE 0)))
        /\ \A x \in Session \ {s} : refs'[x] = refs[x]
    BY <1>1, <1>2
  <2>2. /\ refs[s] + (-(Cardinality(bad) + (IF left THEN 1 ELSE 0)))
             = refs[s] - Cardinality(bad) - (IF left THEN 1 ELSE 0)
        /\ refs[s] + (-(Cardinality(bad) + (IF left THEN 1 ELSE 0))) \in Nat
    <3>1. PICK n, u, h, k : /\ n = Cardinality(bad) /\ u = Cardinality(Users(s))
                            /\ h = Cardinality(Held(s)) /\ k = Cardinality(Kept(s))
      OBVIOUS
    <3>2. /\ n \in Nat /\ u \in Nat /\ h \in Nat /\ k \in Nat /\ refs[s] = u + h + k
          /\ k - n \in Nat /\ u - 1 \in Nat
      BY <1>9, <1>10, <1>11, <3>1
    <3>3. PICK b \in {0, 1} : b = IF left THEN 1 ELSE 0
      OBVIOUS
    <3>4. (u + h + k) + (-(n + b)) = (u + h + k) - n - b /\ (u + h + k) + (-(n + b)) \in Nat
      BY <3>2
    <3> QED BY <3>1, <3>2, <3>3, <3>4
  <2> QED BY <2>1, <2>2
<1>13. refs' \in [Session -> Nat]
  BY <1>1, <1>2, <1>12
<1>14. OnlyWalk(e, v, g)
  BY <1>1, <1>7 DEF OnlyWalk
<1>15. /\ DataType' /\ walk'[e] = v /\ results'[e] = g
       /\ \A x \in Enumerator \ {e} :
             /\ walk'[x] = walk[x] /\ results'[x] = results[x]
             /\ WalkSound(walk[x])' /\ Fresh(x)' /\ Apart(x)' /\ Has(x)' = Has(x)
  BY <1>13, <1>14, OthersStand
<1>16. WalkSound(walk[e])' /\ Fresh(e)'
  BY <1>1, <1>15 DEF Fresh
<1>17. Has(e)' = Has(e) \ bad
  BY <1>1, <1>8, <1>15 DEF Has
<1>18. Apart(e)'
  <2>1. \A x \in Has(e)' : <<e, x>> \notin holding'
    BY <1>1, <1>3, <1>17 DEF Apart
  <2>2. Entries(d) \cap Entries(g) = {}
    BY <1>4, <1>5, <1>6, <1>7
  <2>3. walk'[e].found = d /\ results'[e] = g
    BY <1>1, <1>15
  <2> QED BY <1>5, <1>7, <2>1, <2>2, <2>3 DEF Apart
<1>19. ASSUME NEW u \in Session PROVE Counted(u)'
  <2>1. Held(u)' = Held(u)
    BY <1>1 DEF Held
  <2>2. CASE u = s
    <3>1. Kept(s)' = Kept(s) \ ({e} \X bad)
      <4>1. ASSUME NEW p \in Enumerator \X Result
            PROVE  p \in Kept(s)' <=> p \in Kept(s) /\ p \notin {e} \X bad
        <5>1. CASE p[1] = e
          BY <1>1, <1>17, <4>1, <5>1 DEF Kept
        <5>2. CASE p[1] # e
          BY <1>1, <1>15, <4>1, <5>2 DEF Kept
        <5> QED BY <5>1, <5>2
      <4> QED BY <4>1 DEF Kept
    <3>2. Users(s)' = IF left THEN Users(s) \ {e} ELSE Users(s)
      <4>1. walk'[e].session = IF left THEN None ELSE s
        BY <1>1, <1>15
      <4>2. ASSUME NEW x \in Enumerator
            PROVE  x \in Users(s)' <=> x \in Users(s) /\ ~(left /\ x = e)
        BY <1>1, <1>15, <4>1, NoneIsNot DEF Users
      <4> QED BY <4>2, <1>1 DEF Users
    <3> SUFFICES ASSUME NEW K, K = Kept(s) \ ({e} \X bad), NEW U, U = Users(s) \ {e} PROVE Counted(u)'
      OBVIOUS
    <3>3. /\ IsFiniteSet(K) /\ Cardinality(K) = Cardinality(Kept(s)) - Cardinality(bad)
          /\ Cardinality(U) = Cardinality(Users(s)) - 1
          /\ Kept(s)' = K /\ Users(s)' = IF left THEN U ELSE Users(s)
      BY <1>9, <1>10, <3>1, <3>2
    <3>4. refs'[s] = Cardinality(Users(s)') + Cardinality(Held(s)') + Cardinality(Kept(s)')
      BY <1>1, <1>9, <1>11, <1>12, <2>1, <2>2, <3>3
    <3> QED BY <2>2, <3>3, <3>4 DEF Counted
  <2>3. CASE u # s
    <3>1. Kept(u)' = Kept(u)
      <4>1. ASSUME NEW p \in Enumerator \X Result PROVE p \in Kept(u)' <=> p \in Kept(u)
        <5>1. CASE p[1] = e
          BY <1>1, <1>8, <1>17, <2>3, <4>1, <5>1 DEF Kept
        <5>2. CASE p[1] # e
          BY <1>1, <1>15, <4>1, <5>2 DEF Kept
        <5> QED BY <5>1, <5>2
      <4> QED BY <4>1 DEF Kept
    <3>2. Users(u)' = Users(u)
      <4>1. ASSUME NEW x \in Enumerator PROVE x \in Users(u)' <=> x \in Users(u)
        BY <1>1, <1>15, <2>3, NoneIsNot DEF Users
      <4> QED BY <4>1 DEF Users
    <3> QED BY <1>12, <2>1, <2>3, <3>1, <3>2 DEF Counted, Data
  <2> QED BY <2>2, <2>3
<1> QED BY <1>15, <1>16, <1>18, <1>19 DEF Data

\* state_results.
LEMMA ResultsData ==
    ASSUME Data, Control, NEW c \in Caller, StateResults(c)
    PROVE  Data'
<1> SUFFICES ASSUME NEW e, e = at[c], NEW w, w = walk[e], NEW s, s = w.session,
                    NEW k, k = Wanted(c), NEW f, f = w.found, NEW left, left = (Len(f) < k)
             PROVE  Data'
  OBVIOUS
<1>1. w.handler = "results" /\ e \in Enumerator /\ alive[e] /\ UNCHANGED <<alive, holding>>
      /\ pc[c] = "run"
  BY AtWork DEF StateResults, Running, Working, shared
<1>2. /\ w \in WalkState /\ WalkSound(w) /\ w.modules \in Seq(Seq(Slot)) /\ f \in Seq(Result)
      /\ w.slots \in Seq(Slot) /\ w.slot \in Slot \cup {None} /\ results[e] \in Seq(Result)
      /\ w.session \in Session \cup {None}
  BY <1>1, WalkParts
<1>3. s \in Session /\ \A r \in Entries(f) : r.session = s
  BY <1>1, <1>2 DEF WalkSound, Holding
<1>4. k \in Nat
  <2>1. job[c] \in JobState /\ job[c].count < job[c].want
    BY <1>1, AtWork DEF Working
  <2> QED BY <2>1 DEF Wanted, JobState
<1>5. \E t, d, bad, good, v :
          /\ IsCut(f, k, t, d) /\ bad \subseteq Entries(t) /\ good \in Removed(t, bad)
          /\ results' = [results EXCEPT ![e] = @ \o good]
          /\ Freed(s, bad, left)
          /\ v = Walk(IF left THEN "slots" ELSE "results", w.modules, w.slots,
                      IF left THEN None ELSE w.slot, IF left THEN None ELSE s, d)
          /\ walk' = [walk EXCEPT ![e] = v]
  <2> DEFINE t == SubSeq(f, 1, IF left THEN Len(f) ELSE k)
  <2> DEFINE d == IF left THEN <<>> ELSE SubSeq(f, k + 1, Len(f))
  <2> DEFINE v == Walk(IF left THEN "slots" ELSE "results", w.modules, w.slots,
                       IF left THEN None ELSE w.slot, IF left THEN None ELSE s, d)
  <2>1. IsCut(f, k, t, d)
    BY DEF IsCut
  <2>2. PICK bad \in SUBSET Entries(t) : \E good \in Removed(t, bad) :
            /\ results' = [results EXCEPT ![e] = @ \o good]
            /\ Freed(s, bad, left)
            /\ walk' = [walk EXCEPT ![e] = v]
    BY DEF StateResults
  <2>3. v = Walk(IF left THEN "slots" ELSE "results", w.modules, w.slots,
                 IF left THEN None ELSE w.slot, IF left THEN None ELSE s, d)
    OBVIOUS
  <2> HIDE DEF t, d, v
  <2>4. PICK good \in Removed(t, bad) :
            /\ results' = [results EXCEPT ![e] = @ \o good]
            /\ Freed(s, bad, left)
            /\ walk' = [walk EXCEPT ![e] = v]
    BY <2>2
  <2> WITNESS t, d, bad, good, v
  <2> QED BY <2>1, <2>3, <2>4
<1>6. PICK t, d, bad, good, v :
          /\ IsCut(f, k, t, d) /\ bad \subseteq Entries(t) /\ good \in Removed(t, bad)
          /\ results' = [results EXCEPT ![e] = @ \o good]
          /\ Freed(s, bad, left)
          /\ v = Walk(IF left THEN "slots" ELSE "results", w.modules, w.slots,
                      IF left THEN None ELSE w.slot, IF left THEN None ELSE s, d)
          /\ walk' = [walk EXCEPT ![e] = v]
  BY <1>5
<1>7. Parts(f, t, d)
  BY <1>2, <1>4, <1>6, TakenEntries
<1>8. /\ v \in WalkState /\ v.found = d /\ v.session = (IF left THEN None ELSE s)
      /\ v.handler = (IF left THEN "slots" ELSE "results") /\ v.slot = (IF left THEN None ELSE w.slot)
  BY <1>2, <1>3, <1>6, <1>7 DEF Walk, WalkState, Handler, Parts
<1>9. WalkSound(v)
  <2>1. left => d = <<>>
    BY <1>6 DEF IsCut
  <2>2. Entries(d) \subseteq Entries(f)
    BY <1>7 DEF Parts
  <2>3. CASE left
    BY <1>8, <2>1, <2>3, NoEntries DEF WalkSound, Holding
  <2>4. CASE ~left
    BY <1>3, <1>8, <2>2, <2>4, NoneIsNot DEF WalkSound, Holding
  <2> QED BY <2>3, <2>4
<1>10. Takes(e, s, left, t, d, bad, good, v)
  <2>1. left \in BOOLEAN /\ v.handler \notin {"session", "find"}
    BY <1>8
  <2>2. walk[e].session = s /\ (\A r \in Entries(walk[e].found) : r.session = s) /\ Parts(walk[e].found, t, d)
    BY <1>3, <1>7
  <2> QED BY <1>1, <1>3, <1>6, <1>8, <1>9, <2>1, <2>2 DEF Takes
<1> QED BY <1>1, <1>10, TakesData

\* An object is let go.
LEMMA UnrefData ==
    ASSUME Data, NEW h \in holding, Unref(h)
    PROVE  Data'
<1> SUFFICES ASSUME NEW s, s = h[2].session PROVE Data'
  OBVIOUS
<1>1. /\ holding' = holding \ {h} /\ refs' = [refs EXCEPT ![s] = @ + (-1)]
      /\ UNCHANGED <<alive, walk, results>>
  BY DEF Unref, Adding, shared
<1>2. /\ holding \subseteq Enumerator \X Result /\ IsFiniteSet(holding) /\ refs \in [Session -> Nat]
      /\ s \in Session
  BY DEF Data, DataType, Result
<1>3. h \in Held(s)
  BY DEF Held
<1>4. /\ refs[s] = Cardinality(Users(s)) + Cardinality(Held(s)) + Cardinality(Kept(s))
      /\ Cardinality(Users(s)) \in Nat /\ Cardinality(Kept(s)) \in Nat
      /\ Cardinality(Held(s) \ {h}) = Cardinality(Held(s)) - 1
      /\ Cardinality(Held(s)) \in Nat /\ Cardinality(Held(s) \ {h}) \in Nat
  <2>1. IsFiniteSet(Held(s)) /\ IsFiniteSet(Held(s) \ {h})
    BY <1>2, CountTypes, FS_RemoveElement
  <2>2. Cardinality(Held(s) \ {h}) = Cardinality(Held(s)) - 1
    BY <1>3, <2>1, FS_RemoveElement
  <2> QED BY <1>2, <2>1, <2>2, CountTypes, FS_CardinalityType
<1>5. refs'[s] = refs[s] - 1 /\ refs'[s] \in Nat /\ \A x \in Session \ {s} : refs'[x] = refs[x]
  <2>1. refs'[s] = refs[s] + (-1) /\ \A x \in Session \ {s} : refs'[x] = refs[x]
    BY <1>1, <1>2
  <2>2. ASSUME NEW u \in Nat, NEW k \in Nat, NEW n \in Nat, n - 1 \in Nat, NEW m, m = u + n + k
        PROVE  m + (-1) = m - 1 /\ m - 1 \in Nat
    BY <2>2
  <2>3. refs[s] + (-1) = refs[s] - 1 /\ refs[s] - 1 \in Nat
    BY <1>4, <2>2
  <2> QED BY <2>1, <2>3
<1>6. DataType'
  <2>1. refs' \in [Session -> Nat]
    BY <1>1, <1>2, <1>5
  <2>2. IsFiniteSet(holding')
    BY <1>1, <1>2, FS_RemoveElement
  <2> QED BY <1>1, <1>2, <2>1, <2>2 DEF Data, DataType
<1>7. ASSUME NEW e \in Enumerator PROVE (WalkSound(walk[e]) /\ Fresh(e) /\ Apart(e))'
  <2>1. WalkSound(walk[e]) /\ Fresh(e) /\ Apart(e)
    BY DEF Data
  <2> QED BY <1>1, <2>1 DEF WalkSound, Fresh, Apart, Has
<1>8. ASSUME NEW t \in Session PROVE Counted(t)'
  <2>1. Users(t)' = Users(t) /\ Kept(t)' = Kept(t) /\ Counted(t)
    BY <1>1 DEF Users, Kept, Has, Data
  <2>2. CASE t = s
    <3>1. Held(s)' = Held(s) \ {h}
      BY <1>1 DEF Held
    <3> HIDE DEF Counted
    <3>2. refs'[s] = Cardinality(Users(s)) + Cardinality(Held(s) \ {h}) + Cardinality(Kept(s))
      BY <1>4, <1>5
    <3> QED BY <2>1, <2>2, <3>1, <3>2 DEF Counted
  <2>3. CASE t # s
    <3>1. Held(t)' = Held(t)
      BY <1>1, <2>3 DEF Held
    <3> QED BY <1>5, <2>1, <2>3, <3>1 DEF Counted
  <2> QED BY <2>2, <2>3
<1> QED BY <1>6, <1>7, <1>8 DEF Data

\* gck_enumerator_finalize.
LEMMA FinalizeData ==
    ASSUME Data, Control, NEW e \in Enumerator, Finalize(e)
    PROVE  Data'
<1>1. /\ alive[e] /\ alive' = [alive EXCEPT ![e] = FALSE] /\ UNCHANGED <<walk, results, holding>>
      /\ refs' = [s \in Session |-> refs[s] - HeldBy(e, s)]
  BY DEF Finalize
<1>0. ~alive'[e] /\ \A x \in Enumerator \ {e} : alive'[x] = alive[x]
  BY <1>1 DEF Control, SharedType
<1>2. walk[e].found \in Seq(Result) /\ results[e] \in Seq(Result)
  BY WalkParts
<1>3. ASSUME NEW s \in Session
      PROVE  Counted(s)' /\ refs'[s] \in Nat
  <2> SUFFICES ASSUME NEW B, B = Referring(e, s), NEW n, n = (IF walk[e].session = s THEN 1 ELSE 0)
      PROVE  Counted(s)' /\ refs'[s] \in Nat
    OBVIOUS
  <2>1. B = {r \in Has(e) : r.session = s}
    <3>1. Entries(walk[e].found \o results[e]) = Has(e)
      BY <1>2, ConcatEntries DEF Has
    <3> QED BY <3>1 DEF Referring
  <2>2. /\ IsFiniteSet(Kept(s) \ ({e} \X B)) /\ Cardinality(B) \in Nat
        /\ Cardinality(Kept(s) \ ({e} \X B)) = Cardinality(Kept(s)) - Cardinality(B)
        /\ Cardinality(Kept(s) \ ({e} \X B)) \in Nat
    <3>1. B \subseteq {r \in Has(e) : r.session = s}
      BY <2>1
    <3> HIDE DEF Has
    <3> QED BY <1>1, <3>1, CountLess
  <2>3. /\ IsFiniteSet(Users(s)) /\ Cardinality(Users(s)) \in Nat /\ Cardinality(Held(s)) \in Nat
        /\ Cardinality(Kept(s)) \in Nat
        /\ refs[s] = Cardinality(Users(s)) + Cardinality(Held(s)) + Cardinality(Kept(s))
    BY CountTypes
  <2>4. e \in Users(s) <=> walk[e].session = s
    BY <1>1 DEF Users
  <2>5. Cardinality(Users(s) \ {e}) = Cardinality(Users(s)) - n /\ Cardinality(Users(s) \ {e}) \in Nat /\ n \in Nat
    <3>1. /\ IsFiniteSet(Users(s) \ {e})
          /\ Cardinality(Users(s) \ {e}) = IF e \in Users(s) THEN Cardinality(Users(s)) - 1 ELSE Cardinality(Users(s))
      BY <2>3, FS_RemoveElement
    <3>2. Cardinality(Users(s) \ {e}) \in Nat
      BY <3>1, FS_CardinalityType
    <3> QED BY <2>3, <2>4, <3>1, <3>2
  <2>6. Users(s)' = Users(s) \ {e} /\ Held(s)' = Held(s)
    <3>1. Held(s)' = Held(s)
      BY <1>1 DEF Held
    <3>2. ASSUME NEW x \in Enumerator PROVE x \in Users(s)' <=> x \in Users(s) /\ x # e
      BY <1>0, <1>1 DEF Users
    <3> QED BY <3>1, <3>2 DEF Users
  <2>7. Kept(s)' = Kept(s) \ ({e} \X B)
    <3>1. ASSUME NEW p \in Enumerator \X Result
          PROVE  p \in Kept(s)' <=> p \in Kept(s) /\ p \notin {e} \X B
      <4>1. CASE p[1] = e
        BY <1>0, <1>1, <2>1, <3>1, <4>1 DEF Kept, Has
      <4>2. CASE p[1] # e
        BY <1>0, <1>1, <3>1, <4>2 DEF Kept, Has
      <4> QED BY <4>1, <4>2
    <3> QED BY <3>1 DEF Kept
  <2>8. refs'[s] = refs[s] - (n + Cardinality(B))
    BY <1>1 DEF HeldBy
  <2>9. refs'[s] = Cardinality(Users(s) \ {e}) + Cardinality(Held(s)) + Cardinality(Kept(s) \ ({e} \X B))
        /\ refs'[s] \in Nat
    BY <2>2, <2>3, <2>5, <2>8
  <2> QED BY <2>2, <2>6, <2>7, <2>9 DEF Counted
<1>4. DataType'
  <2>1. refs' \in [Session -> Nat]
    BY <1>1, <1>3
  <2> QED BY <1>1, <2>1 DEF Data, DataType
<1>5. ASSUME NEW x \in Enumerator PROVE (WalkSound(walk[x]) /\ Fresh(x) /\ Apart(x))'
  <2>1. WalkSound(walk[x]) /\ Fresh(x) /\ Apart(x)
    BY DEF Data
  <2> QED BY <1>1, <2>1 DEF WalkSound, Fresh, Apart, Has
<1> QED BY <1>3, <1>4, <1>5 DEF Data

\* extract_result hands out the first result an enumerator keeps.
LEMMA ExtractData ==
    ASSUME Data, Control, NEW c \in Caller, Extract(c)
    PROVE  Data'
<1> SUFFICES ASSUME NEW e, e = at[c], NEW q, q = results[e], NEW r, r = Head(q), NEW h, h = <<e, r>>,
                    NEW s, s = r.session
             PROVE  Data'
  OBVIOUS
<1>1. /\ pc[c] \in Working /\ q # <<>> /\ results' = [results EXCEPT ![e] = Tail(q)]
      /\ holding' = holding \cup {h} /\ UNCHANGED <<alive, walk, refs>>
  BY DEF Extract, shared, Working
<1>2. e \in Enumerator /\ alive[e]
  BY <1>1, AtWork
<1>3. /\ results \in [Enumerator -> Seq(Result)] /\ holding \subseteq Enumerator \X Result
      /\ IsFiniteSet(holding) /\ q \in Seq(Result)
  BY <1>2 DEF Data, DataType
<1>4. Apart(e)
  BY <1>2 DEF Data
<1>5. /\ r \in Entries(q) /\ r \in Result /\ Tail(q) \in Seq(Result)
      /\ Entries(q) = Entries(Tail(q)) \cup {r} /\ Distinct(Tail(q)) /\ r \notin Entries(Tail(q))
  BY <1>1, <1>3, <1>4, TailEntries DEF Apart
<1>6. results'[e] = Tail(q) /\ \A x \in Enumerator \ {e} : results'[x] = results[x]
  BY <1>1, <1>2, <1>3
<1>7. Has(e)' = Has(e) \ {r} /\ r \in Has(e) /\ h \notin holding
      /\ Entries(Tail(q)) \subseteq Entries(q)
  <2>1. Entries(walk[e].found) \cap Entries(q) = {}
    BY <1>4 DEF Apart
  <2>2. r \in Has(e)
    BY <1>5 DEF Has
  <2>3. h \notin holding
    BY <1>4, <2>2 DEF Apart
  <2> QED BY <1>1, <1>5, <1>6, <2>1, <2>2, <2>3 DEF Has
<1>8. s \in Session /\ h \in Enumerator \X Result
  BY <1>2, <1>5 DEF Result
<1>9. DataType'
  <2>1. IsFiniteSet(holding')
    BY <1>1, <1>3, FS_AddElement
  <2>2. holding' \subseteq Enumerator \X Result /\ results' \in [Enumerator -> Seq(Result)]
    BY <1>1, <1>3, <1>5, <1>8
  <2> QED BY <1>1, <2>1, <2>2 DEF Data, DataType
<1>10. ASSUME NEW x \in Enumerator PROVE (WalkSound(walk[x]) /\ Fresh(x) /\ Apart(x))'
  <2>1. WalkSound(walk[x]) /\ Fresh(x) /\ Apart(x)
    BY DEF Data
  <2>2. WalkSound(walk[x])'
    BY <1>1, <2>1 DEF WalkSound
  <2>3. CASE x # e
    <3>1. results'[x] = results[x] /\ Has(x)' = Has(x) /\ walk'[x] = walk[x]
      BY <1>1, <1>6, <2>3 DEF Has
    <3>2. Fresh(x)'
      BY <1>1, <2>1, <2>3, <3>1 DEF Fresh
    <3>3. Apart(x)'
      BY <1>1, <2>1, <2>3, <3>1 DEF Apart
    <3> QED BY <2>2, <3>2, <3>3
  <2>4. CASE x = e
    <3>1. walk'[e] = walk[e] /\ results'[e] = Tail(q)
      BY <1>1, <1>6
    <3>2. Fresh(e)'
      <4>1. walk[e].handler \in {"session", "find"} => \A y \in Entries(q) : y.session # walk[e].session
        BY <2>1, <2>4 DEF Fresh
      <4>2. walk[e].handler \in {"session", "find"} => s # walk[e].session
        BY <1>5, <4>1
      <4> QED BY <1>1, <1>7, <2>1, <2>4, <3>1, <4>1, <4>2 DEF Fresh
    <3>3. Apart(e)'
      <4>1. \A y \in Has(e)' : <<e, y>> \notin holding'
        BY <1>1, <1>4, <1>7 DEF Apart
      <4>2. Distinct(walk[e].found) /\ Entries(walk[e].found) \cap Entries(Tail(q)) = {}
        BY <1>4, <1>7 DEF Apart
      <4> QED BY <1>5, <3>1, <4>1, <4>2 DEF Apart
    <3> QED BY <2>2, <2>4, <3>2, <3>3
  <2> QED BY <2>3, <2>4
<1>11. ASSUME NEW t \in Session PROVE Counted(t)'
  <2>1. Users(t)' = Users(t)
    BY <1>1 DEF Users
  <2>2. CASE t = s
    <3>1. Held(s)' = Held(s) \cup {h} /\ h \notin Held(s)
      BY <1>1, <1>7, <1>8 DEF Held
    <3>2. Kept(s)' = Kept(s) \ {h} /\ h \in Kept(s)
      <4>1. ASSUME NEW p \in Enumerator \X Result PROVE p \in Kept(s)' <=> p \in Kept(s) /\ p # h
        <5>1. CASE p[1] = e
          BY <1>1, <1>7, <4>1, <5>1 DEF Kept
        <5>2. CASE p[1] # e
          <6>1. Has(p[1])' = Has(p[1])
            BY <1>1, <1>6, <4>1, <5>2 DEF Has
          <6> QED BY <1>1, <4>1, <5>2, <6>1 DEF Kept
        <5> QED BY <5>1, <5>2
      <4>2. h \in Kept(s)
        BY <1>2, <1>7, <1>8 DEF Kept
      <4> QED BY <4>1, <4>2 DEF Kept
    <3>3. /\ IsFiniteSet(Kept(s)) /\ IsFiniteSet(Held(s))
          /\ Cardinality(Users(s)) \in Nat /\ Cardinality(Held(s)) \in Nat /\ Cardinality(Kept(s)) \in Nat
          /\ refs[s] = Cardinality(Users(s)) + Cardinality(Held(s)) + Cardinality(Kept(s))
      BY <1>8, CountTypes
    <3>4. Cardinality(Held(s) \cup {h}) = Cardinality(Held(s)) + 1
      BY <3>1, <3>3, FS_AddElement
    <3>5. IsFiniteSet(Kept(s) \ {h}) /\ Cardinality(Kept(s) \ {h}) = Cardinality(Kept(s)) - 1
      BY <3>2, <3>3, FS_RemoveElement
    <3>6. refs[s] = Cardinality(Users(s)) + Cardinality(Held(s) \cup {h}) + Cardinality(Kept(s) \ {h})
      BY <3>3, <3>4, <3>5
    <3> QED BY <1>1, <2>1, <2>2, <3>1, <3>2, <3>5, <3>6 DEF Counted
  <2>3. CASE t # s
    <3>1. Held(t)' = Held(t)
      BY <1>1, <2>3 DEF Held
    <3>2. Kept(t)' = Kept(t)
      <4>1. ASSUME NEW p \in Enumerator \X Result PROVE p \in Kept(t)' <=> p \in Kept(t)
        <5>1. CASE p[1] = e
          BY <1>1, <1>7, <2>3, <4>1, <5>1 DEF Kept
        <5>2. CASE p[1] # e
          <6>1. Has(p[1])' = Has(p[1])
            BY <1>1, <1>6, <4>1, <5>2 DEF Has
          <6> QED BY <1>1, <4>1, <5>2, <6>1 DEF Kept
        <5> QED BY <5>1, <5>2
      <4> QED BY <4>1 DEF Kept
    <3>3. Counted(t)
      BY DEF Data
    <3> QED BY <1>1, <2>1, <3>1, <3>2, <3>3 DEF Counted
  <2> QED BY <2>2, <2>3
<1> QED BY <1>9, <1>10, <1>11 DEF Data

-----------------------------------------------------------------------------
(* The invariant.                                                          *)

\* The inductive invariant.
IInv == Control /\ Data

\* What the enumerators start with.
LEMMA StartWalks ==
    ASSUME Init, NEW e \in Enumerator
    PROVE  /\ walk[e] \in WalkState /\ WalkSound(walk[e]) /\ walk[e].found = <<>>
           /\ walk[e].session = Given[e] /\ results[e] = <<>> /\ alive[e]
<1>1. /\ Modules[e] \in Seq(Seq(Slot)) /\ Slots[e] \in Seq(Slot)
      /\ GivenSlot[e] \in Slot \cup {None} /\ Given[e] \in Session \cup {None}
      /\ Given[e] # None => GivenSlot[e] # None
  BY StartAssumption
<1>2. walk[e] = Walk(IF Given[e] # None THEN "session"
                     ELSE IF Modules[e] # <<>> THEN "modules" ELSE "slots",
                     Modules[e], Slots[e], GivenSlot[e], Given[e], <<>>)
  BY DEF Init
<1>3. walk[e] \in WalkState
  BY <1>1, <1>2 DEF Walk, WalkState, Handler
<1>4. walk[e].found = <<>> /\ walk[e].session = Given[e] /\ walk[e].slot = GivenSlot[e]
      /\ walk[e].handler = IF Given[e] # None THEN "session"
                           ELSE IF Modules[e] # <<>> THEN "modules" ELSE "slots"
  BY <1>2 DEF Walk
<1>5. WalkSound(walk[e])
  BY <1>1, <1>4, NoEntries DEF WalkSound, Holding
<1>6. results[e] = <<>> /\ alive[e]
  BY DEF Init
<1> QED BY <1>3, <1>4, <1>5, <1>6

\* It holds to begin with.
LEMMA InitInductive == Init => IInv
<1> SUFFICES ASSUME Init PROVE IInv
  OBVIOUS
<1>1. NoJob \in JobState
  BY DEF NoJob, Job, JobState
<1>2. SharedType /\ ControlType
  BY <1>1 DEF Init, SharedType, ControlType, Label
<1>3. Bonds
  BY DEF Init, Bonds
<1>4. ASSUME NEW c \in Caller PROVE Route(c) /\ Work(c) /\ Counts(c)
  <2>1. pc[c] = "idle" /\ path[c] = <<>> /\ carry[c] = None
    BY DEF Init
  <2> QED BY <2>1 DEF Route, Work, Counts, Working
<1>5. Control
  BY <1>2, <1>3, <1>4 DEF Control
<1>6. ASSUME NEW e \in Enumerator
      PROVE  /\ walk[e] \in WalkState /\ WalkSound(walk[e]) /\ Has(e) = {}
             /\ walk[e].session = Given[e] /\ results[e] = <<>> /\ alive[e] /\ Fresh(e) /\ Apart(e)
  <2>1. /\ walk[e] \in WalkState /\ WalkSound(walk[e]) /\ walk[e].found = <<>>
        /\ walk[e].session = Given[e] /\ results[e] = <<>> /\ alive[e]
    BY StartWalks
  <2>2. holding = {}
    BY DEF Init
  <2>3. Has(e) = {} /\ Entries(results[e]) = {} /\ Entries(walk[e].found) = {}
    BY <2>1, NoEntries DEF Has
  <2>4. Distinct(<<>>)
    BY DEF Distinct
  <2> QED BY <2>1, <2>2, <2>3, <2>4 DEF Fresh, Apart
<1>7. walk \in [Enumerator -> WalkState] /\ results \in [Enumerator -> Seq(Result)]
  <2>1. walk = [e \in Enumerator |-> walk[e]]
    BY DEF Init
  <2>2. results \in [Enumerator -> Seq(Result)]
    BY DEF Init
  <2> QED BY <1>6, <2>1, <2>2
<1>8. ASSUME NEW s \in Session PROVE refs[s] \in Nat /\ Counted(s)
  <2>1. Users(s) = {e \in Enumerator : Given[e] = s}
    BY <1>6 DEF Users
  <2>2. Held(s) = {} /\ Kept(s) = {}
    BY <1>6 DEF Held, Kept, Init
  <2>3. IsFiniteSet({e \in Enumerator : Given[e] = s})
    BY FiniteAssumption, FS_Subset
  <2>4. Cardinality({e \in Enumerator : Given[e] = s}) \in Nat
    BY <2>3, FS_CardinalityType
  <2>5. refs[s] = Cardinality({e \in Enumerator : Given[e] = s})
    BY DEF Init
  <2> QED BY <2>1, <2>2, <2>4, <2>5, FS_EmptySet DEF Counted
<1>9. refs \in [Session -> Nat]
  <2>1. refs = [s \in Session |-> refs[s]]
    BY DEF Init
  <2> QED BY <1>8, <2>1
<1>10. DataType
  BY <1>7, <1>9, FS_EmptySet DEF DataType, Init
<1> QED BY <1>5, <1>6, <1>8, <1>10 DEF IInv, Data

\* Every step keeps the invariant: the callers', then the walks'.
LEMMA StepInductive == IInv /\ [Next]_vars => IInv'
<1> SUFFICES ASSUME IInv, [Next]_vars PROVE IInv'
  OBVIOUS
<1>1. Control /\ Data
  BY DEF IInv
<1>2. ASSUME Control', UNCHANGED <<alive, walk, results, refs, holding>> PROVE IInv'
  BY <1>1, <1>2, StandData DEF IInv
<1>3. CASE UNCHANGED vars
  <2>1. UNCHANGED <<shared, control, job>> /\ UNCHANGED <<alive, walk, results, refs, holding>>
    BY <1>3 DEF vars, shared
  <2> QED BY <1>1, <1>2, <2>1, ControlStands
<1>4. ASSUME NEW e \in Enumerator, Finalize(e) PROVE IInv'
  BY <1>1, <1>4, FinalizeControl, FinalizeData DEF IInv
<1>5. ASSUME NEW e \in Enumerator, NEW x \in Enumerator \cup {None}, SetChained(e, x) PROVE IInv'
  <2>1. UNCHANGED <<alive, walk, results, refs, holding>>
    BY <1>5 DEF SetChained
  <2> QED BY <1>1, <1>2, <1>5, <2>1, SetChainedControl
<1>6. ASSUME NEW h \in holding, Unref(h) PROVE IInv'
  <2>1. UNCHANGED <<shared, control, job>>
    BY <1>6 DEF Unref
  <2> QED BY <1>1, <1>6, <2>1, ControlStands, UnrefData DEF IInv
<1>7. ASSUME NEW c \in Caller, NEW e \in Enumerator, NEW want \in Want[c], Begin(c, e, want) PROVE IInv'
  <2>1. UNCHANGED <<alive, walk, results, refs, holding>>
    BY <1>7 DEF Begin, shared
  <2> QED BY <1>1, <1>2, <1>7, <2>1, BeginControl
<1>8. ASSUME NEW c \in Caller, Step(c) PROVE IInv'
  <2>1. CASE Chain(c)
    <3>1. UNCHANGED <<alive, walk, results, refs, holding>>
      BY <2>1 DEF Chain, shared
    <3> QED BY <1>1, <1>2, <2>1, <3>1, ChainControl
  <2>2. CASE Claim(c)
    <3>1. UNCHANGED <<alive, walk, results, refs, holding>>
      BY <2>2 DEF Claim
    <3> QED BY <1>1, <1>2, <2>2, <3>1, ClaimControl
  <2>3. CASE CheckIn(c)
    <3>1. UNCHANGED <<alive, walk, results, refs, holding>>
      BY <2>3 DEF CheckIn
    <3> QED BY <1>1, <1>2, <2>3, <3>1, CheckInControl
  <2>4. CASE Perform(c)
    <3>1. UNCHANGED <<alive, walk, results, refs, holding>>
      BY <2>4 DEF Perform, shared
    <3> QED BY <1>1, <1>2, <2>4, <3>1, PerformControl
  <2>5. CASE Finish(c)
    <3>1. UNCHANGED <<alive, walk, results, refs, holding>>
      BY <2>5 DEF Finish, shared
    <3> QED BY <1>1, <1>2, <2>5, <3>1, FinishControl
  <2>6. CASE Extracted(c)
    <3>1. UNCHANGED <<alive, walk, results, refs, holding>>
      BY <2>6 DEF Extracted, shared
    <3> QED BY <1>1, <1>2, <2>6, <3>1, ExtractedControl
  <2>7. CASE Extract(c)
    BY <1>1, <2>7, ExtractControl, ExtractData DEF IInv
  <2>8. ASSUME \/ StateModules(c) \/ StateSlots(c) \/ StateSlot(c)
               \/ StateSession(c) \/ StateFind(c) \/ StateResults(c)
        PROVE  IInv'
    <3>1. Data'
      BY <1>1, <2>8, ModulesData, SlotsData, SlotData, SessionData, FindData, ResultsData
    <3>2. DataType /\ DataType'
      BY <1>1, <3>1 DEF Data
    <3>3. Control'
      BY <1>1, <2>8, <3>2, StateControl
    <3> QED BY <3>1, <3>3 DEF IInv
  <2> QED BY <1>8, <2>1, <2>2, <2>3, <2>4, <2>5, <2>6, <2>7, <2>8 DEF Step
<1> QED BY <1>3, <1>4, <1>5, <1>6, <1>7, <1>8 DEF Next

\* The invariant says what EnumerationSound says.
LEMMA InductiveSound == IInv => EnumerationSound
<1> SUFFICES ASSUME IInv PROVE EnumerationSound
  OBVIOUS
<1>1. Control /\ Data /\ SharedType /\ ControlType /\ DataType /\ Bonds
      /\ (\A c \in Caller : Work(c)) /\ (\A e \in Enumerator : WalkSound(walk[e]) /\ Apart(e))
      /\ \A s \in Session : Counted(s)
  BY DEF IInv, Control, Data
<1>2. TypeOK
  <2>1. /\ alive \in [Enumerator -> BOOLEAN] /\ chained \in [Enumerator -> Enumerator \cup {None}]
        /\ owner \in [Enumerator -> Caller \cup {None}] /\ link \in [Enumerator -> Enumerator \cup {None}]
    BY <1>1 DEF SharedType
  <2>2. /\ pc \in [Caller -> Label] /\ path \in [Caller -> Seq(Enumerator)]
        /\ carry \in [Caller -> Enumerator \cup {None}] /\ at \in [Caller -> Enumerator \cup {None}]
    BY <1>1 DEF ControlType
  <2>3. refs \in [Session -> Nat] /\ holding \subseteq Enumerator \X Result
    BY <1>1 DEF DataType
  <2>4. ASSUME NEW e \in Enumerator
        PROVE  /\ walk[e].handler \in Handler /\ walk[e].session \in Session \cup {None}
               /\ walk[e].found \in Seq(Result) /\ results[e] \in Seq(Result)
    BY <1>1 DEF DataType, WalkState
  <2> QED BY <2>1, <2>2, <2>3, <2>4 DEF TypeOK, Label
<1>3. Exclusive
  BY <1>1 DEF Exclusive, Work, Working, Bonds
<1>4. SessionRefs
  BY <1>1, RefsCounted
<1>5. FoundOnce
  BY <1>1, FoundOnceApart
<1> QED BY <1>2, <1>3, <1>4, <1>5 DEF EnumerationSound

\* Callers that enumerate at the same time keep out of each other's way
\* (check_out_enumerator_state), a session is kept as long as a walk, a result
\* or an object uses it, and no result is with an enumerator twice or again
\* after it was returned.
THEOREM EnumeratorsSound == Spec => []EnumerationSound
<1>1. Spec => []IInv
  BY InitInductive, StepInductive, PTL DEF Spec
<1> QED BY <1>1, InductiveSound, PTL
=============================================================================
