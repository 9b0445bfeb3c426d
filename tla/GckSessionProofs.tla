--------------------------- MODULE GckSessionProofs ---------------------------
(***************************************************************************)
(* Proof that calls on one session keep off each other, for any number of   *)
(* sessions, calls, keys and handles: SessionsSound of GckSession is an     *)
(* invariant, on tokens that refuse a second operation and on tokens that    *)
(* begin it in place of the first.  It is not inductive.  What it needs is   *)
(* who holds a reference (ReferencesHeld), who owns a handle (HandlesHeld),  *)
(* what a call has at each of its steps (CallsWell) and that an operation is *)
(* that of a call under way, which on a token that refuses keeps it          *)
(* (OperationsHeld).                                                         *)
(***************************************************************************)
EXTENDS GckSession, FiniteSetTheorems, TLAPS

Result == {"ok", "cancelled", "failed", "notloggedin", "alreadyloggedin", "active"}

OpeningPc == {"perform", "open"}
LoginPc == {"token", "ask", "right", "wrong", "pad"}
CryptPc == {"key", "keyask", "keyright", "keywrong", "keypad", "length", "compute"}
FindPc == {"findnext", "findfinal"}
Pc == {"idle", "done", "init", "findinit", "simple"} \cup OpeningPc \cup LoginPc \cup CryptPc \cup FindPc

CallType ==
    [pc : Pc, kind : Kind, session : Session \cup {None}, handle : Handle \cup {None},
     key : Key \cup {None}, login : BOOLEAN, rv : Result, out : Key \cup {None}]

\* What the steps of a call say about its kind, its session and its handle.
CallWell(a) ==
    /\ a \in CallType
    /\ a.pc = "idle" => a = NoCall
    /\ a.pc # "idle" => a.session # None
    /\ a.pc # "idle" /\ a.kind # "open" => a.handle # None
    /\ a.pc = "open" => a.kind = "open"
    /\ a.pc \in LoginPc => a.kind \in {"open", "login"}
    /\ a.pc \in CryptPc \cup {"init"} => a.kind = "crypt"
    /\ a.pc \in FindPc \cup {"findinit"} => a.kind = "find"
    /\ a.pc = "simple" => a.kind = "simple"
    /\ a.kind = "open" /\ a.pc \in OpeningPc => a.handle = None
    /\ a.kind = "open" /\ a.pc \in LoginPc => a.handle # None
    /\ a.kind = "open" /\ a.pc = "done" /\ a.rv = "ok" => a.handle # None
    /\ a.kind = "crypt" /\ a.pc = "done" /\ a.rv = "ok" /\ refusing => a.out = a.key

\* The calls on a session, each of which holds a reference to it.
Users(s) == {c \in Call : call[c].session = s}

Typed ==
    /\ refs \in [Session -> Nat]
    /\ handle \in [Session -> Handle \cup {None}]
    /\ opened \subseteq Handle
    /\ crypting \in [Handle -> [key : Key \cup {None}, by : Call \cup {None}]]
    /\ finding \in [Handle -> Call \cup {None}]
    /\ logged \in BOOLEAN
    /\ call \in [Call -> CallType]
    /\ refusing \in BOOLEAN
    /\ wrong \in Nat
    /\ orphans \subseteq opened

CallsWell == \A c \in Call : CallWell(call[c])

\* A session without references is in nobody's hands, one that is being opened
\* in those of the call that opens it, and one that is open in those of its
\* calls and, perhaps, of the application.
Referenced(s) ==
    /\ refs[s] = 0 => Users(s) = {} /\ handle[s] = None
    /\ refs[s] # 0 /\ handle[s] = None =>
          refs[s] = 1 /\ \E c \in Call : Users(s) = {c} /\ call[c].kind = "open"
    /\ handle[s] # None =>
          /\ refs[s] \in {Cardinality(Users(s)), Cardinality(Users(s)) + 1}
          /\ \A c \in Users(s) : call[c].kind # "open" /\ call[c].handle = handle[s]

ReferencesHeld == \A s \in Session : Referenced(s)

Opening(c) == call[c].kind = "open" /\ call[c].handle # None

\* An open handle has one owner, a session or the call that opens one, unless
\* it is an orphan.
HandlesHeld ==
    /\ \A s \in Session : handle[s] # None => handle[s] \in opened \ orphans
    /\ \A c \in Call : Opening(c) => call[c].handle \in opened \ orphans
    /\ \A s, t \in Session : handle[s] # None /\ handle[s] = handle[t] => s = t
    /\ \A c, d \in Call : Opening(c) /\ Opening(d) /\ call[c].handle = call[d].handle => c = d
    /\ \A s \in Session, c \in Call : Opening(c) => call[c].handle # handle[s]
    /\ \A h \in opened \ orphans :
          (\E s \in Session : handle[s] = h) \/ (\E c \in Call : Opening(c) /\ call[c].handle = h)

\* What is active on a handle is there for a call, and where the token refuses
\* whatever is begun meanwhile, what a call has begun stays active.
OperationsHeld ==
    /\ refusing =>
          /\ \A c \in Call : InCrypt(c) => crypting[call[c].handle] = [key |-> call[c].key, by |-> c]
          /\ \A c \in Call : InFind(c) => finding[call[c].handle] = c
    /\ NothingLeftActive

\* Wrong PINs that have been entered and are not yet refused count too.
Entered == {c \in Call : call[c].pc \in {"wrong", "keywrong"}}
WrongBounded == wrong + Cardinality(Entered) <= MaxWrong + Cardinality(Call)

IInv == Typed /\ CallsWell /\ ReferencesHeld /\ HandlesHeld /\ OperationsHeld /\ WrongBounded

-----------------------------------------------------------------------------
(* Calls that move on.                                                     *)

\* The sets that are counted are finite.
LEMMA UsersCounted ==
    ASSUME NEW s
    PROVE  /\ IsFiniteSet(Users(s)) /\ Cardinality(Users(s)) \in Nat
           /\ Cardinality(Users(s)) <= Cardinality(Call) /\ Cardinality(Call) \in Nat
<1>1. Users(s) \subseteq Call
  BY DEF Users
<1> QED
  BY <1>1, FiniteAssumption, FS_Subset, FS_CardinalityType

\* Steps that leave sessions and handles to whom they belong.
LEMMA HoldersKept ==
    ASSUME Typed, ReferencesHeld, HandlesHeld,
           UNCHANGED <<refs, handle, opened, orphans>>,
           \A d \in Call : /\ call'[d].session = call[d].session
                           /\ call'[d].handle = call[d].handle
                           /\ call'[d].kind = call[d].kind
    PROVE  ReferencesHeld' /\ HandlesHeld'
<1>1. \A s \in Session : Users(s)' = Users(s)
  BY DEF Users
<1>2. ReferencesHeld'
  <2> SUFFICES ASSUME NEW s \in Session PROVE Referenced(s)'
    BY DEF ReferencesHeld
  <2>1. Referenced(s)
    BY DEF ReferencesHeld
  <2>2. Users(s)' = Users(s) /\ Users(s) \subseteq Call
    BY <1>1 DEF Users
  <2> QED
    BY <2>1, <2>2 DEF Referenced
<1>3. HandlesHeld'
  BY DEF HandlesHeld, Opening
<1> QED
  BY <1>2, <1>3

\* Goto, Done and the last step of Complete.
LEMMA CallMoves ==
    ASSUME refusing' = refusing,
           Typed, CallsWell, ReferencesHeld, HandlesHeld, NEW c \in Call, NEW b,
           call' = [call EXCEPT ![c] = b], CallWell(b),
           b.session = call[c].session, b.handle = call[c].handle, b.kind = call[c].kind,
           UNCHANGED <<refs, handle, opened, orphans>>
    PROVE  /\ call' \in [Call -> CallType] /\ CallsWell' /\ ReferencesHeld' /\ HandlesHeld'
           /\ call'[c] = b /\ \A d \in Call : d # c => call'[d] = call[d]
<1>1. /\ call' \in [Call -> CallType] /\ call'[c] = b
      /\ \A d \in Call : d # c => call'[d] = call[d]
  BY DEF Typed, CallWell
<1>2. CallsWell'
  BY <1>1 DEF CallsWell, CallWell
<1> QED
  BY <1>1, <1>2, HoldersKept

LEMMA GotoWell ==
    ASSUME Typed, CallsWell, NEW c \in Call, NEW label \in Pc \ {"idle", "done", "open"},
           call[c].pc \notin {"idle", "done"},
           label \in LoginPc => call[c].kind \in {"open", "login"} /\ call[c].handle # None,
           label \in CryptPc \cup {"init"} => call[c].kind = "crypt",
           label \in FindPc \cup {"findinit"} => call[c].kind = "find",
           label = "simple" => call[c].kind = "simple", label # "perform"
    PROVE  CallWell(Args(label, call[c].kind, call[c].session, call[c].handle, call[c].key,
                         call[c].login, call[c].rv, call[c].out))
<1>1. CallWell(call[c])
  BY DEF CallsWell
<1> QED
  BY <1>1 DEF CallWell, Args, CallType, Pc, OpeningPc, LoginPc, CryptPc, FindPc, Kind, NoCall

LEMMA DoneWell ==
    ASSUME Typed, CallsWell, NEW c \in Call, NEW rv \in Result,
           call[c].pc # "idle",
           rv = "ok" => call[c].kind # "crypt" /\ (call[c].kind = "open" => call[c].handle # None)
    PROVE  CallWell(Args("done", call[c].kind, call[c].session, call[c].handle, call[c].key,
                         call[c].login, rv, call[c].out))
<1>1. CallWell(call[c])
  BY DEF CallsWell
<1> QED
  BY <1>1 DEF CallWell, Args, CallType, Pc, OpeningPc, LoginPc, CryptPc, FindPc, Kind, NoCall

-----------------------------------------------------------------------------
(* Operations and wrong PINs.                                              *)

\* A step after which the same calls have an operation active.
LEMMA OperationsKept ==
    ASSUME refusing' = refusing,
           OperationsHeld, UNCHANGED <<crypting, finding, abandoned>>,
           \A d \in Call : /\ InCrypt(d)' = InCrypt(d) /\ InFind(d)' = InFind(d)
                           /\ InCrypt(d) \/ InFind(d) =>
                                 call'[d].handle = call[d].handle /\ call'[d].key = call[d].key
    PROVE  OperationsHeld'
<1>1. refusing =>
      /\ \A c \in Call : InCrypt(c)' => crypting'[call'[c].handle] = [key |-> call'[c].key, by |-> c]
      /\ \A c \in Call : InFind(c)' => finding'[call'[c].handle] = c
  BY DEF OperationsHeld
<1>2. NothingLeftActive'
  <2> SUFFICES ASSUME NEW h \in Handle \ abandoned
               PROVE  /\ crypting[h] # NoOp =>
                            \E c \in Call : crypting[h].by = c /\ InCrypt(c)' /\ call'[c].handle = h
                      /\ finding[h] # None =>
                            \E c \in Call : finding[h] = c /\ InFind(c)' /\ call'[c].handle = h
    BY DEF NothingLeftActive, NoOp
  <2>1. /\ crypting[h] # NoOp =>
              \E c \in Call : crypting[h].by = c /\ InCrypt(c) /\ call[c].handle = h
        /\ finding[h] # None =>
              \E c \in Call : finding[h] = c /\ InFind(c) /\ call[c].handle = h
    BY DEF OperationsHeld, NothingLeftActive
  <2> QED
    BY <2>1
<1> QED
  BY <1>1, <1>2 DEF OperationsHeld

\* A call gives up: the handle it leaves is abandoned.
LEMMA OperationsGivenUp ==
    ASSUME refusing' = refusing,
           OperationsHeld, NEW c \in Call, UNCHANGED <<crypting, finding>>,
           abandoned' = abandoned \cup {call[c].handle},
           \A d \in Call : d # c => call'[d] = call[d],
           call'[c].pc = "done"
    PROVE  OperationsHeld'
<1>1. ~InCrypt(c)' /\ ~InFind(c)'
  BY DEF InCrypt, InFind
<1>2. \A d \in Call : d # c => InCrypt(d)' = InCrypt(d) /\ InFind(d)' = InFind(d)
  BY DEF InCrypt, InFind
<1>3. refusing =>
      /\ \A d \in Call : InCrypt(d)' => crypting'[call'[d].handle] = [key |-> call'[d].key, by |-> d]
      /\ \A d \in Call : InFind(d)' => finding'[call'[d].handle] = d
  BY <1>1, <1>2 DEF OperationsHeld
<1>4. NothingLeftActive'
  <2> SUFFICES ASSUME NEW h \in Handle \ abandoned, h # call[c].handle
               PROVE  /\ crypting[h] # NoOp =>
                            \E d \in Call : crypting[h].by = d /\ InCrypt(d)' /\ call'[d].handle = h
                      /\ finding[h] # None =>
                            \E d \in Call : finding[h] = d /\ InFind(d)' /\ call'[d].handle = h
    BY DEF NothingLeftActive, NoOp
  <2>1. /\ crypting[h] # NoOp =>
              \E d \in Call : crypting[h].by = d /\ InCrypt(d) /\ call[d].handle = h
        /\ finding[h] # None =>
              \E d \in Call : finding[h] = d /\ InFind(d) /\ call[d].handle = h
    BY DEF OperationsHeld, NothingLeftActive
  <2> QED
    BY <2>1, <1>2
<1> QED
  BY <1>3, <1>4 DEF OperationsHeld

LEMMA EnteredCounted ==
    /\ IsFiniteSet(Entered) /\ Cardinality(Entered) \in Nat
    /\ Cardinality(Entered) <= Cardinality(Call) /\ Cardinality(Call) \in Nat
    /\ Entered # Call => Cardinality(Entered) < Cardinality(Call)
<1>1. Entered \subseteq Call
  BY DEF Entered
<1> QED
  BY <1>1, FiniteAssumption, FS_Subset, FS_CardinalityType

\* No wrong PIN is entered or refused.
LEMMA NoneEntered ==
    ASSUME Typed, WrongBounded, wrong' = wrong,
           \A d \in Call : call'[d].pc \in {"wrong", "keywrong"} => call[d].pc \in {"wrong", "keywrong"}
    PROVE  WrongBounded'
<1>1. Entered' \subseteq Entered
  BY DEF Entered
<1>2. Cardinality(Entered') <= Cardinality(Entered) /\ Cardinality(Entered') \in Nat
  BY <1>1, EnteredCounted, FS_Subset, FS_CardinalityType
<1> QED
  BY <1>2, EnteredCounted, TokenAssumption DEF WrongBounded, Typed

\* A wrong PIN is entered.
LEMMA OneEntered ==
    ASSUME Typed, WrongBounded, NEW c \in Call, wrong' = wrong, wrong < MaxWrong,
           call[c].pc \notin {"wrong", "keywrong"}, call'[c].pc \in {"wrong", "keywrong"},
           \A d \in Call : d # c => call'[d] = call[d]
    PROVE  WrongBounded'
<1>1. Entered' = Entered \cup {c} /\ c \notin Entered /\ Entered # Call
  BY DEF Entered
<1>2. Cardinality(Entered') = Cardinality(Entered) + 1
  BY <1>1, EnteredCounted, FS_AddElement
<1> QED
  BY <1>1, <1>2, EnteredCounted, TokenAssumption DEF WrongBounded, Typed

\* A wrong PIN is refused.
LEMMA OneRefused ==
    ASSUME Typed, WrongBounded, NEW c \in Call, wrong' = wrong + 1,
           call[c].pc \in {"wrong", "keywrong"}, call'[c].pc \notin {"wrong", "keywrong"},
           \A d \in Call : d # c => call'[d] = call[d]
    PROVE  WrongBounded'
<1>1. Entered' = Entered \ {c} /\ c \in Entered
  BY DEF Entered
<1>2. Cardinality(Entered') = Cardinality(Entered) - 1
  BY <1>1, EnteredCounted, FS_RemoveElement
<1> QED
  BY <1>2, EnteredCounted, TokenAssumption DEF WrongBounded, Typed

\* A step of a call that touches no operation and enters no wrong PIN.
LEMMA LocalStep ==
    ASSUME refusing' = refusing,
           IInv, NEW c \in Call, NEW b,
           call' = [call EXCEPT ![c] = b], CallWell(b),
           b.session = call[c].session, b.handle = call[c].handle,
           b.kind = call[c].kind, b.key = call[c].key,
           b.pc \in CryptPc <=> call[c].pc \in CryptPc,
           b.pc \in FindPc <=> call[c].pc \in FindPc,
           b.pc \in {"wrong", "keywrong"} => call[c].pc \in {"wrong", "keywrong"},
           UNCHANGED <<refs, handle, opened, crypting, finding, history>>, logged' \in BOOLEAN
    PROVE  IInv'
<1>1. /\ call' \in [Call -> CallType] /\ CallsWell' /\ ReferencesHeld' /\ HandlesHeld'
      /\ call'[c] = b /\ \A d \in Call : d # c => call'[d] = call[d]
  BY CallMoves DEF IInv, history
<1>2. Typed'
  BY <1>1 DEF IInv, Typed, history
<1>3. \A d \in Call : InCrypt(d)' = InCrypt(d) /\ InFind(d)' = InFind(d)
  BY <1>1 DEF InCrypt, InFind, CryptPc, FindPc
<1>4. OperationsHeld'
  BY <1>1, <1>3, OperationsKept DEF IInv, history
<1>5. WrongBounded'
  BY <1>1, NoneEntered DEF IInv, history
<1> QED
  BY <1>1, <1>2, <1>4, <1>5 DEF IInv

LEMMA GotoStep ==
    ASSUME refusing' = refusing,
           IInv, NEW c \in Call, NEW label \in Pc \ {"idle", "done", "open", "perform"},
           Goto(c, label), call[c].pc \notin {"idle", "done"},
           label \in LoginPc => call[c].kind \in {"open", "login"} /\ call[c].handle # None,
           label \in CryptPc \cup {"init"} => call[c].kind = "crypt",
           label \in FindPc \cup {"findinit"} => call[c].kind = "find",
           label = "simple" => call[c].kind = "simple",
           label \in CryptPc <=> call[c].pc \in CryptPc,
           label \in FindPc <=> call[c].pc \in FindPc,
           label \notin {"wrong", "keywrong"},
           UNCHANGED <<refs, handle, token, history>>
    PROVE  IInv'
<1> DEFINE a == call[c]
           b == Args(label, a.kind, a.session, a.handle, a.key, a.login, a.rv, a.out)
<1>1. CallWell(b)
  BY GotoWell DEF IInv
<1>2. call' = [call EXCEPT ![c] = b]
  BY DEF Goto
<1>3. /\ b.session = a.session /\ b.handle = a.handle /\ b.kind = a.kind /\ b.key = a.key
      /\ b.pc = label
  BY DEF Args
<1>4. logged' \in BOOLEAN /\ UNCHANGED <<refs, handle, opened, crypting, finding, history>>
  BY DEF IInv, Typed, token
<1> HIDE DEF a, b
<1> QED
  BY <1>1, <1>2, <1>3, <1>4, LocalStep DEF a

LEMMA DoneStep ==
    ASSUME refusing' = refusing,
           IInv, NEW c \in Call, NEW rv \in Result, Done(c, rv),
           call[c].pc \notin CryptPc \cup FindPc \cup {"idle"},
           rv = "ok" => call[c].kind # "crypt" /\ (call[c].kind = "open" => call[c].handle # None),
           UNCHANGED <<refs, handle, opened, crypting, finding, history>>, logged' \in BOOLEAN
    PROVE  IInv'
<1> DEFINE a == call[c]
           b == Args("done", a.kind, a.session, a.handle, a.key, a.login, rv, a.out)
<1>1. CallWell(b)
  BY DoneWell DEF IInv
<1>2. call' = [call EXCEPT ![c] = b]
  BY DEF Done
<1>3. /\ b.session = a.session /\ b.handle = a.handle /\ b.kind = a.kind /\ b.key = a.key
      /\ b.pc = "done"
  BY DEF Args
<1>4. /\ b.pc \in CryptPc <=> call[c].pc \in CryptPc
      /\ b.pc \in FindPc <=> call[c].pc \in FindPc
      /\ b.pc \notin {"wrong", "keywrong"}
  BY <1>3 DEF CryptPc, FindPc
<1> HIDE DEF a, b
<1> QED
  BY <1>1, <1>2, <1>3, <1>4, LocalStep DEF a

-----------------------------------------------------------------------------
(* The steps of a call, one by one.                                        *)

LEMMA PerformPreserves ==
    ASSUME refusing' = refusing,
           IInv, NEW c \in Call, Perform(c)
    PROVE  IInv'
<1> DEFINE first == [open |-> "open", login |-> "token", crypt |-> "init", find |-> "findinit",
                     simple |-> "simple"]
           a == call[c]
<1>1. /\ a.pc = "perform" /\ CallWell(a) /\ a.kind \in Kind
      /\ UNCHANGED <<refs, handle, token, history>>
      /\ UNCHANGED <<refs, handle, opened, crypting, finding, history>> /\ logged' \in BOOLEAN
  BY DEF Perform, IInv, CallsWell, CallWell, CallType, Typed, token
<1>2. CASE Done(c, "cancelled")
  BY <1>1, <1>2, DoneStep DEF Result, CryptPc, FindPc
<1>3. CASE Goto(c, first[a.kind]) /\ a.kind = "open"
  <2> DEFINE b == Args("open", a.kind, a.session, a.handle, a.key, a.login, a.rv, a.out)
  <2>1. CallWell(b)
    BY <1>1, <1>3 DEF CallWell, Args, CallType, Pc, OpeningPc, LoginPc, CryptPc, FindPc, Kind, NoCall
  <2>2. call' = [call EXCEPT ![c] = b]
    BY <1>3 DEF Goto
  <2>3. /\ b.session = a.session /\ b.handle = a.handle /\ b.kind = a.kind /\ b.key = a.key
        /\ b.pc = "open"
    BY DEF Args
  <2>4. /\ b.pc \in CryptPc <=> call[c].pc \in CryptPc
        /\ b.pc \in FindPc <=> call[c].pc \in FindPc
        /\ b.pc \notin {"wrong", "keywrong"}
    BY <1>1, <2>3 DEF CryptPc, FindPc
  <2> HIDE DEF b
  <2> QED
    BY <1>1, <2>1, <2>2, <2>3, <2>4, LocalStep
<1>4. CASE Goto(c, first[a.kind]) /\ a.kind # "open"
  <2>1. /\ a.handle # None
        /\ \/ a.kind = "login" /\ first[a.kind] = "token"
           \/ a.kind = "crypt" /\ first[a.kind] = "init"
           \/ a.kind = "find" /\ first[a.kind] = "findinit"
           \/ a.kind = "simple" /\ first[a.kind] = "simple"
    BY <1>1, <1>4 DEF CallWell, Kind
  <2> HIDE DEF first
  <2>2. CASE a.kind = "login"
    BY <1>1, <1>4, <2>1, <2>2, GotoStep DEF Pc, LoginPc, CryptPc, FindPc, OpeningPc
  <2>3. CASE a.kind = "crypt"
    BY <1>1, <1>4, <2>1, <2>3, GotoStep DEF Pc, LoginPc, CryptPc, FindPc, OpeningPc
  <2>4. CASE a.kind = "find"
    BY <1>1, <1>4, <2>1, <2>4, GotoStep DEF Pc, LoginPc, CryptPc, FindPc, OpeningPc
  <2>5. CASE a.kind = "simple"
    BY <1>1, <1>4, <2>1, <2>5, GotoStep DEF Pc, LoginPc, CryptPc, FindPc, OpeningPc
  <2> QED
    BY <2>1, <2>2, <2>3, <2>4, <2>5
<1> QED
  BY <1>2, <1>3, <1>4 DEF Perform

LEMMA SimplePreserves ==
    ASSUME refusing' = refusing,
           IInv, NEW c \in Call, Simple(c) \/ Logout(c)
    PROVE  IInv'
<1>1. call[c].pc = "simple" /\ call[c].kind = "simple"
  BY DEF Simple, Logout, IInv, CallsWell, CallWell
<1>2. UNCHANGED <<refs, handle, opened, crypting, finding, history>> /\ logged' \in BOOLEAN
  BY DEF Simple, Logout, IInv, Typed, token
<1>3. \E rv \in {"ok", "failed"} : Done(c, rv)
  BY DEF Simple, Logout
<1> QED
  BY <1>1, <1>2, <1>3, DoneStep DEF Result, CryptPc, FindPc

LEMMA TokenPreserves ==
    ASSUME refusing' = refusing,
           IInv, NEW c \in Call, Token(c)
    PROVE  IInv'
<1>1. /\ call[c].pc = "token" /\ call[c].kind \in {"open", "login"} /\ call[c].handle # None
      /\ UNCHANGED <<refs, handle, token, history>>
      /\ UNCHANGED <<refs, handle, opened, crypting, finding, history>> /\ logged' \in BOOLEAN
  BY DEF Token, IInv, CallsWell, CallWell, LoginPc, Typed, token
<1>2. CASE \E rv \in {"ok", "failed"} : Done(c, rv)
  BY <1>1, <1>2, DoneStep DEF Result, CryptPc, FindPc
<1>3. CASE Goto(c, "ask")
  BY <1>1, <1>3, GotoStep DEF Pc, LoginPc, CryptPc, FindPc, OpeningPc
<1>4. CASE Goto(c, "pad")
  BY <1>1, <1>4, GotoStep DEF Pc, LoginPc, CryptPc, FindPc, OpeningPc
<1> QED
  BY <1>2, <1>3, <1>4, TokenAssumption DEF Token

\* A wrong PIN is entered for the token or for a key.
LEMMA EnteringPreserves ==
    ASSUME refusing' = refusing,
           IInv, NEW c \in Call, NEW label \in {"wrong", "keywrong"}, Goto(c, label),
           label = "wrong" => call[c].pc = "ask", label = "keywrong" => call[c].pc = "keyask",
           wrong < MaxWrong, UNCHANGED <<refs, handle, token, history>>
    PROVE  IInv'
<1> DEFINE a == call[c]
           b == Args(label, a.kind, a.session, a.handle, a.key, a.login, a.rv, a.out)
<1>1. CallWell(a)
  BY DEF IInv, CallsWell
<1>2. CallWell(b)
  BY <1>1 DEF CallWell, Args, CallType, Pc, OpeningPc, LoginPc, CryptPc, FindPc, Kind, NoCall
<1>3. call' = [call EXCEPT ![c] = b]
  BY DEF Goto
<1>4. /\ b.session = a.session /\ b.handle = a.handle /\ b.kind = a.kind /\ b.key = a.key
      /\ b.pc = label
  BY DEF Args
<1> HIDE DEF b
<1>5. /\ call' \in [Call -> CallType] /\ CallsWell' /\ ReferencesHeld' /\ HandlesHeld'
      /\ call'[c] = b /\ \A d \in Call : d # c => call'[d] = call[d]
  BY <1>2, <1>3, <1>4, CallMoves DEF IInv, history, token
<1>6. Typed'
  BY <1>5 DEF IInv, Typed, history, token
<1>7. \A d \in Call : InCrypt(d)' = InCrypt(d) /\ InFind(d)' = InFind(d)
  BY <1>4, <1>5 DEF InCrypt, InFind
<1>8. OperationsHeld'
  BY <1>4, <1>5, <1>7, OperationsKept DEF IInv, history, token
<1>9. WrongBounded'
  BY <1>4, <1>5, OneEntered DEF IInv, history
<1> QED
  BY <1>5, <1>6, <1>8, <1>9 DEF IInv

LEMMA AskPreserves ==
    ASSUME refusing' = refusing,
           IInv, NEW c \in Call, Ask(c)
    PROVE  IInv'
<1>1. /\ call[c].pc = "ask" /\ call[c].kind \in {"open", "login"} /\ call[c].handle # None
      /\ UNCHANGED <<refs, handle, token, history>>
      /\ UNCHANGED <<refs, handle, opened, crypting, finding, history>> /\ logged' \in BOOLEAN
  BY DEF Ask, IInv, CallsWell, CallWell, LoginPc, Typed, token
<1>2. CASE Done(c, "notloggedin")
  BY <1>1, <1>2, DoneStep DEF Result, CryptPc, FindPc
<1>3. CASE Goto(c, "right")
  BY <1>1, <1>3, GotoStep DEF Pc, LoginPc, CryptPc, FindPc, OpeningPc
<1>4. CASE wrong < MaxWrong /\ Goto(c, "wrong")
  BY <1>1, <1>4, EnteringPreserves
<1> QED
  BY <1>2, <1>3, <1>4 DEF Ask

\* A wrong PIN is refused, and the user is asked again.
LEMMA RefusedPreserves ==
    ASSUME refusing' = refusing,
           IInv, NEW c \in Call, NEW label \in {"token", "keyask"}, Goto(c, label),
           label = "token" => call[c].pc = "wrong", label = "keyask" => call[c].pc = "keywrong",
           wrong' = wrong + 1, UNCHANGED <<refs, handle, token, orphans, abandoned>>
    PROVE  IInv'
<1> DEFINE a == call[c]
           b == Args(label, a.kind, a.session, a.handle, a.key, a.login, a.rv, a.out)
<1>1. CallWell(a)
  BY DEF IInv, CallsWell
<1>2. CallWell(b)
  BY <1>1 DEF CallWell, Args, CallType, Pc, OpeningPc, LoginPc, CryptPc, FindPc, Kind, NoCall
<1>3. call' = [call EXCEPT ![c] = b]
  BY DEF Goto
<1>4. /\ b.session = a.session /\ b.handle = a.handle /\ b.kind = a.kind /\ b.key = a.key
      /\ b.pc = label
  BY DEF Args
<1> HIDE DEF b
<1>5. /\ call' \in [Call -> CallType] /\ CallsWell' /\ ReferencesHeld' /\ HandlesHeld'
      /\ call'[c] = b /\ \A d \in Call : d # c => call'[d] = call[d]
  BY <1>2, <1>3, <1>4, CallMoves DEF IInv, token
<1>6. Typed'
  BY <1>5 DEF IInv, Typed, token
<1>7. \A d \in Call : InCrypt(d)' = InCrypt(d) /\ InFind(d)' = InFind(d)
  BY <1>4, <1>5 DEF InCrypt, InFind
<1>8. OperationsHeld'
  BY <1>4, <1>5, <1>7, OperationsKept DEF IInv, token
<1>9. WrongBounded'
  BY <1>4, <1>5, OneRefused DEF IInv
<1> QED
  BY <1>5, <1>6, <1>8, <1>9 DEF IInv

LEMMA LoginPreserves ==
    ASSUME refusing' = refusing,
           IInv, NEW c \in Call, Login(c)
    PROVE  IInv'
<1>1. /\ call[c].pc \in {"right", "wrong", "pad"} /\ call[c].kind \in {"open", "login"}
      /\ call[c].handle # None
      /\ UNCHANGED <<refs, handle, opened, crypting, finding, orphans, abandoned>>
  BY DEF Login, IInv, CallsWell, CallWell, LoginPc
<1>2. CASE /\ \E rv \in {"alreadyloggedin", "ok", "failed"} : Done(c, rv)
           /\ logged' \in BOOLEAN /\ UNCHANGED wrong
  BY <1>1, <1>2, DoneStep DEF Result, CryptPc, FindPc, history
<1>3. CASE call[c].pc = "wrong" /\ Goto(c, "token") /\ wrong' = wrong + 1 /\ UNCHANGED logged
  BY <1>1, <1>3, RefusedPreserves DEF token
<1> QED
  BY <1>2, <1>3 DEF Login, IInv, Typed

-----------------------------------------------------------------------------
(* Operations: begun by one call at a time, and ended by that call.        *)

\* A call begins or ends an operation on its handle, and goes on.
LEMMA OperatingPreserves ==
    ASSUME refusing' = refusing,
           IInv, NEW c \in Call, NEW b, call' = [call EXCEPT ![c] = b], CallWell(b),
           b.session = call[c].session, b.handle = call[c].handle, b.kind = call[c].kind,
           b.pc \notin {"wrong", "keywrong"},
           crypting' \in [Handle -> [key : Key \cup {None}, by : Call \cup {None}]],
           finding' \in [Handle -> Call \cup {None}], OperationsHeld',
           UNCHANGED <<refs, handle, opened, logged, wrong, orphans>>
    PROVE  IInv'
<1>1. /\ call' \in [Call -> CallType] /\ CallsWell' /\ ReferencesHeld' /\ HandlesHeld'
      /\ call'[c] = b /\ \A d \in Call : d # c => call'[d] = call[d]
  BY CallMoves DEF IInv
<1>2. Typed'
  BY <1>1 DEF IInv, Typed
<1>3. WrongBounded'
  BY <1>1, NoneEntered DEF IInv
<1> QED
  BY <1>1, <1>2, <1>3 DEF IInv

LEMMA CryptInitPreserves ==
    ASSUME refusing' = refusing,
           IInv, NEW c \in Call, CryptInit(c)
    PROVE  IInv'
<1> DEFINE a == call[c]
           h == call[c].handle
           b == Args("key", a.kind, a.session, a.handle, a.key, a.login, a.rv, a.out)
<1>1. /\ a.pc = "init" /\ CallWell(a) /\ a.kind = "crypt" /\ h \in Handle
      /\ a.key \in Key \cup {None}
      /\ UNCHANGED <<refs, handle, opened, logged, history>>
  BY DEF CryptInit, IInv, CallsWell, CallWell, CallType
<1>2. CASE /\ \E rv \in {"failed", "active"} : Done(c, rv)
           /\ UNCHANGED <<crypting, finding>>
  <2>1. logged' \in BOOLEAN
    BY <1>1 DEF IInv, Typed
  <2> QED
    BY <1>1, <1>2, <2>1, DoneStep DEF Result, CryptPc, FindPc
<1>3. CASE /\ crypting[h] = NoOp \/ ~refusing
           /\ Cryptic(h, [key |-> a.key, by |-> c])
           /\ Goto(c, "key")
  <2>1. CallWell(b)
    BY <1>1, GotoWell DEF IInv, Pc, OpeningPc, LoginPc, CryptPc, FindPc
  <2>2. call' = [call EXCEPT ![c] = b]
    BY <1>3 DEF Goto
  <2>3. /\ b.session = a.session /\ b.handle = a.handle /\ b.kind = a.kind /\ b.key = a.key
        /\ b.pc = "key"
    BY DEF Args
  <2> HIDE DEF b
  <2>4. call'[c] = b /\ \A d \in Call : d # c => call'[d] = call[d]
    BY <2>2 DEF IInv, Typed
  <2>5. /\ crypting' \in [Handle -> [key : Key \cup {None}, by : Call \cup {None}]]
        /\ finding' \in [Handle -> Call \cup {None}]
    BY <1>1, <1>3 DEF IInv, Typed, Cryptic
  <2>6. /\ InCrypt(c)' /\ ~InFind(c)' /\ ~InFind(c) /\ ~InCrypt(c)
        /\ \A d \in Call : d # c => InCrypt(d)' = InCrypt(d) /\ InFind(d)' = InFind(d)
    BY <1>1, <2>3, <2>4 DEF InCrypt, InFind
  <2>7. refusing => \A d \in Call : InCrypt(d) => call[d].handle # h
    <3> SUFFICES ASSUME refusing, NEW d \in Call, InCrypt(d), call[d].handle = h PROVE FALSE
      OBVIOUS
    <3>1. crypting[h] = [key |-> call[d].key, by |-> d]
      BY DEF IInv, OperationsHeld
    <3>2. d = None
      BY <1>3, <3>1 DEF NoOp
    <3> QED
      BY <3>2, NoneAssumption
  <2>8. /\ crypting'[h] = [key |-> a.key, by |-> c]
        /\ \A g \in Handle : g # h => crypting'[g] = crypting[g] /\ finding'[g] = finding[g]
        /\ refusing => finding' = finding
        /\ finding'[h] \in {None, finding[h]}
    BY <1>1, <1>3 DEF IInv, Typed, Cryptic
  <2>9. refusing =>
        /\ \A d \in Call : InCrypt(d)' => crypting'[call'[d].handle] = [key |-> call'[d].key, by |-> d]
        /\ \A d \in Call : InFind(d)' => finding'[call'[d].handle] = d
    <3>1. \A d \in Call : InCrypt(d) => call[d].handle \in Handle
      BY DEF InCrypt, IInv, CallsWell, CallWell, CallType, CryptPc
    <3> QED
      BY <1>1, <2>3, <2>4, <2>6, <2>7, <2>8, <3>1 DEF IInv, OperationsHeld
  <2>10. NothingLeftActive'
    <3> SUFFICES ASSUME NEW g \in Handle \ abandoned
                 PROVE  /\ crypting'[g] # NoOp =>
                             \E d \in Call : crypting'[g].by = d /\ InCrypt(d)' /\ call'[d].handle = g
                        /\ finding'[g] # None =>
                             \E d \in Call : finding'[g] = d /\ InFind(d)' /\ call'[d].handle = g
      BY <1>1 DEF NothingLeftActive, NoOp, history
    <3>1. /\ crypting[g] # NoOp =>
               \E d \in Call : crypting[g].by = d /\ InCrypt(d) /\ call[d].handle = g
          /\ finding[g] # None =>
               \E d \in Call : finding[g] = d /\ InFind(d) /\ call[d].handle = g
      BY DEF IInv, OperationsHeld, NothingLeftActive
    <3>2. finding'[g] # None => \E d \in Call : finding'[g] = d /\ InFind(d)' /\ call'[d].handle = g
      BY <2>4, <2>6, <2>8, <3>1
    <3>3. CASE g = h
      BY <3>2, <3>3, <2>3, <2>4, <2>6, <2>8
    <3>4. CASE g # h
      BY <3>1, <3>2, <3>4, <2>4, <2>6, <2>8
    <3> QED
      BY <3>3, <3>4
  <2>11. OperationsHeld'
    BY <2>9, <2>10 DEF OperationsHeld
  <2> QED
    BY <1>1, <2>1, <2>2, <2>3, <2>5, <2>11, OperatingPreserves DEF history
<1> QED
  BY <1>2, <1>3 DEF CryptInit

LEMMA KeyInfoPreserves ==
    ASSUME refusing' = refusing,
           IInv, NEW c \in Call, KeyInfo(c)
    PROVE  IInv'
<1>1. /\ call[c].pc = "key" /\ call[c].kind = "crypt"
      /\ UNCHANGED <<refs, handle, token, history>>
  BY DEF KeyInfo, IInv, CallsWell, CallWell, CryptPc
<1>2. \E label \in {"keypad", "keyask", "length"} : Goto(c, label)
  BY DEF KeyInfo
<1> QED
  BY <1>1, <1>2, GotoStep DEF Pc, LoginPc, CryptPc, FindPc, OpeningPc

\* A call gives up an operation that is active.
LEMMA GivingUpPreserves ==
    ASSUME refusing' = refusing,
           IInv, NEW c \in Call, NEW rv \in {"failed", "notloggedin"}, GivingUp(c, rv),
           call[c].pc # "idle", UNCHANGED <<refs, handle, token, wrong, orphans>>
    PROVE  IInv'
<1> DEFINE a == call[c]
           b == Args("done", a.kind, a.session, a.handle, a.key, a.login, rv, a.out)
<1>1. CallWell(b)
  BY DoneWell DEF IInv, Result
<1>2. call' = [call EXCEPT ![c] = b] /\ abandoned' = abandoned \cup {a.handle}
  BY DEF GivingUp, Done
<1>3. /\ b.session = a.session /\ b.handle = a.handle /\ b.kind = a.kind /\ b.pc = "done"
  BY DEF Args
<1> HIDE DEF b
<1>4. call'[c] = b /\ \A d \in Call : d # c => call'[d] = call[d]
  BY <1>2 DEF IInv, Typed
<1>5. OperationsHeld'
  BY <1>2, <1>3, <1>4, OperationsGivenUp DEF IInv, token
<1>6. /\ crypting' \in [Handle -> [key : Key \cup {None}, by : Call \cup {None}]]
      /\ finding' \in [Handle -> Call \cup {None}]
  BY DEF IInv, Typed, token
<1> QED
  BY <1>1, <1>2, <1>3, <1>5, <1>6, OperatingPreserves DEF token

LEMMA KeyAskPreserves ==
    ASSUME refusing' = refusing,
           IInv, NEW c \in Call, KeyAsk(c)
    PROVE  IInv'
<1>1. /\ call[c].pc = "keyask" /\ call[c].kind = "crypt"
      /\ UNCHANGED <<refs, handle, token, wrong, orphans>>
  BY DEF KeyAsk, IInv, CallsWell, CallWell, CryptPc
<1>2. CASE Goto(c, "keyright") /\ UNCHANGED abandoned
  BY <1>1, <1>2, GotoStep DEF Pc, LoginPc, CryptPc, FindPc, OpeningPc, history
<1>3. CASE wrong < MaxWrong /\ Goto(c, "keywrong") /\ UNCHANGED abandoned
  BY <1>1, <1>3, EnteringPreserves DEF history
<1>4. CASE GivingUp(c, "notloggedin")
  BY <1>1, <1>4, GivingUpPreserves
<1> QED
  BY <1>2, <1>3, <1>4 DEF KeyAsk

LEMMA KeyLoginPreserves ==
    ASSUME refusing' = refusing,
           IInv, NEW c \in Call, KeyLogin(c)
    PROVE  IInv'
<1>1. /\ call[c].pc \in {"keyright", "keywrong", "keypad"} /\ call[c].kind = "crypt"
      /\ UNCHANGED <<refs, handle, token, orphans>>
  BY DEF KeyLogin, IInv, CallsWell, CallWell, CryptPc
<1>2. CASE Goto(c, "length") /\ UNCHANGED <<wrong, abandoned>>
  BY <1>1, <1>2, GotoStep DEF Pc, LoginPc, CryptPc, FindPc, OpeningPc, history
<1>3. CASE call[c].pc = "keywrong" /\ Goto(c, "keyask") /\ wrong' = wrong + 1 /\ UNCHANGED abandoned
  BY <1>1, <1>3, RefusedPreserves
<1>4. CASE GivingUp(c, "failed") /\ UNCHANGED wrong
  BY <1>1, <1>4, GivingUpPreserves
<1> QED
  BY <1>2, <1>3, <1>4 DEF KeyLogin

\* The token ends the operation of a call that is over.
LEMMA EndingPreserves ==
    ASSUME refusing' = refusing,
           IInv, NEW c \in Call, NEW b, call' = [call EXCEPT ![c] = b], CallWell(b),
           b.session = call[c].session, b.handle = call[c].handle, b.kind = call[c].kind,
           b.pc = "done",
           \/ /\ InCrypt(c) /\ UNCHANGED finding
              /\ crypting' = [crypting EXCEPT ![call[c].handle] = NoOp]
           \/ /\ InFind(c) /\ UNCHANGED crypting
              /\ finding' = [finding EXCEPT ![call[c].handle] = None],
           UNCHANGED <<refs, handle, opened, logged, history>>
    PROVE  IInv'
<1> DEFINE h == call[c].handle
<1>1. /\ call'[c] = b /\ \A d \in Call : d # c => call'[d] = call[d]
      /\ \A d \in Call : InCrypt(d) \/ InFind(d) => call[d].handle \in Handle
  BY DEF InCrypt, InFind, IInv, CallsWell, CallWell, CallType, CryptPc, FindPc, Typed
<1>2. /\ ~InCrypt(c)' /\ ~InFind(c)' /\ ~(InCrypt(c) /\ InFind(c))
      /\ \A d \in Call : d # c => InCrypt(d)' = InCrypt(d) /\ InFind(d)' = InFind(d)
  BY <1>1 DEF InCrypt, InFind
<1>3. CASE /\ InCrypt(c) /\ UNCHANGED finding
           /\ crypting' = [crypting EXCEPT ![h] = NoOp]
  <2>1. /\ crypting'[h] = NoOp /\ \A g \in Handle : g # h => crypting'[g] = crypting[g]
        /\ crypting' \in [Handle -> [key : Key \cup {None}, by : Call \cup {None}]]
        /\ finding' \in [Handle -> Call \cup {None}]
    BY <1>1, <1>3 DEF IInv, Typed, NoOp
  <2>2. refusing => \A d \in Call : InCrypt(d) /\ call[d].handle = h => d = c
    <3> SUFFICES ASSUME refusing, NEW d \in Call, InCrypt(d), call[d].handle = h PROVE d = c
      OBVIOUS
    <3>1. /\ crypting[h] = [key |-> call[d].key, by |-> d]
          /\ crypting[h] = [key |-> call[c].key, by |-> c]
      BY <1>3 DEF IInv, OperationsHeld
    <3> QED
      BY <3>1
  <2>3. refusing =>
        /\ \A d \in Call : InCrypt(d)' => crypting'[call'[d].handle] = [key |-> call'[d].key, by |-> d]
        /\ \A d \in Call : InFind(d)' => finding'[call'[d].handle] = d
    BY <1>1, <1>2, <1>3, <2>1, <2>2 DEF IInv, OperationsHeld
  <2>4. NothingLeftActive'
    <3> SUFFICES ASSUME NEW g \in Handle \ abandoned
                 PROVE  /\ crypting'[g] # NoOp =>
                             \E d \in Call : crypting'[g].by = d /\ InCrypt(d)' /\ call'[d].handle = g
                        /\ finding[g] # None =>
                             \E d \in Call : finding[g] = d /\ InFind(d)' /\ call'[d].handle = g
      BY <1>3 DEF NothingLeftActive, NoOp, history
    <3>1. /\ crypting[g] # NoOp =>
               \E d \in Call : crypting[g].by = d /\ InCrypt(d) /\ call[d].handle = g
          /\ finding[g] # None =>
               \E d \in Call : finding[g] = d /\ InFind(d) /\ call[d].handle = g
      BY DEF IInv, OperationsHeld, NothingLeftActive
    <3>2. finding[g] # None => \E d \in Call : finding[g] = d /\ InFind(d)' /\ call'[d].handle = g
      BY <1>1, <1>2, <1>3, <3>1
    <3> QED
      BY <3>1, <3>2, <1>1, <1>2, <2>1
  <2> QED
    BY <2>1, <2>3, <2>4, OperatingPreserves DEF OperationsHeld, history
<1>4. CASE /\ InFind(c) /\ UNCHANGED crypting
           /\ finding' = [finding EXCEPT ![h] = None]
  <2>1. /\ finding'[h] = None /\ \A g \in Handle : g # h => finding'[g] = finding[g]
        /\ crypting' \in [Handle -> [key : Key \cup {None}, by : Call \cup {None}]]
        /\ finding' \in [Handle -> Call \cup {None}]
    BY <1>1, <1>4 DEF IInv, Typed
  <2>2. refusing => \A d \in Call : InFind(d) /\ call[d].handle = h => d = c
    BY <1>4 DEF IInv, OperationsHeld
  <2>3. refusing =>
        /\ \A d \in Call : InCrypt(d)' => crypting'[call'[d].handle] = [key |-> call'[d].key, by |-> d]
        /\ \A d \in Call : InFind(d)' => finding'[call'[d].handle] = d
    BY <1>1, <1>2, <1>4, <2>1, <2>2 DEF IInv, OperationsHeld
  <2>4. NothingLeftActive'
    <3> SUFFICES ASSUME NEW g \in Handle \ abandoned
                 PROVE  /\ crypting[g] # NoOp =>
                             \E d \in Call : crypting[g].by = d /\ InCrypt(d)' /\ call'[d].handle = g
                        /\ finding'[g] # None =>
                             \E d \in Call : finding'[g] = d /\ InFind(d)' /\ call'[d].handle = g
      BY <1>4 DEF NothingLeftActive, NoOp, history
    <3>1. /\ crypting[g] # NoOp =>
               \E d \in Call : crypting[g].by = d /\ InCrypt(d) /\ call[d].handle = g
          /\ finding[g] # None =>
               \E d \in Call : finding[g] = d /\ InFind(d) /\ call[d].handle = g
      BY DEF IInv, OperationsHeld, NothingLeftActive
    <3>2. crypting[g] # NoOp =>
               \E d \in Call : crypting[g].by = d /\ InCrypt(d)' /\ call'[d].handle = g
      BY <1>1, <1>2, <1>4, <3>1
    <3> QED
      BY <3>1, <3>2, <1>1, <1>2, <2>1
  <2> QED
    BY <2>1, <2>3, <2>4, OperatingPreserves DEF OperationsHeld, history
<1> QED
  BY <1>3, <1>4

LEMMA CompletePreserves ==
    ASSUME refusing' = refusing,
           IInv, NEW c \in Call, Complete(c)
    PROVE  IInv'
<1> DEFINE a == call[c]
           h == call[c].handle
<1>1. /\ a.pc \in {"length", "compute"} /\ a.kind = "crypt" /\ CallWell(a) /\ InCrypt(c)
      /\ UNCHANGED <<refs, handle, opened, finding, logged, history>>
  BY DEF Complete, IInv, CallsWell, CallWell, CryptPc, InCrypt
<1>2. crypting[h].key \in Key \cup {None} /\ (refusing => crypting[h].key = a.key)
  <2>1. refusing => crypting[h] = [key |-> a.key, by |-> c]
    BY <1>1 DEF IInv, OperationsHeld
  <2>2. h \in Handle
    BY <1>1 DEF CallWell, CallType
  <2> QED
    BY <2>1, <2>2 DEF IInv, Typed
<1>3. CASE a.pc = "length" /\ Goto(c, "compute") /\ UNCHANGED crypting
  BY <1>1, <1>3, GotoStep DEF Pc, LoginPc, CryptPc, FindPc, OpeningPc, token
<1>4. CASE /\ call' = [call EXCEPT ![c] = Args("done", a.kind, a.session, h, a.key, a.login,
                                               "ok", crypting[h].key)]
           /\ crypting' = [crypting EXCEPT ![h] = NoOp]
  <2> DEFINE b == Args("done", a.kind, a.session, h, a.key, a.login, "ok", crypting[h].key)
  <2>1. CallWell(b)
    BY <1>1, <1>2 DEF CallWell, Args, CallType, Pc, OpeningPc, LoginPc, CryptPc, FindPc, Kind,
                      NoCall, Result
  <2>2. /\ b.session = a.session /\ b.handle = a.handle /\ b.kind = a.kind /\ b.pc = "done"
    BY DEF Args
  <2>3. call' = [call EXCEPT ![c] = b]
    BY <1>4
  <2> HIDE DEF b
  <2> QED
    BY <1>1, <1>4, <2>1, <2>2, <2>3, EndingPreserves
<1>5. CASE Done(c, "failed") /\ crypting' = [crypting EXCEPT ![h] = NoOp]
  <2> DEFINE b == Args("done", a.kind, a.session, a.handle, a.key, a.login, "failed", a.out)
  <2>1. CallWell(b)
    BY <1>1, DoneWell DEF IInv, Result
  <2>2. /\ b.session = a.session /\ b.handle = a.handle /\ b.kind = a.kind /\ b.pc = "done"
    BY DEF Args
  <2>3. call' = [call EXCEPT ![c] = b]
    BY <1>5 DEF Done
  <2> HIDE DEF b
  <2> QED
    BY <1>1, <1>5, <2>1, <2>2, <2>3, EndingPreserves
<1> QED
  BY <1>3, <1>4, <1>5 DEF Complete

LEMMA FindInitPreserves ==
    ASSUME refusing' = refusing,
           IInv, NEW c \in Call, FindInit(c)
    PROVE  IInv'
<1> DEFINE a == call[c]
           h == call[c].handle
           b == Args("findnext", a.kind, a.session, a.handle, a.key, a.login, a.rv, a.out)
<1>1. /\ a.pc = "findinit" /\ CallWell(a) /\ a.kind = "find" /\ h \in Handle
      /\ UNCHANGED <<refs, handle, opened, logged, history>>
  BY DEF FindInit, IInv, CallsWell, CallWell, CallType
<1>2. CASE /\ \E rv \in {"failed", "active"} : Done(c, rv)
           /\ UNCHANGED <<crypting, finding>>
  <2>1. logged' \in BOOLEAN
    BY <1>1 DEF IInv, Typed
  <2> QED
    BY <1>1, <1>2, <2>1, DoneStep DEF Result, CryptPc, FindPc
<1>3. CASE (finding[h] = None \/ ~refusing) /\ Searching(h, c) /\ Goto(c, "findnext")
  <2>1. CallWell(b)
    BY <1>1, GotoWell DEF IInv, Pc, OpeningPc, LoginPc, CryptPc, FindPc
  <2>2. call' = [call EXCEPT ![c] = b]
    BY <1>3 DEF Goto
  <2>3. /\ b.session = a.session /\ b.handle = a.handle /\ b.kind = a.kind /\ b.pc = "findnext"
    BY DEF Args
  <2> HIDE DEF b
  <2>4. call'[c] = b /\ \A d \in Call : d # c => call'[d] = call[d]
    BY <2>2 DEF IInv, Typed
  <2>5. /\ InFind(c)' /\ ~InCrypt(c)' /\ ~InFind(c) /\ ~InCrypt(c)
        /\ \A d \in Call : d # c => InCrypt(d)' = InCrypt(d) /\ InFind(d)' = InFind(d)
    BY <1>1, <2>3, <2>4 DEF InCrypt, InFind
  <2>6. /\ finding'[h] = c
        /\ \A g \in Handle : g # h => finding'[g] = finding[g] /\ crypting'[g] = crypting[g]
        /\ refusing => crypting' = crypting
        /\ crypting'[h] \in {NoOp, crypting[h]}
        /\ crypting' \in [Handle -> [key : Key \cup {None}, by : Call \cup {None}]]
        /\ finding' \in [Handle -> Call \cup {None}]
    BY <1>1, <1>3 DEF IInv, Typed, Searching, NoOp
  <2>7. refusing => \A d \in Call : InFind(d) => call[d].handle # h /\ call[d].handle \in Handle
    BY <1>3, NoneAssumption
       DEF IInv, OperationsHeld, InFind, CallsWell, CallWell, CallType, FindPc
  <2>8. refusing =>
        /\ \A d \in Call : InCrypt(d)' => crypting'[call'[d].handle] = [key |-> call'[d].key, by |-> d]
        /\ \A d \in Call : InFind(d)' => finding'[call'[d].handle] = d
    BY <1>1, <2>3, <2>4, <2>5, <2>6, <2>7 DEF IInv, OperationsHeld
  <2>9. NothingLeftActive'
    <3> SUFFICES ASSUME NEW g \in Handle \ abandoned
                 PROVE  /\ crypting'[g] # NoOp =>
                             \E d \in Call : crypting'[g].by = d /\ InCrypt(d)' /\ call'[d].handle = g
                        /\ finding'[g] # None =>
                             \E d \in Call : finding'[g] = d /\ InFind(d)' /\ call'[d].handle = g
      BY <1>1 DEF NothingLeftActive, NoOp, history
    <3>1. /\ crypting[g] # NoOp =>
               \E d \in Call : crypting[g].by = d /\ InCrypt(d) /\ call[d].handle = g
          /\ finding[g] # None =>
               \E d \in Call : finding[g] = d /\ InFind(d) /\ call[d].handle = g
      BY DEF IInv, OperationsHeld, NothingLeftActive
    <3>2. crypting'[g] # NoOp =>
               \E d \in Call : crypting'[g].by = d /\ InCrypt(d)' /\ call'[d].handle = g
      BY <2>4, <2>5, <2>6, <3>1
    <3>3. CASE g = h
      BY <3>2, <3>3, <2>3, <2>4, <2>5, <2>6
    <3>4. CASE g # h
      BY <3>1, <3>2, <3>4, <2>4, <2>5, <2>6
    <3> QED
      BY <3>3, <3>4
  <2>10. OperationsHeld'
    BY <2>8, <2>9 DEF OperationsHeld
  <2> QED
    BY <1>1, <2>1, <2>2, <2>3, <2>6, <2>10, OperatingPreserves DEF history
<1> QED
  BY <1>2, <1>3 DEF FindInit

LEMMA FindNextPreserves ==
    ASSUME refusing' = refusing,
           IInv, NEW c \in Call, FindNext(c)
    PROVE  IInv'
<1>1. /\ call[c].pc = "findnext" /\ call[c].kind = "find"
      /\ UNCHANGED <<refs, handle, token, wrong, orphans>>
  BY DEF FindNext, IInv, CallsWell, CallWell, FindPc
<1>2. CASE Goto(c, "findfinal") /\ UNCHANGED abandoned
  BY <1>1, <1>2, GotoStep DEF Pc, LoginPc, CryptPc, FindPc, OpeningPc, history
<1>3. CASE GivingUp(c, "failed")
  BY <1>1, <1>3, GivingUpPreserves
<1> QED
  BY <1>2, <1>3 DEF FindNext

LEMMA FindFinalPreserves ==
    ASSUME refusing' = refusing,
           IInv, NEW c \in Call, FindFinal(c)
    PROVE  IInv'
<1> DEFINE a == call[c]
<1>1. /\ a.pc = "findfinal" /\ a.kind = "find" /\ CallWell(a) /\ InFind(c)
      /\ finding' = [finding EXCEPT ![a.handle] = None]
      /\ UNCHANGED <<refs, handle, opened, crypting, logged, history>>
  BY DEF FindFinal, IInv, CallsWell, CallWell, FindPc, InFind
<1>2. PICK rv \in {"ok", "failed"} : Done(c, rv)
  BY DEF FindFinal
<1> DEFINE b == Args("done", a.kind, a.session, a.handle, a.key, a.login, rv, a.out)
<1>3. CallWell(b)
  BY <1>1, DoneWell DEF IInv, Result
<1>4. /\ b.session = a.session /\ b.handle = a.handle /\ b.kind = a.kind /\ b.pc = "done"
  BY DEF Args
<1>5. call' = [call EXCEPT ![c] = b]
  BY <1>2 DEF Done
<1> HIDE DEF b
<1> QED
  BY <1>1, <1>3, <1>4, <1>5, EndingPreserves

-----------------------------------------------------------------------------
(* Sessions and handles.                                                   *)

LEMMA OpenSessionPreserves ==
    ASSUME refusing' = refusing,
           IInv, NEW c \in Call, OpenSession(c)
    PROVE  IInv'
<1> DEFINE a == call[c]
<1>1. /\ a.pc = "open" /\ a.kind = "open" /\ a.handle = None /\ CallWell(a)
      /\ UNCHANGED <<refs, handle, crypting, finding, logged, history>>
  BY DEF OpenSession, IInv, CallsWell, CallWell, OpeningPc
<1>2. CASE Done(c, "failed") /\ UNCHANGED opened
  <2>1. logged' \in BOOLEAN
    BY <1>1 DEF IInv, Typed
  <2> QED
    BY <1>1, <1>2, <2>1, DoneStep DEF Result, CryptPc, FindPc
<1>3. CASE \E h \in Handle : /\ h \notin opened /\ opened' = opened \cup {h}
                             /\ call' = [call EXCEPT ![c] =
                                   Args(IF a.login THEN "token" ELSE "done", "open", a.session, h,
                                        None, a.login, "ok", None)]
  <2>1. PICK h \in Handle : /\ h \notin opened /\ opened' = opened \cup {h}
                            /\ call' = [call EXCEPT ![c] =
                                   Args(IF a.login THEN "token" ELSE "done", "open", a.session, h,
                                        None, a.login, "ok", None)]
    BY <1>3
  <2> DEFINE b == Args(IF a.login THEN "token" ELSE "done", "open", a.session, h, None, a.login,
                       "ok", None)
  <2>2. h # None
    BY NoneAssumption
  <2>3. CallWell(b)
    BY <1>1, <2>2 DEF CallWell, Args, CallType, Pc, OpeningPc, LoginPc, CryptPc, FindPc, Kind,
                      NoCall, Result
  <2>4. /\ b.session = a.session /\ b.handle = h /\ b.kind = "open" /\ b.pc \in {"token", "done"}
    BY DEF Args
  <2> HIDE DEF b
  <2>5. /\ call' \in [Call -> CallType] /\ call'[c] = b
        /\ \A d \in Call : d # c => call'[d] = call[d]
    BY <2>1, <2>3 DEF IInv, Typed, CallWell, b
  <2>6. CallsWell'
    BY <2>3, <2>5 DEF IInv, CallsWell, CallWell
  <2>7. Typed'
    BY <1>1, <2>1, <2>5 DEF IInv, Typed, history
  <2>8. \A s \in Session : Users(s)' = Users(s)
    BY <2>4, <2>5 DEF Users
  <2>9. ReferencesHeld'
    <3> SUFFICES ASSUME NEW s \in Session PROVE Referenced(s)'
      BY DEF ReferencesHeld
    <3>1. Referenced(s) /\ Users(s)' = Users(s) /\ Users(s) \subseteq Call
      BY <2>8 DEF IInv, ReferencesHeld, Users
    <3>2. \A d \in Call : call'[d].kind = call[d].kind
      BY <1>1, <2>4, <2>5
    <3>3. \A d \in Call : call[d].kind # "open" => call'[d].handle = call[d].handle
      BY <1>1, <2>5
    <3> QED
      BY <1>1, <3>1, <3>2, <3>3 DEF Referenced
  <2>10. /\ ~Opening(c) /\ Opening(c)' /\ call'[c].handle = h
         /\ \A d \in Call : d # c => Opening(d)' = Opening(d) /\ call'[d].handle = call[d].handle
    BY <1>1, <2>2, <2>4, <2>5 DEF Opening
  <2>11. h \notin orphans /\ UNCHANGED <<handle, orphans>>
    BY <1>1, <2>1 DEF IInv, Typed, history
  <2>12. HandlesHeld'
    <3>1. /\ \A s \in Session : handle'[s] # None => handle'[s] \in opened' \ orphans'
          /\ \A d \in Call : Opening(d)' => call'[d].handle \in opened' \ orphans'
          /\ \A s, t \in Session : handle'[s] # None /\ handle'[s] = handle'[t] => s = t
      BY <2>1, <2>10, <2>11 DEF IInv, HandlesHeld
    <3>2. /\ \A d, e \in Call : Opening(d)' /\ Opening(e)' /\ call'[d].handle = call'[e].handle => d = e
          /\ \A s \in Session, d \in Call : Opening(d)' => call'[d].handle # handle'[s]
      BY <2>1, <2>2, <2>10, <2>11 DEF IInv, HandlesHeld
    <3>3. \A g \in opened' \ orphans' :
             (\E s \in Session : handle'[s] = g) \/ (\E d \in Call : Opening(d)' /\ call'[d].handle = g)
      BY <2>1, <2>10, <2>11 DEF IInv, HandlesHeld
    <3> QED
      BY <3>1, <3>2, <3>3 DEF HandlesHeld
  <2>13. OperationsHeld'
    <3>1. \A d \in Call : /\ InCrypt(d)' = InCrypt(d) /\ InFind(d)' = InFind(d)
                          /\ InCrypt(d) \/ InFind(d) => d # c
      BY <1>1, <2>4, <2>5 DEF InCrypt, InFind
    <3> QED
      BY <1>1, <2>5, <3>1, OperationsKept DEF IInv, history
  <2>14. WrongBounded'
    BY <1>1, <2>4, <2>5, NoneEntered DEF IInv, history
  <2> QED
    BY <2>6, <2>7, <2>9, <2>12, <2>13, <2>14 DEF IInv
<1> QED
  <2>1. opened # Handle => \E h \in Handle : h \notin opened
    BY DEF IInv, Typed
  <2> QED
    BY <1>2, <1>3, <2>1 DEF OpenSession

\* A call is begun, on a session s that it gets a reference to.
LEMMA BeginningPreserves ==
    ASSUME refusing' = refusing,
           IInv, NEW c \in Call, NEW s \in Session, NEW b, call[c].pc = "idle",
           call' = [call EXCEPT ![c] = b], CallWell(b), b.session = s, b.pc = "perform",
           refs' = [refs EXCEPT ![s] = @ + 1],
           \/ b.kind = "open" /\ b.handle = None /\ refs[s] = 0
           \/ b.kind # "open" /\ b.handle = handle[s] /\ refs[s] > 0 /\ handle[s] # None,
           UNCHANGED <<handle, token, history>>
    PROVE  IInv'
<1>1. /\ call' \in [Call -> CallType] /\ call'[c] = b
      /\ \A d \in Call : d # c => call'[d] = call[d]
      /\ refs' \in [Session -> Nat] /\ refs'[s] = refs[s] + 1
      /\ \A t \in Session : t # s => refs'[t] = refs[t]
  BY DEF IInv, Typed, CallWell
<1>2. call[c].session = None /\ call[c].handle = None /\ call[c].kind = "simple"
  BY DEF IInv, CallsWell, CallWell, NoCall, Args
<1>3. CallsWell'
  BY <1>1 DEF IInv, CallsWell, CallWell
<1>4. Typed'
  BY <1>1 DEF IInv, Typed, history, token
<1>5. /\ Users(s)' = Users(s) \cup {c} /\ c \notin Users(s) /\ s # None
      /\ \A t \in Session : t # s => Users(t)' = Users(t)
  BY <1>1, <1>2, NoneAssumption DEF Users
<1>6. ReferencesHeld'
  <2> SUFFICES ASSUME NEW t \in Session PROVE Referenced(t)'
    BY DEF ReferencesHeld
  <2>1. Referenced(t) /\ Referenced(s) /\ handle' = handle /\ refs[s] \in Nat
    BY DEF IInv, ReferencesHeld, Typed
  <2>2. CASE t # s
    <3>1. Users(t) \subseteq Call \ {c} /\ Users(t)' = Users(t) /\ refs'[t] = refs[t]
      BY <1>1, <1>2, <1>5, <2>2, NoneAssumption DEF Users
    <3> QED
      BY <1>1, <2>1, <2>2, <3>1 DEF Referenced
  <2>3. CASE t = s /\ b.kind = "open"
    <3>1. Users(s) = {} /\ handle[s] = None /\ refs'[s] = 1
      BY <1>1, <2>1, <2>3 DEF Referenced
    <3> QED
      BY <1>1, <1>5, <2>1, <2>3, <3>1 DEF Referenced
  <2>4. CASE t = s /\ b.kind # "open"
    <3>1. /\ refs[s] \in {Cardinality(Users(s)), Cardinality(Users(s)) + 1}
          /\ \A d \in Users(s) : call[d].kind # "open" /\ call[d].handle = handle[s]
      BY <2>1, <2>4 DEF Referenced
    <3>2. Cardinality(Users(s)') = Cardinality(Users(s)) + 1
      <4>1. IsFiniteSet(Users(s))
        BY UsersCounted
      <4>2. Cardinality(Users(s) \cup {c}) = Cardinality(Users(s)) + 1
        BY <1>5, <4>1, FS_AddElement
      <4> QED
        BY <1>5, <4>2
    <3>3. refs'[s] \in {Cardinality(Users(s)'), Cardinality(Users(s)') + 1} /\ refs'[s] # 0
      BY <1>1, <2>1, <3>1, <3>2, UsersCounted
    <3>4. \A d \in Users(s)' : call'[d].kind # "open" /\ call'[d].handle = handle[s]
      <4>1. Users(s) \subseteq Call \ {c}
        BY <1>5 DEF Users
      <4> QED
        BY <1>1, <1>5, <2>4, <3>1, <4>1
    <3> QED
      BY <2>1, <2>4, <3>3, <3>4 DEF Referenced
  <2> QED
    BY <2>2, <2>3, <2>4
<1>7. \A d \in Call : /\ Opening(d)' = Opening(d)
                      /\ Opening(d) => call'[d].handle = call[d].handle
  BY <1>1, <1>2 DEF Opening
<1>8. HandlesHeld'
  <2>1. UNCHANGED <<handle, opened, orphans>>
    BY DEF token, history
  <2> QED
    BY <1>7, <2>1 DEF IInv, HandlesHeld
<1>9. OperationsHeld'
  <2>1. \A d \in Call : /\ InCrypt(d)' = InCrypt(d) /\ InFind(d)' = InFind(d)
                        /\ InCrypt(d) \/ InFind(d) => d # c
    BY <1>1 DEF InCrypt, InFind
  <2> QED
    BY <1>1, <2>1, OperationsKept DEF IInv, history, token
<1>10. WrongBounded'
  BY <1>1, NoneEntered DEF IInv, history
<1> QED
  BY <1>3, <1>4, <1>6, <1>8, <1>9, <1>10 DEF IInv

LEMMA OpenPreserves ==
    ASSUME refusing' = refusing,
           IInv, NEW c \in Call, NEW s \in Session, NEW login \in BOOLEAN, Open(c, s, login)
    PROVE  IInv'
<1> DEFINE b == Args("perform", "open", s, None, None, login, "ok", None)
<1>1. CallWell(b)
  BY NoneAssumption DEF CallWell, Args, CallType, Pc, OpeningPc, LoginPc, CryptPc, FindPc, Kind,
                        NoCall, Result
<1>2. b.session = s /\ b.pc = "perform" /\ b.kind = "open" /\ b.handle = None
  BY DEF Args
<1>3. refs' = [refs EXCEPT ![s] = @ + 1]
  BY DEF Open, IInv, Typed
<1> HIDE DEF b
<1> QED
  BY <1>1, <1>2, <1>3, BeginningPreserves DEF Open, b

LEMMA BeginPreserves ==
    ASSUME refusing' = refusing,
           IInv, NEW c \in Call, NEW s \in Session, NEW kind \in Kind \ {"open"},
           NEW key \in Key \cup {None}, Begin(c, s, kind, key)
    PROVE  IInv'
<1> DEFINE b == Args("perform", kind, s, handle[s], key, kind = "login", "ok", None)
<1>1. handle[s] \in Handle \cup {None} /\ handle[s] # None
  BY DEF Begin, IInv, Typed
<1>2. CallWell(b)
  BY <1>1, NoneAssumption DEF CallWell, Args, CallType, Pc, OpeningPc, LoginPc, CryptPc, FindPc,
                              Kind, NoCall, Result
<1>3. b.session = s /\ b.pc = "perform" /\ b.kind # "open" /\ b.handle = handle[s]
  BY DEF Args
<1>4. /\ call[c].pc = "idle" /\ refs[s] > 0 /\ refs' = [refs EXCEPT ![s] = @ + 1]
      /\ call' = [call EXCEPT ![c] = b] /\ UNCHANGED <<handle, token, history>>
  BY DEF Begin
<1> HIDE DEF b
<1> QED
  BY <1>1, <1>2, <1>3, <1>4, BeginningPreserves

\* A call that is not opening a session uses the handle of its session.
LEMMA CallsHandle ==
    ASSUME IInv, NEW d \in Call, call[d].pc # "idle", call[d].kind # "open"
    PROVE  /\ call[d].session \in Session /\ handle[call[d].session] # None
           /\ call[d].handle = handle[call[d].session] /\ call[d].handle \in Handle
<1> DEFINE t == call[d].session
<1>1. t \in Session /\ call[d].handle \in Handle
  BY DEF IInv, CallsWell, CallWell, CallType
<1>2. Referenced(t) /\ d \in Users(t)
  BY <1>1 DEF IInv, ReferencesHeld, Users
<1> HIDE DEF t
<1> QED
  BY <1>1, <1>2 DEF Referenced, t

\* g_object_unref: of the application's reference, or of a call's that is over.
LEMMA ReleasePreserves ==
    ASSUME refusing' = refusing,
           IInv, NEW s \in Session, handle[s] # None, Release(s),
           call' \in [Call -> CallType],
           \A d \in Call : \/ call'[d] = call[d]
                           \/ /\ call'[d] = NoCall /\ call[d].pc = "done"
                              /\ call[d].session = s /\ call[d].kind # "open",
           refs[s] >= 1,
           refs[s] - 1 \in {Cardinality(Users(s)'), Cardinality(Users(s)') + 1},
           IsFiniteSet(Users(s)'),
           UNCHANGED <<wrong, orphans>>
    PROVE  IInv'
<1> DEFINE h == handle[s]
<1>1. /\ refs' \in [Session -> Nat] /\ refs[s] \in Nat /\ refs'[s] = refs[s] - 1
      /\ \A t \in Session : t # s => refs'[t] = refs[t] /\ handle'[t] = handle[t]
      /\ handle' \in [Session -> Handle \cup {None}]
      /\ handle'[s] = IF refs[s] = 1 THEN None ELSE h
      /\ h \in Handle /\ h \in opened \ orphans /\ h # None
  BY DEF IInv, Typed, Release, HandlesHeld
<1>2. NoCall.session = None /\ NoCall.handle = None /\ NoCall.kind = "simple" /\ NoCall.pc = "idle"
  BY DEF NoCall, Args
<1>3. CallsWell'
  <2> SUFFICES ASSUME NEW d \in Call PROVE CallWell(call'[d])
    BY DEF CallsWell, CallWell
  <2>1. CASE call'[d] = call[d]
    BY <2>1 DEF IInv, CallsWell
  <2>2. CASE call'[d] = NoCall
    <3>1. call'[d] \in CallType
      OBVIOUS
    <3> QED
      BY <1>2, <2>2, <3>1 DEF CallWell, OpeningPc, LoginPc, CryptPc, FindPc
  <2> QED
    BY <2>1, <2>2
<1>4. /\ \A d \in Call : Opening(d)' = Opening(d) /\ (Opening(d) => call'[d].handle = call[d].handle)
      /\ \A d \in Call : /\ InCrypt(d)' = InCrypt(d) /\ InFind(d)' = InFind(d)
                         /\ InCrypt(d) \/ InFind(d) => call'[d] = call[d]
  BY <1>2 DEF Opening, InCrypt, InFind
<1>5. /\ \A t \in Session : t # s => Users(t)' = Users(t)
      /\ Users(s)' \subseteq Users(s) /\ \A d \in Users(s)' : call'[d] = call[d]
  BY <1>2, NoneAssumption DEF Users
<1>6. refs[s] = 1 => Users(s)' = {}
  <2>1. Cardinality(Users(s)') \in Nat
    BY FS_CardinalityType
  <2> QED
    BY <1>1, <2>1, FS_EmptySet
<1>7. ReferencesHeld'
  <2> SUFFICES ASSUME NEW t \in Session PROVE Referenced(t)'
    BY DEF ReferencesHeld
  <2>1. Referenced(t) /\ Referenced(s)
    BY DEF IInv, ReferencesHeld
  <2>2. CASE t # s
    <3>1. Users(t)' = Users(t) /\ \A d \in Users(t) : d \in Call /\ call'[d] = call[d]
      BY <1>5, <2>2 DEF Users
    <3> QED
      BY <1>1, <2>1, <2>2, <3>1 DEF Referenced
  <2>3. CASE t = s /\ refs[s] = 1
    BY <1>1, <1>6, <2>3 DEF Referenced
  <2>4. CASE t = s /\ refs[s] # 1
    <3>1. \A d \in Users(s)' : call'[d].kind # "open" /\ call'[d].handle = h
      BY <1>1, <1>5, <2>1 DEF Referenced
    <3> QED
      BY <1>1, <2>4, <3>1 DEF Referenced
  <2> QED
    BY <2>2, <2>3, <2>4
<1>8. WrongBounded'
  <2>1. \A d \in Call : call'[d].pc \in {"wrong", "keywrong"} => call[d].pc \in {"wrong", "keywrong"}
    BY <1>2
  <2> QED
    BY <2>1, NoneEntered DEF IInv
<1>9. CASE refs[s] # 1
  <2>1. handle' = handle /\ UNCHANGED <<opened, crypting, finding, logged, abandoned>>
    BY <1>1, <1>9 DEF Release, IInv, Typed
  <2>2. HandlesHeld'
    BY <1>4, <2>1 DEF IInv, HandlesHeld
  <2>3. OperationsHeld'
    BY <1>4, <2>1, OperationsKept DEF IInv
  <2>4. Typed'
    BY <1>1, <2>1 DEF IInv, Typed
  <2> QED
    BY <1>3, <1>7, <1>8, <2>2, <2>3, <2>4 DEF IInv
<1>10. CASE refs[s] = 1
  <2>1. Closed(h)
    BY <1>10 DEF Release
  <2>2. /\ opened' = opened \ {h} /\ abandoned' = abandoned \ {h}
        /\ crypting'[h] = NoOp /\ \A g \in Handle : g # h => crypting'[g] = crypting[g]
        /\ finding'[h] = None /\ \A g \in Handle : g # h => finding'[g] = finding[g]
        /\ crypting' \in [Handle -> [key : Key \cup {None}, by : Call \cup {None}]]
        /\ finding' \in [Handle -> Call \cup {None}] /\ logged' \in BOOLEAN
        /\ handle'[s] = None
    BY <1>1, <1>10, <2>1 DEF Closed, IInv, Typed, NoOp
  <2>3. Typed'
    BY <1>1, <2>2 DEF IInv, Typed
  <2>4. HandlesHeld'
    <3>1. /\ \A t \in Session : handle'[t] # None => handle'[t] = handle[t] /\ t # s
          /\ \A t \in Session : handle[t] = h => t = s
          /\ \A d \in Call : Opening(d) => call[d].handle # h
      BY <1>1, <2>2 DEF IInv, HandlesHeld
    <3>2. /\ \A t \in Session : handle'[t] # None => handle'[t] \in opened' \ orphans'
          /\ \A d \in Call : Opening(d)' => call'[d].handle \in opened' \ orphans'
      BY <1>4, <2>2, <3>1 DEF IInv, HandlesHeld
    <3>3. /\ \A t, u \in Session : handle'[t] # None /\ handle'[t] = handle'[u] => t = u
          /\ \A d, e \in Call : Opening(d)' /\ Opening(e)' /\ call'[d].handle = call'[e].handle => d = e
      BY <1>4, <3>1 DEF IInv, HandlesHeld
    <3>4. \A t \in Session, d \in Call : Opening(d)' => call'[d].handle # handle'[t]
      BY <1>4, <3>1 DEF IInv, HandlesHeld, Opening
    <3>5. \A g \in opened' \ orphans' :
             (\E t \in Session : handle'[t] = g) \/ (\E d \in Call : Opening(d)' /\ call'[d].handle = g)
      BY <1>1, <1>4, <2>2 DEF IInv, HandlesHeld
    <3> QED
      BY <3>2, <3>3, <3>4, <3>5 DEF HandlesHeld
  <2>5. \A d \in Call : InCrypt(d) \/ InFind(d) => call[d].handle \in Handle \ {h}
    <3> SUFFICES ASSUME NEW d \in Call, InCrypt(d) \/ InFind(d), call[d].handle = h PROVE FALSE
      BY CallsHandle DEF InCrypt, InFind, IInv, CallsWell, CallWell, CryptPc, FindPc, CallType
    <3>1. call[d].pc # "idle" /\ call[d].kind # "open"
      BY DEF InCrypt, InFind, IInv, CallsWell, CallWell, CryptPc, FindPc
    <3>2. call[d].session \in Session /\ handle[call[d].session] = h
      BY <3>1, CallsHandle
    <3>3. call[d].session = s
      BY <1>1, <3>2 DEF IInv, HandlesHeld
    <3>4. d \in Users(s)'
      BY <1>4, <3>3 DEF Users
    <3> QED
      BY <1>6, <1>10, <3>4
  <2>6. refusing =>
        /\ \A d \in Call : InCrypt(d)' => crypting'[call'[d].handle] = [key |-> call'[d].key, by |-> d]
        /\ \A d \in Call : InFind(d)' => finding'[call'[d].handle] = d
    BY <1>4, <2>2, <2>5 DEF IInv, OperationsHeld
  <2>7. NothingLeftActive'
    <3> SUFFICES ASSUME NEW g \in Handle, g \notin abandoned', g # h
                 PROVE  /\ crypting'[g] # NoOp =>
                             \E d \in Call : crypting'[g].by = d /\ InCrypt(d)' /\ call'[d].handle = g
                        /\ finding'[g] # None =>
                             \E d \in Call : finding'[g] = d /\ InFind(d)' /\ call'[d].handle = g
      BY <2>2 DEF NothingLeftActive, NoOp
    <3>1. g \in Handle \ abandoned
      BY <2>2
    <3>2. /\ crypting[g] # NoOp =>
               \E d \in Call : crypting[g].by = d /\ InCrypt(d) /\ call[d].handle = g
          /\ finding[g] # None =>
               \E d \in Call : finding[g] = d /\ InFind(d) /\ call[d].handle = g
      BY <3>1 DEF IInv, OperationsHeld, NothingLeftActive
    <3> QED
      BY <1>4, <2>2, <3>2
  <2> QED
    BY <1>3, <1>7, <1>8, <2>3, <2>4, <2>6, <2>7 DEF IInv, OperationsHeld
<1> QED
  BY <1>9, <1>10

LEMMA UnrefPreserves ==
    ASSUME refusing' = refusing,
           IInv, NEW s \in Session, Unref(s)
    PROVE  IInv'
<1>1. /\ handle[s] # None /\ refs[s] > Cardinality(Users(s)) /\ Release(s) /\ refs[s] \in Nat
      /\ UNCHANGED <<call, wrong, orphans>> /\ call' \in [Call -> CallType]
  BY DEF Unref, Users, IInv, Typed
<1>2. Users(s)' = Users(s)
  BY <1>1 DEF Users
<1>3. refs[s] \in {Cardinality(Users(s)), Cardinality(Users(s)) + 1}
  BY <1>1 DEF IInv, ReferencesHeld, Referenced
<1>4. refs[s] >= 1 /\ refs[s] - 1 \in {Cardinality(Users(s)'), Cardinality(Users(s)') + 1}
  BY <1>1, <1>2, <1>3, UsersCounted
<1>5. IsFiniteSet(Users(s)')
  BY <1>2, UsersCounted
<1> QED
  BY <1>1, <1>4, <1>5, ReleasePreserves

LEMMA FinishPreserves ==
    ASSUME refusing' = refusing,
           IInv, NEW c \in Call, Finish(c)
    PROVE  IInv'
<1>1. /\ call[c].pc = "done" /\ call[c].kind # "open" /\ Release(call[c].session)
      /\ call' = [call EXCEPT ![c] = NoCall] /\ UNCHANGED <<wrong, orphans>>
  BY DEF Finish
<1>2. PICK s \in Session : s = call[c].session /\ handle[s] # None /\ s # None
  BY <1>1, CallsHandle, NoneAssumption
<1>3. NoCall \in CallType /\ NoCall.session = None
  BY DEF NoCall, Args, CallType, Pc, Kind, Result
<1>4. /\ call' \in [Call -> CallType] /\ call'[c] = NoCall
      /\ \A d \in Call : d # c => call'[d] = call[d]
  BY <1>1, <1>3 DEF IInv, Typed
<1>5. Users(s)' = Users(s) \ {c} /\ c \in Users(s)
  BY <1>2, <1>3, <1>4 DEF Users
<1>6. IsFiniteSet(Users(s)) /\ IsFiniteSet(Users(s) \ {c})
      /\ Cardinality(Users(s) \ {c}) = Cardinality(Users(s)) - 1
      /\ Cardinality(Users(s)) \in Nat /\ Cardinality(Users(s) \ {c}) \in Nat
  BY <1>5, UsersCounted, FS_RemoveElement, FS_CardinalityType
<1>7. refs[s] \in {Cardinality(Users(s)), Cardinality(Users(s)) + 1} /\ refs[s] \in Nat
  BY <1>2 DEF IInv, ReferencesHeld, Referenced, Typed
<1>8. refs[s] >= 1 /\ refs[s] - 1 \in {Cardinality(Users(s)'), Cardinality(Users(s)') + 1}
  BY <1>5, <1>6, <1>7
<1>9. IsFiniteSet(Users(s)')
  BY <1>5, <1>6
<1>10. \A d \in Call : \/ call'[d] = call[d]
                       \/ /\ call'[d] = NoCall /\ call[d].pc = "done"
                          /\ call[d].session = s /\ call[d].kind # "open"
  BY <1>1, <1>2, <1>4
<1> QED
  BY <1>1, <1>2, <1>4, <1>8, <1>9, <1>10, ReleasePreserves

\* The call that has opened a session gives it its handle, or leaves the
\* handle behind.
LEMMA FinishOpenPreserves ==
    ASSUME refusing' = refusing,
           IInv, NEW c \in Call, NEW rv, FinishOpen(c, rv)
    PROVE  IInv'
<1> DEFINE h == call[c].handle
<1>1. /\ call[c].pc = "done" /\ call[c].kind = "open" /\ CallWell(call[c])
      /\ call' = [call EXCEPT ![c] = NoCall] /\ UNCHANGED <<token, wrong, abandoned>>
  BY DEF FinishOpen, IInv, CallsWell
<1>2. PICK s \in Session : s = call[c].session /\ s # None
  BY <1>1, NoneAssumption DEF CallWell, CallType
<1>3. NoCall \in CallType /\ NoCall.session = None /\ NoCall.handle = None /\ NoCall.pc = "idle"
      /\ NoCall.kind = "simple"
  BY DEF NoCall, Args, CallType, Pc, Kind, Result
<1>4. /\ call' \in [Call -> CallType] /\ call'[c] = NoCall
      /\ \A d \in Call : d # c => call'[d] = call[d]
  BY <1>1, <1>3 DEF IInv, Typed
<1>5. CallsWell'
  <2>1. CallWell(NoCall)
    BY <1>3 DEF CallWell, OpeningPc, LoginPc, CryptPc, FindPc
  <2> QED
    BY <1>4, <2>1 DEF IInv, CallsWell, CallWell
<1>6. handle[s] = None /\ refs[s] = 1 /\ Users(s) = {c}
  <2>1. Referenced(s) /\ c \in Users(s)
    BY <1>2 DEF IInv, ReferencesHeld, Users
  <2> QED
    BY <1>1, <2>1 DEF Referenced
<1>7. /\ Users(s)' = {} /\ \A t \in Session : t # s => Users(t)' = Users(t)
      /\ \A t \in Session : t # s => \A d \in Users(t) : d \in Call /\ d # c
  <2>1. Users(s)' = {}
    BY <1>2, <1>3, <1>4, <1>6 DEF Users
  <2>2. \A t \in Session : t # s => c \notin Users(t)
    BY <1>2 DEF Users
  <2>3. \A t \in Session : t # s => Users(t)' = Users(t)
    BY <1>2, <1>3, <1>4, <2>2, NoneAssumption DEF Users
  <2> QED
    BY <2>1, <2>2, <2>3 DEF Users
<1>8. OperationsHeld'
  <2>1. \A d \in Call : /\ InCrypt(d)' = InCrypt(d) /\ InFind(d)' = InFind(d)
                        /\ InCrypt(d) \/ InFind(d) => d # c
    BY <1>1, <1>3, <1>4 DEF InCrypt, InFind
  <2> QED
    BY <1>1, <1>4, <2>1, OperationsKept DEF IInv, token
<1>9. WrongBounded'
  BY <1>1, <1>3, <1>4, NoneEntered DEF IInv
<1>10. /\ ~Opening(c)' /\ \A d \in Call : d # c => Opening(d)' = Opening(d)
       /\ Opening(c) <=> h # None
  BY <1>1, <1>3, <1>4 DEF Opening
<1>11. h # None => h \in opened \ orphans /\ h \in Handle
  BY <1>1, <1>10 DEF IInv, HandlesHeld, Typed
<1>12. CASE /\ rv = "ok" /\ handle' = [handle EXCEPT ![s] = h] /\ UNCHANGED <<refs, orphans>>
  <2>1. rv = call[c].rv
    BY <1>12 DEF FinishOpen
  <2>2. h # None /\ h \in Handle
    BY <1>1, <1>11, <1>12, <2>1 DEF CallWell
  <2>3. /\ handle' \in [Session -> Handle \cup {None}] /\ handle'[s] = h
        /\ \A t \in Session : t # s => handle'[t] = handle[t]
    BY <1>12, <2>2 DEF IInv, Typed
  <2>4. Typed'
    BY <1>1, <1>4, <1>12, <2>3 DEF IInv, Typed, token
  <2>5. ReferencesHeld'
    <3> SUFFICES ASSUME NEW t \in Session PROVE Referenced(t)'
      BY DEF ReferencesHeld
    <3>1. CASE t = s
      <4>1. Cardinality({}) = 0
        BY FS_EmptySet
      <4>2. refs'[s] = 1 /\ Users(s)' = {} /\ handle'[s] = h
        BY <1>6, <1>7, <1>12, <2>3
      <4>3. Cardinality(Users(s)') = 0
        BY <4>1, <4>2
      <4> QED
        BY <2>2, <3>1, <4>2, <4>3 DEF Referenced
    <3>2. CASE t # s
      <4>1. Referenced(t) /\ refs' = refs /\ handle'[t] = handle[t] /\ Users(t)' = Users(t)
        BY <1>7, <1>12, <2>3, <3>2 DEF IInv, ReferencesHeld
      <4>2. \A d \in Users(t) : d \in Call /\ call'[d] = call[d]
        BY <1>4, <1>7, <3>2
      <4> QED
        BY <4>1, <4>2 DEF Referenced
    <3> QED
      BY <3>1, <3>2
  <2>6. HandlesHeld'
    <3>1. opened' = opened /\ orphans' = orphans
      BY <1>1, <1>12 DEF token
    <3>2. /\ \A t \in Session : handle'[t] # None => handle'[t] \in opened' \ orphans'
          /\ \A d \in Call : Opening(d)' => call'[d].handle \in opened' \ orphans'
      BY <1>4, <1>10, <1>11, <2>2, <2>3, <3>1 DEF IInv, HandlesHeld
    <3>3. /\ \A t, u \in Session : handle'[t] # None /\ handle'[t] = handle'[u] => t = u
          /\ \A d, e \in Call : Opening(d)' /\ Opening(e)' /\ call'[d].handle = call'[e].handle => d = e
          /\ \A t \in Session, d \in Call : Opening(d)' => call'[d].handle # handle'[t]
      BY <1>4, <1>10, <2>2, <2>3 DEF IInv, HandlesHeld
    <3>4. \A g \in opened' \ orphans' :
             (\E t \in Session : handle'[t] = g) \/ (\E d \in Call : Opening(d)' /\ call'[d].handle = g)
      <4> SUFFICES ASSUME NEW g \in opened \ orphans
                   PROVE  \/ \E t \in Session : handle'[t] = g
                          \/ \E d \in Call : Opening(d)' /\ call'[d].handle = g
        BY <3>1
      <4>1. g # None
        BY NoneAssumption DEF IInv, Typed
      <4>2. CASE \E t \in Session : handle[t] = g
        BY <1>6, <2>3, <4>1, <4>2
      <4>3. CASE \E d \in Call : Opening(d) /\ call[d].handle = g
        BY <1>4, <1>10, <2>3, <4>3
      <4> QED
        BY <4>2, <4>3 DEF IInv, HandlesHeld
    <3> QED
      BY <3>2, <3>3, <3>4 DEF HandlesHeld
  <2> QED
    BY <1>5, <1>8, <1>9, <2>4, <2>5, <2>6 DEF IInv
<1>13. CASE /\ rv # "ok" /\ refs' = [refs EXCEPT ![s] = 0]
            /\ orphans' = IF h = None THEN orphans ELSE orphans \cup {h}
            /\ UNCHANGED handle
  <2>1. /\ refs' \in [Session -> Nat] /\ refs'[s] = 0
        /\ \A t \in Session : t # s => refs'[t] = refs[t]
    BY <1>13 DEF IInv, Typed
  <2>2. /\ opened' = opened /\ orphans' \subseteq opened' /\ orphans \subseteq orphans'
        /\ \A g \in orphans' : g \in orphans \/ (g = h /\ h # None)
        /\ (h # None => h \in orphans')
    BY <1>1, <1>11, <1>13 DEF token, IInv, Typed
  <2>3. Typed'
    BY <1>1, <1>4, <1>13, <2>1, <2>2 DEF IInv, Typed, token
  <2>4. ReferencesHeld'
    <3> SUFFICES ASSUME NEW t \in Session PROVE Referenced(t)'
      BY DEF ReferencesHeld
    <3>1. CASE t = s
      BY <1>6, <1>7, <1>13, <2>1, <3>1 DEF Referenced
    <3>2. CASE t # s
      <4>1. Referenced(t) /\ refs'[t] = refs[t] /\ handle' = handle /\ Users(t)' = Users(t)
        BY <1>7, <1>13, <2>1, <3>2 DEF IInv, ReferencesHeld
      <4>2. \A d \in Users(t) : d \in Call /\ call'[d] = call[d]
        BY <1>4, <1>7, <3>2
      <4> QED
        BY <4>1, <4>2 DEF Referenced
    <3> QED
      BY <3>1, <3>2
  <2>5. HandlesHeld'
    <3>1. handle' = handle
      BY <1>13
    <3>2. /\ \A t \in Session : handle'[t] # None => handle'[t] \in opened' \ orphans'
          /\ \A d \in Call : Opening(d)' => call'[d].handle \in opened' \ orphans'
      BY <1>4, <1>10, <2>2, <3>1 DEF IInv, HandlesHeld
    <3>3. /\ \A t, u \in Session : handle'[t] # None /\ handle'[t] = handle'[u] => t = u
          /\ \A d, e \in Call : Opening(d)' /\ Opening(e)' /\ call'[d].handle = call'[e].handle => d = e
          /\ \A t \in Session, d \in Call : Opening(d)' => call'[d].handle # handle'[t]
      BY <1>4, <1>10, <3>1 DEF IInv, HandlesHeld
    <3>4. \A g \in opened' \ orphans' :
             (\E t \in Session : handle'[t] = g) \/ (\E d \in Call : Opening(d)' /\ call'[d].handle = g)
      <4> SUFFICES ASSUME NEW g \in opened \ orphans, g # h
                   PROVE  \/ \E t \in Session : handle[t] = g
                          \/ \E d \in Call : Opening(d)' /\ call'[d].handle = g
        <5>1. \A g \in opened' \ orphans' : g \in opened \ orphans /\ g # None
          BY <2>2, NoneAssumption DEF IInv, Typed
        <5>2. h # None => h \in orphans'
          BY <2>2
        <5>3. \A g \in opened' \ orphans' : g # h
          BY <5>1, <5>2
        <5> QED
          BY <3>1, <5>1, <5>3
      <4> QED
        BY <1>4, <1>10 DEF IInv, HandlesHeld
    <3> QED
      BY <3>2, <3>3, <3>4 DEF HandlesHeld
  <2> QED
    BY <1>5, <1>8, <1>9, <2>3, <2>4, <2>5 DEF IInv
<1> QED
  BY <1>2, <1>12, <1>13 DEF FinishOpen

-----------------------------------------------------------------------------
LEMMA InitHolds == Init => IInv
<1> SUFFICES ASSUME Init PROVE IInv
  OBVIOUS
<1>1. NoCall \in CallType /\ NoCall.session = None /\ NoCall.handle = None /\ NoCall.pc = "idle"
      /\ NoCall.kind = "simple"
  BY DEF NoCall, Args, CallType, Pc, Kind, Result
<1>2. Typed
  BY <1>1 DEF Init, Typed, NoOp
<1>3. CallWell(NoCall)
  BY <1>1 DEF CallWell, OpeningPc, LoginPc, CryptPc, FindPc
<1>4. CallsWell
  BY <1>3 DEF CallsWell, Init
<1>5. ReferencesHeld
  <2>1. \A s \in Session : Users(s) = {}
    BY <1>1, NoneAssumption DEF Users, Init
  <2> QED
    BY <2>1 DEF ReferencesHeld, Referenced, Init
<1>6. HandlesHeld
  BY <1>1 DEF HandlesHeld, Opening, Init
<1>7. OperationsHeld
  BY <1>1 DEF OperationsHeld, NothingLeftActive, InCrypt, InFind, Init
<1>8. WrongBounded
  <2>1. Entered = {}
    BY <1>1 DEF Entered, Init
  <2>2. Cardinality(Entered) = 0 /\ wrong = 0
    BY <2>1, FS_EmptySet DEF Init
  <2> QED
    BY <2>2, EnteredCounted, TokenAssumption DEF WrongBounded
<1> QED
  BY <1>2, <1>4, <1>5, <1>6, <1>7, <1>8 DEF IInv

LEMMA StepPreserves == IInv /\ [Next]_vars => IInv'
<1> SUFFICES ASSUME IInv, [Next]_vars PROVE IInv'
  OBVIOUS
<1>0. refusing' = refusing
  BY DEF Next, vars
<1>1. CASE \E s \in Session : Unref(s)
  BY <1>0, <1>1, UnrefPreserves
<1>2. CASE \E c \in Call, s \in Session, login \in BOOLEAN : Open(c, s, login)
  BY <1>0, <1>2, OpenPreserves
<1>3. CASE \E c \in Call, s \in Session, kind \in Kind \ {"open"}, key \in Key \cup {None} :
              Begin(c, s, kind, key)
  BY <1>0, <1>3, BeginPreserves
<1>4. CASE \E c \in Call : Step(c)
  BY <1>0, <1>4, PerformPreserves, FinishPreserves, OpenSessionPreserves, SimplePreserves,
     FinishOpenPreserves, TokenPreserves, AskPreserves, LoginPreserves, CryptInitPreserves,
     KeyInfoPreserves, KeyAskPreserves, KeyLoginPreserves, CompletePreserves, FindInitPreserves,
     FindNextPreserves, FindFinalPreserves DEF Step
<1>5. CASE UNCHANGED vars
  <2>1. UNCHANGED <<refs, handle, opened, crypting, finding, logged, call, wrong, orphans, abandoned,
                  refusing>>
    BY <1>5 DEF vars, token, history
  <2>2. Typed' /\ CallsWell'
    BY <2>1 DEF IInv, Typed, CallsWell, CallWell
  <2>3. ReferencesHeld' /\ HandlesHeld'
    BY <2>1, HoldersKept DEF IInv
  <2>4. OperationsHeld'
    BY <2>1, OperationsKept DEF IInv, InCrypt, InFind
  <2>5. WrongBounded'
    BY <2>1, NoneEntered DEF IInv
  <2> QED
    BY <2>2, <2>3, <2>4, <2>5 DEF IInv
<1>6. "crypt" \in Kind \ {"open"} /\ None \in Key \cup {None}
  BY DEF Kind
<1> QED
  BY <1>1, <1>2, <1>3, <1>4, <1>5, <1>6 DEF Next

\* The references of a session are those of its calls and one more.
LEMMA RefsBounded ==
    ASSUME IInv, NEW s \in Session
    PROVE  refs[s] \in 0..1 + Cardinality(Call)
<1>1. Referenced(s) /\ refs[s] \in Nat
  BY DEF IInv, ReferencesHeld, Typed
<1>2. Cardinality(Users(s)) \in Nat /\ Cardinality(Users(s)) <= Cardinality(Call)
      /\ Cardinality(Call) \in Nat
  BY UsersCounted
<1> QED
  BY <1>1, <1>2 DEF Referenced

LEMMA OwnersCounted == IInv => HandlesOwned
<1> SUFFICES ASSUME IInv, NEW h \in opened \ orphans
             PROVE  Cardinality({s \in Session : handle[s] = h})
                    + Cardinality({c \in Call : call[c].kind = "open" /\ call[c].handle = h}) = 1
  BY DEF HandlesOwned
<1> DEFINE S == {s \in Session : handle[s] = h}
           C == {c \in Call : call[c].kind = "open" /\ call[c].handle = h}
<1>1. h # None
  BY NoneAssumption DEF IInv, Typed
<1>2. CASE \E s \in Session : handle[s] = h
  <2>1. PICK s \in Session : handle[s] = h
    BY <1>2
  <2>2. S = {s} /\ C = {}
    BY <1>1, <2>1 DEF IInv, HandlesHeld, Opening
  <2> HIDE DEF S, C
  <2>3. Cardinality(S) = 1 /\ Cardinality(C) = 0
    BY <2>2, FS_EmptySet, FS_Singleton
  <2> QED
    BY <2>3 DEF S, C
<1>3. CASE \E c \in Call : Opening(c) /\ call[c].handle = h
  <2>1. PICK c \in Call : Opening(c) /\ call[c].handle = h
    BY <1>3
  <2>2. S = {} /\ C = {c}
    BY <1>1, <2>1 DEF IInv, HandlesHeld, Opening
  <2> HIDE DEF S, C
  <2>3. Cardinality(S) = 0 /\ Cardinality(C) = 1
    BY <2>2, FS_EmptySet, FS_Singleton
  <2> QED
    BY <2>3 DEF S, C
<1> QED
  BY <1>2, <1>3 DEF IInv, HandlesHeld

LEMMA InvariantImplies == IInv => SessionsSound
<1> SUFFICES ASSUME IInv PROVE SessionsSound
  OBVIOUS
<1>1. TypeOK
  <2>1. refs \in [Session -> 0..1 + Cardinality(Call)]
    BY RefsBounded DEF IInv, Typed
  <2>2. wrong \in 0..MaxWrong + Cardinality(Call)
    BY EnteredCounted, TokenAssumption DEF IInv, WrongBounded, Typed
  <2>3. \A c \in Call : call[c].kind \in Kind /\ call[c].session \in Session \cup {None}
                        /\ call[c].handle \in Handle \cup {None}
    BY DEF IInv, Typed, CallType
  <2> QED
    BY <2>1, <2>2, <2>3 DEF IInv, Typed, TypeOK
<1>2. NoUseAfterClose
  <2> SUFFICES ASSUME NEW c \in Call, call[c].handle # None PROVE call[c].handle \in opened
    BY DEF NoUseAfterClose
  <2>1. CASE call[c].kind = "open"
    BY <2>1 DEF IInv, HandlesHeld, Opening
  <2>2. CASE call[c].kind # "open"
    <3>1. call[c].pc # "idle"
      BY DEF IInv, CallsWell, CallWell, NoCall, Args
    <3>2. /\ call[c].session \in Session /\ handle[call[c].session] # None
          /\ call[c].handle = handle[call[c].session]
      BY <2>2, <3>1, CallsHandle
    <3> QED
      BY <3>2 DEF IInv, HandlesHeld
  <2> QED
    BY <2>1, <2>2
<1>3. RightKey
  BY DEF IInv, CallsWell, CallWell, RightKey
<1>4. NothingLeftActive
  BY DEF IInv, OperationsHeld
<1> QED
  BY <1>1, <1>2, <1>3, <1>4, OwnersCounted DEF SessionsSound

\* Calls on one session (src/gck/gck-session.c, src/gck/gck-call.c): a session is
\* not closed under a call, no call that is over leaves an operation active unless
\* it gave up, and an open handle has one owner unless its opening failed.  So it
\* is with any token, for any number of sessions, calls and handles.  On a token
\* that refuses a second operation, and only there, a result is made with the key
\* that was asked for.
THEOREM SessionsAreSound == Spec => []SessionsSound
<1>1. Init => IInv
  BY InitHolds
<1>2. IInv /\ [Next]_vars => IInv'
  BY StepPreserves
<1>3. IInv => SessionsSound
  BY InvariantImplies
<1> QED
  BY <1>1, <1>2, <1>3, PTL DEF Spec
=============================================================================
