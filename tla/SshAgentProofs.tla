---------------------------- MODULE SshAgentProofs ----------------------------
(***************************************************************************)
(* For any number of connections, keys and starts: there is never a second  *)
(* ssh-agent, a signature with a key of ~/.ssh is refused for a reason      *)
(* only, and a ready agent turns no client away.                            *)
(*                                                                         *)
(* OneAgentInv adds to OneAgent that 0, which stands for no process, is not *)
(* the pid of an agent: it is what makes an agent that lives keep           *)
(* agent_start_inlock from being called.  DemandInv relates the service's   *)
(* table of keys, and what each thread is about to enter in it, to what the *)
(* agents hold.                                                             *)
(***************************************************************************)
EXTENDS SshAgent, TLAPS

\* A record of an agent, whatever keys it holds.
IsAgent(a) == a = [alive |-> a.alive, listening |-> a.listening, keys |-> a.keys]

\* OneAgent, with the type of what it speaks of.
OneAgentInv ==
    /\ Started \subseteq Pid
    /\ \A p \in Started : IsAgent(agents[p])
    /\ OneAgent

\* What a step does to the agents: at most one is added, and only if the
\* recorded pid is 0; no dead one comes to life.
LEMMA StartPreserves ==
    ASSUME OneAgentInv, process.pid = 0, Start
    PROVE  OneAgentInv'
<1> DEFINE p == Cardinality(Started) + 1
<1>1. /\ p \in Pid /\ process'.pid = p
      /\ agents' = [q \in Started \cup {p} |->
             IF q = p THEN [alive |-> TRUE, listening |-> FALSE, keys |-> {}] ELSE agents[q]]
  BY DEF Start, Spawned
<1> HIDE DEF p
<1>2. Started' = Started \cup {p}
  BY <1>1 DEF Started
<1>3. IsAgent([alive |-> TRUE, listening |-> FALSE, keys |-> {}])
  BY DEF IsAgent
<1>4. \A q \in Started' : IsAgent(agents'[q])
  BY <1>1, <1>2, <1>3 DEF OneAgentInv
<1>5. \A q \in Started : ~Alive(q)
  BY BoundAssumption DEF OneAgentInv, OneAgent, Pid
<1>6. \A q \in Started' : Alive(q)' => process'.pid = q
  BY <1>1, <1>2, <1>5 DEF Alive
<1> QED
  BY <1>1, <1>2, <1>4, <1>6 DEF OneAgentInv, OneAgent, Pid

\* A step that leaves the recorded pid alone and wakes no agent.
LEMMA QuietPreserves ==
    ASSUME OneAgentInv, process'.pid = process.pid, Started' = Started,
           \A p \in Started : IsAgent(agents'[p]) /\ (agents'[p].alive => agents[p].alive)
    PROVE  OneAgentInv'
  BY DEF OneAgentInv, OneAgent, Alive, Pid

\* A step of threads alone.
LEMMA UnchangedPreserves ==
    ASSUME OneAgentInv, UNCHANGED <<process, agents>>
    PROVE  OneAgentInv'
  BY DEF OneAgentInv, OneAgent, Alive, Started, Pid

\* The keys of a living agent change.
LEMMA KeysPreserve ==
    ASSUME OneAgentInv, NEW p, p \in Started, NEW S,
           agents' = [agents EXCEPT ![p].keys = S], process'.pid = process.pid
    PROVE  OneAgentInv'
<1>1. Started' = Started
  BY DEF Started
<1>2. \A q \in Started : IsAgent(agents'[q]) /\ agents'[q].alive = agents[q].alive
  BY DEF OneAgentInv, Started, IsAgent
<1> QED
  BY <1>1, <1>2, QuietPreserves

\* No step breaks the invariant.
LEMMA StepPreserves ==
    ASSUME OneAgentInv, [Next]_vars
    PROVE  OneAgentInv'
<1>1. CASE OnOutputWatch
  <2>1. process'.pid = process.pid /\ UNCHANGED agents
    BY <1>1 DEF OnOutputWatch
  <2> QED
    BY <2>1, QuietPreserves DEF OneAgentInv, Started
<1>2. CASE OnChildWatch
  <2>1. ~Alive(process.pid) /\ process'.pid = 0 /\ UNCHANGED agents
    BY <1>2 DEF OnChildWatch
  <2>2. \A p \in Started : ~Alive(p)
    BY <2>1 DEF OneAgentInv, OneAgent
  <2> QED
    BY <2>1, <2>2 DEF OneAgentInv, OneAgent, Alive, Started, Pid
<1>3. CASE OnClosed
  BY <1>3, UnchangedPreserves DEF OnClosed
<1>4. CASE AgentListens
  <2>1. PICK p \in Started : agents' = [agents EXCEPT ![p].listening = TRUE] /\ UNCHANGED process
    BY <1>4 DEF AgentListens
  <2>2. Started' = Started
    BY <2>1 DEF Started
  <2>3. ASSUME NEW q \in Started
        PROVE  IsAgent(agents'[q]) /\ (agents'[q].alive => agents[q].alive)
    <3>1. CASE q = p
      <4>1. agents'[q] = [agents[q] EXCEPT !.listening = TRUE]
        BY <2>1, <3>1 DEF Started
      <4>2. agents[q] = [alive |-> agents[q].alive, listening |-> agents[q].listening,
                         keys |-> agents[q].keys]
        BY DEF OneAgentInv, IsAgent
      <4>3. agents'[q] = [alive |-> agents[q].alive, listening |-> TRUE,
                          keys |-> agents[q].keys]
        BY <4>1, <4>2
      <4> QED
        BY <4>3 DEF IsAgent
    <3>2. CASE q # p
      BY <2>1, <3>2 DEF OneAgentInv, Started
    <3> QED
      BY <3>1, <3>2
  <2> QED
    BY <2>1, <2>2, <2>3, QuietPreserves
<1>5. CASE AgentDies
  <2>1. PICK p \in Started : agents' = [agents EXCEPT ![p].alive = FALSE] /\ UNCHANGED process
    BY <1>5 DEF AgentDies
  <2>2. Started' = Started
    BY <2>1 DEF Started
  <2>3. ASSUME NEW q \in Started
        PROVE  IsAgent(agents'[q]) /\ (agents'[q].alive => agents[q].alive)
    <3>1. CASE q = p
      <4>1. agents'[q] = [agents[q] EXCEPT !.alive = FALSE]
        BY <2>1, <3>1 DEF Started
      <4>2. agents[q] = [alive |-> agents[q].alive, listening |-> agents[q].listening,
                         keys |-> agents[q].keys]
        BY DEF OneAgentInv, IsAgent
      <4>3. agents'[q] = [alive |-> FALSE, listening |-> agents[q].listening,
                          keys |-> agents[q].keys]
        BY <4>1, <4>2
      <4> QED
        BY <4>3 DEF IsAgent
    <3>2. CASE q # p
      BY <2>1, <3>2 DEF OneAgentInv, Started
    <3> QED
      BY <3>1, <3>2
  <2> QED
    BY <2>1, <2>2, <2>3, QuietPreserves
<1>6. ASSUME NEW c \in Conn, Step(c)
      PROVE  OneAgentInv'
  <2>1. CASE Connect(c)
    <3>1. CASE process.pid # 0
      BY <2>1, <3>1, UnchangedPreserves DEF Connect
    <3>2. CASE process.pid = 0
      BY <2>1, <3>2, StartPreserves, UnchangedPreserves DEF Connect
    <3> QED
      BY <3>1, <3>2
  <2>2. CASE SshAdds(c)
    <3>1. process.pid \in Started /\ UNCHANGED process
      BY <2>2 DEF SshAdds, Alive
    <3>2. agents' = [agents EXCEPT ![process.pid].keys =
                        agents[process.pid].keys \cup {conn[c].request.key}]
      BY <2>2 DEF SshAdds
    <3> QED
      BY <3>1, <3>2, KeysPreserve
  <2>3. CASE Relay(c)
    <3>1. conn[c].agent \in Started /\ UNCHANGED process
      BY <2>3 DEF Relay, Alive
    <3>2. agents' = [agents EXCEPT ![conn[c].agent].keys =
                        AgentKeys(agents[conn[c].agent].keys, conn[c].request)]
      BY <2>3 DEF Relay
    <3> QED
      BY <3>1, <3>2, KeysPreserve
  <2>4. CASE Await(c) \/ EnsureKey(c) \/ SshAddFails(c) \/ KeyAdded(c)
    BY <2>4, UnchangedPreserves DEF Await, EnsureKey, SshAddFails, KeyAdded
  <2>5. CASE RelayRefused(c) \/ RelayFails(c) \/ Note(c) \/ Write(c)
    BY <2>5, UnchangedPreserves DEF RelayRefused, RelayFails, Note, Write
  <2> QED
    BY <1>6, <2>1, <2>2, <2>3, <2>4, <2>5 DEF Step
<1>7. ASSUME NEW c \in Conn, Hangup(c) \/ \E r \in Request : Read(c, r)
      PROVE  OneAgentInv'
  BY <1>7, UnchangedPreserves DEF Hangup, Read
<1>8. CASE UNCHANGED vars
  BY <1>8, UnchangedPreserves DEF vars
<1> QED
  BY <1>1, <1>2, <1>3, <1>4, <1>5, <1>6, <1>7, <1>8 DEF Next, MainLoop

\* gcr_ssh_agent_process_connect and on_child_watch never let two ssh-agents
\* run, nor one run that is not on record.
THEOREM NeverTwoAgents == Spec => []OneAgent
<1>1. Init => OneAgentInv
  BY DEF Init, OneAgentInv, OneAgent, Started, Alive
<1>2. OneAgentInv /\ [Next]_vars => OneAgentInv'
  BY StepPreserves
<1>3. OneAgentInv => OneAgent
  BY DEF OneAgentInv
<1> QED
  BY <1>1, <1>2, <1>3, PTL DEF Spec

-----------------------------------------------------------------------------
(* Keys on demand.  As long as no agent has died there is one of them, and   *)
(* a key that the service takes to be loaded is one that it holds, unless    *)
(* the key is doubted.                                                       *)

ThreadPc == {"connect", "wait", "read", "ensure", "ssh-add", "added", "relay", "note", "write", "ended"}

ConnState ==
    [pc : ThreadPc, agent : Pid \cup {0}, request : Request \cup {NoRequest}, left : Int,
     held : SUBSET Key, answer : {"none", "success", "failure"}, unlocked : BOOLEAN]

AgentState == [alive : BOOLEAN, listening : BOOLEAN, keys : SUBSET Key]

Typed ==
    /\ process \in [pid : Pid \cup {0}, ready : BOOLEAN]
    /\ Started \subseteq Pid
    /\ agents = [p \in Started |-> agents[p]] /\ \A p \in Started : agents[p] \in AgentState
    /\ keys \in SUBSET Key /\ doubted \in SUBSET Key
    /\ conn \in [Conn -> ConnState]

\* Every agent there has been holds the key, or it is doubted.
Sure(key) == key \in doubted \/ \A p \in Started : key \in agents[p].keys

\* The thread of a connection takes the key to be loaded, or is about to.
Claimed(k, key) ==
    \/ k.pc = "added" /\ key = k.request.key
    \/ k.pc = "relay" /\ k.request.op = "sign" /\ k.unlocked /\ key = k.request.key /\ key \in Preloaded
    \/ k.pc = "note" /\ k.request.op = "add" /\ key = k.request.key
    \/ k.pc = "note" /\ k.request.op = "list" /\ key \in k.held

\* What a thread is at agrees with its request and with the agents there are.
ThreadWell(k, started) ==
    /\ k.pc \in {"ensure", "ssh-add", "added"} => k.request \in Request /\ k.request.op = "sign"
    /\ k.pc \in {"relay", "note", "write"} => k.request \in Request
    /\ k.pc \notin {"connect", "wait", "ended"} => k.agent \in started
    /\ k.answer # "none" => k.pc \in {"note", "write"}

Served(k, doubts) ==
    /\ k.answer = "failure" /\ k.request.op = "sign" /\ k.request.key \in Preloaded /\ k.unlocked
    => k.request.key \in doubts

\* The agents, and the service's table of keys.
TableSure ==
    /\ OneAgent
    /\ \A p \in Started : ~agents[p].alive => doubted = Key
    /\ Started = {} => keys = {}
    /\ \A key \in keys : Sure(key)
    /\ process.ready /\ process.pid \in Started => agents[process.pid].listening

ThreadsSure ==
    \A c \in Conn : /\ ThreadWell(conn[c], Started) /\ Served(conn[c], doubted)
                    /\ \A key \in Key : Claimed(conn[c], key) => Sure(key)

DemandInv == Typed /\ TableSure /\ ThreadsSure

\* A request for a key has one.
LEMMA RequestKeys ==
    ASSUME NEW r \in Request, r.op \in {"sign", "add", "remove"}
    PROVE  r.key \in Key
  BY DEF Request

\* A thread moves on while nothing that was sure is lost.
LEMMA ThreadMoves ==
    ASSUME DemandInv, NEW c \in Conn, NEW k \in ConnState, conn' = [conn EXCEPT ![c] = k],
           ThreadWell(k, Started'), Served(k, doubted'),
           \A key \in Key : Claimed(k, key) => Sure(key)',
           \A key \in Key : Sure(key) => Sure(key)',
           Started \subseteq Started', doubted \subseteq doubted'
    PROVE  ThreadsSure' /\ conn' \in [Conn -> ConnState]
<1>1. /\ conn' \in [Conn -> ConnState] /\ conn'[c] = k
      /\ \A d \in Conn : d # c => conn'[d] = conn[d]
  BY DEF DemandInv, Typed
<1>2. ASSUME NEW d \in Conn, d # c
      PROVE  /\ ThreadWell(conn'[d], Started') /\ Served(conn'[d], doubted')
             /\ \A key \in Key : Claimed(conn'[d], key) => Sure(key)'
  <2>1. /\ ThreadWell(conn[d], Started) /\ Served(conn[d], doubted) /\ conn'[d] = conn[d]
        /\ \A key \in Key : Claimed(conn[d], key) => Sure(key)
    BY <1>1, <1>2 DEF DemandInv, ThreadsSure
  <2>2. ThreadWell(conn[d], Started')
    BY <2>1 DEF ThreadWell
  <2>3. Served(conn[d], doubted')
    BY <2>1 DEF Served
  <2> QED
    BY <2>1, <2>2, <2>3
<1>3. ThreadsSure'
  <2> SUFFICES ASSUME NEW d \in Conn
               PROVE  /\ ThreadWell(conn'[d], Started') /\ Served(conn'[d], doubted')
                      /\ \A key \in Key : Claimed(conn'[d], key) => Sure(key)'
    BY DEF ThreadsSure, ThreadWell, Served, Claimed
  <2> QED
    BY <1>1, <1>2
<1> QED
  BY <1>1, <1>3

\* Steps of threads that change no agent, key or doubt.
LEMMA ThreadOnly ==
    ASSUME DemandInv, NEW c \in Conn, NEW k \in ConnState, conn' = [conn EXCEPT ![c] = k],
           ThreadWell(k, Started), Served(k, doubted),
           \A key \in Key : Claimed(k, key) => Sure(key),
           UNCHANGED <<process, agents, keys, doubted>>
    PROVE  DemandInv'
<1>1. Started' = Started /\ \A key \in Key : Sure(key)' = Sure(key)
  BY DEF Started, Sure
<1>2. ThreadsSure' /\ conn' \in [Conn -> ConnState]
  BY <1>1, ThreadMoves
<1>3. Typed'
  BY <1>1, <1>2 DEF DemandInv, Typed
<1>4. TableSure'
  BY <1>1 DEF DemandInv, TableSure, OneAgent, Alive, Started, Sure
<1> QED
  BY <1>2, <1>3, <1>4 DEF DemandInv

\* A thread that is attached to an agent handles its request from the beginning.
LEMMA HandleWell ==
    ASSUME NEW k \in ConnState, NEW S, k.agent \in S, k.answer = "none", NEW D
    PROVE  /\ Handle(k) \in ConnState /\ ThreadWell(Handle(k), S) /\ Served(Handle(k), D)
           /\ \A key : ~Claimed(Handle(k), key)
<1>1. CASE k.request = NoRequest
  <2>1. Handle(k) = [k EXCEPT !.pc = "read"]
    BY <1>1 DEF Handle
  <2> DEFINE h == [k EXCEPT !.pc = "read"]
  <2>2. /\ h \in ConnState /\ h.pc = "read" /\ h.agent = k.agent /\ h.answer = k.answer
    BY DEF ConnState, ThreadPc
  <2> HIDE DEF h
  <2>3. ThreadWell(h, S) /\ Served(h, D) /\ \A key : ~Claimed(h, key)
    BY <2>2 DEF ThreadWell, Served, Claimed
  <2> QED
    BY <2>1, <2>2, <2>3 DEF h
<1>2. CASE k.request # NoRequest
  <2> DEFINE h == [k EXCEPT !.pc = IF k.request.op = "sign" THEN "ensure" ELSE "relay",
                            !.unlocked = TRUE]
  <2>1. Handle(k) = h
    BY <1>2 DEF Handle
  <2>2. /\ h \in ConnState /\ h.agent = k.agent /\ h.answer = k.answer /\ h.request = k.request
        /\ h.pc = IF k.request.op = "sign" THEN "ensure" ELSE "relay"
        /\ k.request \in Request
    BY <1>2 DEF ConnState, ThreadPc
  <2> HIDE DEF h
  <2>3. ThreadWell(h, S) /\ Served(h, D) /\ \A key : ~Claimed(h, key)
    BY <2>2 DEF ThreadWell, Served, Claimed
  <2> QED
    BY <2>1, <2>2, <2>3
<1> QED
  BY <1>1, <1>2

\* A thread that has ended claims nothing.
LEMMA EndedWell ==
    ASSUME NEW k \in ConnState, NEW S, k.answer = "none", NEW D
    PROVE  /\ Ended(k) \in ConnState /\ ThreadWell(Ended(k), S) /\ Served(Ended(k), D)
           /\ \A key : ~Claimed(Ended(k), key)
<1>1. /\ Ended(k) \in ConnState /\ Ended(k).pc = "ended" /\ Ended(k).answer = "none"
  BY DEF ConnState, Ended, ThreadPc
<1> QED
  BY <1>1 DEF ThreadWell, Served, Claimed

\* The end of gcr_ssh_agent_process_connect claims nothing either.
LEMMA AttachedWell ==
    ASSUME Typed, NEW k \in ConnState, k.answer = "none"
    PROVE  /\ Attached(k) \in ConnState /\ ThreadWell(Attached(k), Started)
           /\ Served(Attached(k), doubted) /\ \A key : ~Claimed(Attached(k), key)
<1>1. CASE process.ready /\ Alive(process.pid) /\ agents[process.pid].listening
  <2> DEFINE h == [k EXCEPT !.agent = process.pid]
  <2>1. h \in ConnState /\ h.agent \in Started /\ h.answer = "none"
    BY <1>1 DEF ConnState, Alive, Typed
  <2>2. Attached(k) = Handle(h)
    BY <1>1 DEF Attached
  <2> HIDE DEF h
  <2> QED
    BY <2>1, <2>2, HandleWell
<1>2. CASE ~(process.ready /\ Alive(process.pid) /\ agents[process.pid].listening)
  BY <1>2, EndedWell DEF Attached
<1> QED
  BY <1>1, <1>2

\* The steps of gcr_ssh_agent_process_connect that start no agent.
LEMMA ConnectDemand ==
    ASSUME DemandInv, NEW c \in Conn, conn[c].pc \in {"connect", "wait"},
           UNCHANGED <<process, agents, keys, doubted>>,
           Go(c, Attached(conn[c])) \/ Go(c, Ended(conn[c]))
    PROVE  DemandInv'
<1>1. Typed /\ conn[c] \in ConnState /\ conn[c].answer = "none"
  BY DEF DemandInv, Typed, ThreadsSure, ThreadWell
<1>2. CASE Go(c, Attached(conn[c]))
  <2> DEFINE k == Attached(conn[c])
  <2>1. /\ k \in ConnState /\ ThreadWell(k, Started) /\ Served(k, doubted)
        /\ \A key : ~Claimed(k, key)
    BY <1>1, AttachedWell
  <2>2. conn' = [conn EXCEPT ![c] = k]
    BY <1>2 DEF Go
  <2> HIDE DEF k
  <2> QED
    BY <2>1, <2>2, ThreadOnly
<1>3. CASE Go(c, Ended(conn[c]))
  <2> DEFINE k == Ended(conn[c])
  <2>1. /\ k \in ConnState /\ ThreadWell(k, Started) /\ Served(k, doubted)
        /\ \A key : ~Claimed(k, key)
    BY <1>1, EndedWell
  <2>2. conn' = [conn EXCEPT ![c] = k]
    BY <1>3 DEF Go
  <2> HIDE DEF k
  <2> QED
    BY <2>1, <2>2, ThreadOnly
<1> QED
  BY <1>2, <1>3

\* A new agent knows no key: the first one finds none taken for loaded, and a
\* later one only doubted keys.
LEMMA StartDemand ==
    ASSUME DemandInv, NEW c \in Conn, conn[c].pc = "connect", process.pid = 0, Start,
           Go(c, [conn[c] EXCEPT !.pc = "wait"]), UNCHANGED <<closing, keys, doubted>>
    PROVE  DemandInv'
<1> DEFINE p == Cardinality(Started) + 1
           k == [conn[c] EXCEPT !.pc = "wait"]
<1>1. /\ p \in Pid /\ process' = [pid |-> p, ready |-> FALSE]
      /\ agents' = [q \in Started \cup {p} |->
             IF q = p THEN [alive |-> TRUE, listening |-> FALSE, keys |-> {}] ELSE agents[q]]
      /\ conn' = [conn EXCEPT ![c] = k]
  BY DEF Start, Spawned, Go
<1>2. conn[c] \in ConnState /\ conn[c].answer = "none"
  BY DEF DemandInv, Typed, ThreadsSure, ThreadWell
<1>3. k \in ConnState /\ k.answer = "none" /\ k.pc = "wait"
  BY <1>2 DEF ConnState, ThreadPc
<1> HIDE DEF p, k
<1>4. Started' = Started \cup {p}
  BY <1>1 DEF Started
<1>5. \A q \in Started : ~Alive(q)
  BY BoundAssumption DEF DemandInv, TableSure, Typed, OneAgent, Pid
<1>6. Started # {} => doubted = Key
  BY <1>5 DEF DemandInv, TableSure, Alive
<1>7. \A key \in Key : Started # {} => Sure(key)'
  BY <1>6 DEF Sure
<1>8. OneAgentInv'
  <2>1. \A q \in Started : IsAgent(agents[q])
    BY DEF DemandInv, Typed, AgentState, IsAgent
  <2>2. OneAgentInv
    BY <2>1 DEF DemandInv, Typed, TableSure, OneAgentInv
  <2> QED
    BY <2>2, StartPreserves
<1>9. /\ ThreadWell(k, Started') /\ Served(k, doubted') /\ \A key \in Key : ~Claimed(k, key)
  BY <1>3 DEF ThreadWell, Served, Claimed
<1>10. ThreadsSure' /\ conn' \in [Conn -> ConnState]
  <2>1. CASE Started # {}
    BY <1>1, <1>3, <1>4, <1>7, <1>9, <2>1, ThreadMoves
  <2>2. CASE Started = {}
    <3>1. conn' \in [Conn -> ConnState]
      BY <1>1, <1>3 DEF DemandInv, Typed
    <3>2. ASSUME NEW d \in Conn
          PROVE  /\ ThreadWell(conn'[d], Started') /\ Served(conn'[d], doubted')
                 /\ \A key \in Key : ~Claimed(conn'[d], key)
      <4>1. CASE d = c
        BY <1>1, <1>9, <4>1 DEF DemandInv, Typed
      <4>2. CASE d # c
        <5>1. conn'[d] = conn[d]
          BY <1>1, <4>2 DEF DemandInv, Typed
        <5>2. /\ conn[d].pc \in {"connect", "wait", "ended"}
              /\ ThreadWell(conn[d], Started) /\ Served(conn[d], doubted)
          BY <2>2 DEF DemandInv, ThreadsSure, ThreadWell
        <5>3. ThreadWell(conn[d], Started') /\ \A key \in Key : ~Claimed(conn[d], key)
          BY <5>2 DEF ThreadWell, Claimed
        <5> QED
          BY <5>1, <5>2, <5>3
      <4> QED
        BY <4>1, <4>2
    <3> QED
      BY <3>1, <3>2 DEF ThreadsSure, ThreadWell, Served, Claimed
  <2> QED
    BY <2>1, <2>2
<1>11. \A q \in Started' : agents'[q] \in AgentState
  BY <1>1, <1>4 DEF DemandInv, Typed, AgentState
<1>12. Typed'
  BY <1>1, <1>4, <1>10, <1>11 DEF DemandInv, Typed, Pid
<1>13. TableSure'
  <2>1. \A key \in keys' : Sure(key)'
    BY <1>7 DEF DemandInv, TableSure, Typed
  <2>2. ASSUME NEW q \in Started', ~agents'[q].alive
        PROVE  doubted' = Key
    BY <1>1, <1>4, <1>6, <2>2
  <2>3. ~process'.ready /\ Started' # {}
    BY <1>1, <1>4
  <2> QED
    BY <1>8, <2>1, <2>2, <2>3 DEF TableSure, OneAgentInv
<1> QED
  BY <1>10, <1>12, <1>13 DEF DemandInv

\* The steps of a thread that touch nothing but the thread.
LEMMA ThreadStepsDemand ==
    ASSUME DemandInv, NEW c \in Conn, UNCHANGED <<process, agents, keys, doubted>>,
           \/ Hangup(c) \/ EnsureKey(c) \/ SshAddFails(c) \/ RelayFails(c) \/ Write(c)
           \/ \E r \in Request : Read(c, r)
    PROVE  DemandInv'
<1>1. /\ conn[c] \in ConnState /\ ThreadWell(conn[c], Started) /\ Served(conn[c], doubted)
      /\ \A key \in Key : Claimed(conn[c], key) => Sure(key)
  BY DEF DemandInv, Typed, ThreadsSure
<1>2. CASE Hangup(c)
  <2>1. conn' = [conn EXCEPT ![c] = Ended(conn[c])] /\ conn[c].answer = "none"
    BY <1>1, <1>2 DEF Hangup, Go, ThreadWell
  <2> QED
    BY <1>1, <2>1, EndedWell, ThreadOnly
<1>3. CASE EnsureKey(c)
  <2> DEFINE key == conn[c].request.key
             k == [conn[c] EXCEPT !.pc = IF key \in keys \/ key \notin Preloaded
                                         THEN "relay" ELSE "ssh-add"]
  <2>1. conn' = [conn EXCEPT ![c] = k] /\ conn[c].pc = "ensure"
    BY <1>3 DEF EnsureKey, Go
  <2>2. /\ k \in ConnState /\ k.pc = IF key \in keys \/ key \notin Preloaded THEN "relay" ELSE "ssh-add"
        /\ k.agent = conn[c].agent /\ k.request = conn[c].request /\ k.answer = conn[c].answer
    BY <1>1 DEF ConnState, ThreadPc
  <2> HIDE DEF k
  <2>3. ThreadWell(k, Started) /\ Served(k, doubted)
    BY <1>1, <2>1, <2>2 DEF ThreadWell, Served
  <2>4. \A x \in Key : Claimed(k, x) => Sure(x)
    BY <2>2 DEF Claimed, DemandInv, TableSure
  <2> QED
    BY <2>1, <2>2, <2>3, <2>4, ThreadOnly
<1>4. CASE SshAddFails(c)
  <2> DEFINE k == [conn[c] EXCEPT !.pc = "relay", !.unlocked = FALSE]
  <2>1. conn' = [conn EXCEPT ![c] = k] /\ conn[c].pc = "ssh-add"
    BY <1>4 DEF SshAddFails, Go
  <2>2. /\ k \in ConnState /\ k.pc = "relay" /\ k.unlocked = FALSE
        /\ k.agent = conn[c].agent /\ k.request = conn[c].request /\ k.answer = conn[c].answer
    BY <1>1 DEF ConnState, ThreadPc
  <2> HIDE DEF k
  <2>3. ThreadWell(k, Started) /\ Served(k, doubted)
    BY <1>1, <2>1, <2>2 DEF ThreadWell, Served
  <2>4. \A x \in Key : Claimed(k, x) => Sure(x)
    BY <2>2 DEF Claimed
  <2> QED
    BY <2>1, <2>2, <2>3, <2>4, ThreadOnly
<1>5. CASE RelayFails(c)
  <2>1. conn[c].pc = "relay" /\ conn[c].answer = "none"
    BY <1>1, <1>5 DEF RelayFails, ThreadWell
  <2>2. CASE process.pid # 0
    <3>1. conn' = [conn EXCEPT ![c] = Ended(conn[c])]
      BY <1>5, <2>2 DEF RelayFails, Go
    <3> QED
      BY <1>1, <2>1, <3>1, EndedWell, ThreadOnly
  <2>3. CASE process.pid = 0
    <3> DEFINE k == [conn[c] EXCEPT !.pc = "connect"]
    <3>1. conn' = [conn EXCEPT ![c] = k]
      BY <1>5, <2>3 DEF RelayFails, Go
    <3>2. k \in ConnState /\ k.pc = "connect" /\ k.answer = "none"
      BY <1>1, <2>1 DEF ConnState, ThreadPc
    <3> HIDE DEF k
    <3>3. ThreadWell(k, Started) /\ Served(k, doubted) /\ \A x \in Key : ~Claimed(k, x)
      BY <3>2 DEF ThreadWell, Served, Claimed
    <3> QED
      BY <3>1, <3>2, <3>3, ThreadOnly
  <2> QED
    BY <2>2, <2>3
<1>6. CASE Write(c)
  <2>1. PICK h \in {[conn[c] EXCEPT !.pc = "read"], Ended(conn[c])} :
            conn' = [conn EXCEPT ![c] = [h EXCEPT !.request = NoRequest, !.held = {}, !.answer = "none"]]
    BY <1>6 DEF Write, Go
  <2> DEFINE k == [h EXCEPT !.request = NoRequest, !.held = {}, !.answer = "none"]
  <2>2. h \in ConnState /\ h.pc \in {"read", "ended"} /\ h.agent = conn[c].agent
    BY <1>1 DEF ConnState, ThreadPc, Ended
  <2>3. conn[c].pc = "write" /\ conn[c].agent \in Started
    BY <1>1, <1>6 DEF Write, ThreadWell
  <2>4. k \in ConnState /\ k.pc \in {"read", "ended"} /\ k.agent = conn[c].agent /\ k.answer = "none"
    BY <2>2 DEF ConnState, ThreadPc
  <2>5. conn' = [conn EXCEPT ![c] = k]
    BY <2>1
  <2> HIDE DEF k
  <2>6. ThreadWell(k, Started) /\ Served(k, doubted) /\ \A x \in Key : ~Claimed(k, x)
    BY <2>3, <2>4 DEF ThreadWell, Served, Claimed
  <2> QED
    BY <2>4, <2>5, <2>6, ThreadOnly
<1>7. CASE \E r \in Request : Read(c, r)
  <2>1. PICK r \in Request : Read(c, r)
    BY <1>7
  <2> DEFINE h == [conn[c] EXCEPT !.request = r, !.left = @ - 1]
  <2>2. conn[c].pc = "read" /\ conn[c].answer = "none" /\ conn[c].agent \in Started
    BY <1>1, <2>1 DEF Read, ThreadWell
  <2>3. h \in ConnState /\ h.answer = "none" /\ h.agent \in Started
    <3>1. r \in Request \cup {NoRequest} /\ conn[c].left - 1 \in Int
      BY <1>1 DEF ConnState
    <3>2. h = [conn[c] EXCEPT !.request = r, !.left = conn[c].left - 1]
      OBVIOUS
    <3> QED
      BY <1>1, <2>2, <3>1, <3>2 DEF ConnState
  <2>4. conn' = [conn EXCEPT ![c] = Handle(h)]
    BY <2>1 DEF Read, Go
  <2> HIDE DEF h
  <2> QED
    BY <2>3, <2>4, HandleWell, ThreadOnly
<1> QED
  BY <1>2, <1>3, <1>4, <1>5, <1>6, <1>7

\* add_key, and what the service makes of an answer: what it then takes to be
\* loaded, the thread had claimed.
LEMMA TableDemand ==
    ASSUME DemandInv, NEW c \in Conn, KeyAdded(c) \/ Note(c)
    PROVE  DemandInv'
<1>1. /\ conn[c] \in ConnState /\ ThreadWell(conn[c], Started) /\ Served(conn[c], doubted)
      /\ \A key \in Key : Claimed(conn[c], key) => Sure(key)
      /\ \A key \in keys : Sure(key)
  BY DEF DemandInv, Typed, ThreadsSure, TableSure
<1>2. PICK k \in ConnState :
         /\ conn' = [conn EXCEPT ![c] = k]
         /\ ThreadWell(k, Started) /\ Served(k, doubted)
         /\ \A x \in Key : Claimed(k, x) => Sure(x)
  <2>1. CASE KeyAdded(c)
    <3> DEFINE k == [conn[c] EXCEPT !.pc = "relay"]
    <3>1. conn' = [conn EXCEPT ![c] = k] /\ conn[c].pc = "added"
      BY <2>1 DEF KeyAdded, Go
    <3>2. /\ k \in ConnState /\ k.pc = "relay" /\ k.agent = conn[c].agent
          /\ k.request = conn[c].request /\ k.answer = conn[c].answer
      BY <1>1 DEF ConnState, ThreadPc
    <3> HIDE DEF k
    <3>3. ThreadWell(k, Started) /\ Served(k, doubted)
      BY <1>1, <3>1, <3>2 DEF ThreadWell, Served
    <3>4. \A x \in Key : Claimed(k, x) => Sure(x)
      BY <1>1, <3>1, <3>2 DEF Claimed
    <3> QED
      BY <3>1, <3>2, <3>3, <3>4
  <2>2. CASE Note(c)
    <3> DEFINE k == [conn[c] EXCEPT !.pc = "write"]
    <3>1. conn' = [conn EXCEPT ![c] = k] /\ conn[c].pc = "note"
      BY <2>2 DEF Note, Go
    <3>2. /\ k \in ConnState /\ k.pc = "write" /\ k.agent = conn[c].agent
          /\ k.request = conn[c].request /\ k.answer = conn[c].answer /\ k.unlocked = conn[c].unlocked
      BY <1>1 DEF ConnState, ThreadPc
    <3> HIDE DEF k
    <3>3. ThreadWell(k, Started) /\ Served(k, doubted)
      BY <1>1, <3>1, <3>2 DEF ThreadWell, Served
    <3>4. \A x \in Key : ~Claimed(k, x)
      BY <3>2 DEF Claimed
    <3> QED
      BY <3>1, <3>2, <3>3, <3>4
  <2> QED
    BY <2>1, <2>2
<1>3. /\ UNCHANGED <<process, agents, doubted>> /\ Started # {} /\ conn[c].request \in Request
  BY <1>1 DEF KeyAdded, Note, ThreadWell
<1>4. keys' \in SUBSET Key /\ \A key \in keys' : Sure(key)
  <2>1. CASE KeyAdded(c)
    <3>1. conn[c].pc = "added" /\ keys' = keys \cup {conn[c].request.key} /\ conn[c].request.key \in Key
      BY <1>1, <2>1, RequestKeys DEF KeyAdded, ThreadWell
    <3> QED
      BY <1>1, <3>1 DEF Claimed, DemandInv, Typed
  <2>2. CASE Note(c)
    <3>1. conn[c].pc = "note" /\ keys' = Noted(keys, conn[c])
      BY <2>2 DEF Note
    <3>2. conn[c].held \in SUBSET Key /\ keys \in SUBSET Key
      BY <1>1 DEF ConnState, DemandInv, Typed
    <3>3. conn[c].request.op \in {"sign", "add", "remove", "removeAll", "list", "other"}
      BY <1>3 DEF Request
    <3>4. CASE conn[c].request.op = "add"
      <4>1. conn[c].request.key \in Key /\ keys' = keys \cup {conn[c].request.key}
        BY <1>3, <3>1, <3>4, RequestKeys DEF Noted
      <4> QED
        BY <1>1, <3>1, <3>2, <3>4, <4>1 DEF Claimed
    <3>5. CASE conn[c].request.op = "list"
      BY <1>1, <3>1, <3>2, <3>5 DEF Claimed, Noted
    <3>6. CASE conn[c].request.op \notin {"add", "list"}
      <4>1. keys' \subseteq keys
        BY <3>1, <3>3, <3>6 DEF Noted
      <4> QED
        BY <1>1, <3>2, <4>1
    <3> QED
      BY <3>4, <3>5, <3>6
  <2> QED
    BY <2>1, <2>2
<1>5. Started' = Started /\ \A key \in Key : Sure(key)' = Sure(key)
  BY <1>3 DEF Started, Sure
<1>6. ThreadsSure' /\ conn' \in [Conn -> ConnState]
  BY <1>2, <1>3, <1>5, ThreadMoves
<1>7. Typed'
  BY <1>3, <1>4, <1>5, <1>6 DEF DemandInv, Typed
<1>8. TableSure'
  BY <1>3, <1>4, <1>5 DEF DemandInv, TableSure, OneAgent, Alive, Started, Sure
<1> QED
  BY <1>6, <1>7, <1>8 DEF DemandInv

\* The keys of a living agent change, and what it loses is doubted.
LEMMA AgentMoves ==
    ASSUME DemandInv, NEW p \in Started, Alive(p), NEW S \in SUBSET Key,
           agents' = [agents EXCEPT ![p].keys = S],
           doubted' \in SUBSET Key, doubted \subseteq doubted', agents[p].keys \ S \subseteq doubted',
           UNCHANGED <<process, keys>>
    PROVE  /\ Started' = Started /\ agents'[p].keys = S
           /\ \A key \in Key : Sure(key) => Sure(key)'
           /\ \A key \in Key : key \in S => Sure(key)'
           /\ TableSure'
           /\ conn' \in [Conn -> ConnState] => Typed'
<1>1. Started' = Started
  BY DEF Started
<1>2. \A q \in Started : agents[q] \in AgentState
  BY DEF DemandInv, Typed
<1>3. /\ agents'[p] = [agents[p] EXCEPT !.keys = S]
      /\ \A q \in Started : q # p => agents'[q] = agents[q]
  BY DEF Started
<1>4. /\ agents'[p] \in AgentState /\ agents'[p].keys = S
      /\ agents'[p].alive = agents[p].alive /\ agents'[p].listening = agents[p].listening
  <2>1. agents[p] = [alive |-> agents[p].alive, listening |-> agents[p].listening,
                     keys |-> agents[p].keys]
        /\ agents[p].alive \in BOOLEAN /\ agents[p].listening \in BOOLEAN
    BY <1>2 DEF AgentState
  <2>2. agents'[p] = [alive |-> agents[p].alive, listening |-> agents[p].listening, keys |-> S]
    BY <2>1 DEF Started
  <2>3. /\ agents'[p].keys = S /\ agents'[p].alive = agents[p].alive
        /\ agents'[p].listening = agents[p].listening
    BY <2>2
  <2>4. agents'[p] \in AgentState
    BY <2>1, <2>2 DEF AgentState
  <2> QED
    BY <2>3, <2>4
<1>5. \A q \in Started : /\ agents'[q].alive = agents[q].alive
                         /\ agents'[q].listening = agents[q].listening
                         /\ agents'[q] \in AgentState
  BY <1>2, <1>3, <1>4
<1>6. \A key \in Key : Sure(key) => Sure(key)'
  BY <1>1, <1>3, <1>4 DEF Sure
<1>7. \A key \in Key : key \in S => Sure(key)'
  <2> SUFFICES ASSUME NEW key \in Key, key \in S, NEW q \in Started, key \notin agents'[q].keys
               PROVE  key \in doubted'
    BY <1>1 DEF Sure
  <2>1. q # p
    BY <1>4
  <2>2. ~agents[q].alive
    BY <2>1 DEF DemandInv, TableSure, OneAgent, Alive
  <2> QED
    BY <2>2 DEF DemandInv, TableSure
<1>8. TableSure'
  <2>1. OneAgent'
    BY <1>1, <1>5 DEF DemandInv, TableSure, OneAgent, Alive
  <2>2. \A q \in Started' : ~agents'[q].alive => doubted' = Key
    BY <1>1, <1>5 DEF DemandInv, TableSure
  <2>3. \A key \in keys' : Sure(key)'
    BY <1>6 DEF DemandInv, TableSure, Typed
  <2>4. process'.ready /\ process'.pid \in Started' => agents'[process'.pid].listening
    BY <1>1, <1>5 DEF DemandInv, TableSure
  <2>5. Started' = {} => keys' = {}
    BY <1>1
  <2> QED
    BY <2>1, <2>2, <2>3, <2>4, <2>5 DEF TableSure
<1>9. conn' \in [Conn -> ConnState] => Typed'
  <2>1. agents' = [q \in Started |-> agents'[q]]
    BY DEF Started
  <2> QED
    BY <1>1, <1>5, <2>1 DEF DemandInv, Typed
<1> QED
  BY <1>1, <1>4, <1>6, <1>7, <1>8, <1>9

\* ssh-add's key is in the only agent that lives.
LEMMA SshAddsDemand ==
    ASSUME DemandInv, NEW c \in Conn, SshAdds(c)
    PROVE  DemandInv'
<1> DEFINE k == [conn[c] EXCEPT !.pc = "added"]
           p == process.pid
           S == agents[p].keys \cup {conn[c].request.key}
<1>1. /\ conn[c] \in ConnState /\ ThreadWell(conn[c], Started) /\ Served(conn[c], doubted)
  BY DEF DemandInv, Typed, ThreadsSure
<1>2. /\ conn[c].pc = "ssh-add" /\ p \in Started /\ Alive(p)
      /\ agents' = [agents EXCEPT ![p].keys = S] /\ conn' = [conn EXCEPT ![c] = k]
      /\ UNCHANGED <<process, closing, keys, doubted>>
  BY DEF SshAdds, Alive, Go
<1>3. conn[c].request.key \in Key
  BY <1>1, <1>2, RequestKeys DEF ThreadWell
<1>4. S \in SUBSET Key /\ conn[c].request.key \in S /\ agents[p].keys \ S = {}
  BY <1>2, <1>3 DEF DemandInv, Typed, AgentState
<1>5. /\ k \in ConnState /\ k.pc = "added" /\ k.agent = conn[c].agent
      /\ k.request = conn[c].request /\ k.answer = conn[c].answer
  BY <1>1 DEF ConnState, ThreadPc
<1> HIDE DEF k, p, S
<1>6. PICK q \in Started : q = p
  BY <1>2
<1>7. /\ Started' = Started /\ \A key \in Key : Sure(key) => Sure(key)'
      /\ \A key \in Key : key \in S => Sure(key)'
      /\ TableSure' /\ (conn' \in [Conn -> ConnState] => Typed')
  <2>1. doubted \in SUBSET Key
    BY DEF DemandInv, Typed
  <2> QED
    BY <1>2, <1>4, <1>6, <2>1, AgentMoves
<1>8. ThreadWell(k, Started') /\ Served(k, doubted') /\ \A key \in Key : Claimed(k, key) => Sure(key)'
  <2>1. ThreadWell(k, Started) /\ Served(k, doubted')
    BY <1>1, <1>2, <1>5 DEF ThreadWell, Served
  <2>2. \A key \in Key : Claimed(k, key) => key \in S
    BY <1>4, <1>5 DEF Claimed
  <2> QED
    BY <1>7, <2>1, <2>2
<1>9. ThreadsSure' /\ conn' \in [Conn -> ConnState]
  BY <1>2, <1>5, <1>7, <1>8, ThreadMoves
<1> QED
  BY <1>7, <1>9 DEF DemandInv

\* What is relayed to an agent: it answers with failure only for a key that it
\* does not hold, and a claimed one is then doubted.
LEMMA RelayDemand ==
    ASSUME DemandInv, NEW c \in Conn, Relay(c)
    PROVE  DemandInv'
<1> DEFINE p == conn[c].agent
           r == conn[c].request
           held == agents[p].keys
           S == AgentKeys(held, r)
           k == [conn[c] EXCEPT !.pc = "note", !.held = held,
                                !.answer = IF r.op = "sign" /\ r.key \notin held
                                           THEN "failure" ELSE "success"]
<1>1. /\ conn[c] \in ConnState /\ ThreadWell(conn[c], Started)
      /\ \A key \in Key : Claimed(conn[c], key) => Sure(key)
  BY DEF DemandInv, Typed, ThreadsSure
<1>2. /\ conn[c].pc = "relay" /\ p \in Started /\ Alive(p)
      /\ agents' = [agents EXCEPT ![p].keys = S] /\ conn' = [conn EXCEPT ![c] = k]
      /\ doubted' = doubted \cup (held \ S) /\ UNCHANGED <<process, keys>>
  BY DEF Relay, Alive, Go
<1>3. r \in Request /\ held \in SUBSET Key
  BY <1>1, <1>2 DEF ThreadWell, DemandInv, Typed, AgentState
<1>4. /\ k \in ConnState /\ k.pc = "note" /\ k.agent = p /\ k.request = r /\ k.held = held
      /\ k.answer = (IF r.op = "sign" /\ r.key \notin held THEN "failure" ELSE "success")
      /\ k.unlocked = conn[c].unlocked
  BY <1>1, <1>3 DEF ConnState, ThreadPc
<1>5. /\ S \in SUBSET Key
      /\ r.op = "add" => r.key \in S
      /\ r.op = "list" => S = held
  <2>1. r.op \in {"sign", "add", "remove", "removeAll", "list", "other"}
    BY <1>3 DEF Request
  <2>2. r.op = "add" => r.key \in Key
    BY <1>3, RequestKeys
  <2> QED
    BY <1>3, <2>1, <2>2 DEF AgentKeys
<1>6. r.op = "sign" => r.key \in Key
  BY <1>3, RequestKeys
<1>7. doubted' \in SUBSET Key /\ doubted \subseteq doubted' /\ held \ S \subseteq doubted'
  BY <1>2, <1>3 DEF DemandInv, Typed
<1> HIDE DEF k, p, S, r, held
<1>8. PICK q \in Started : q = p
  BY <1>2
<1>9. /\ Started' = Started /\ \A key \in Key : Sure(key) => Sure(key)'
      /\ \A key \in Key : key \in S => Sure(key)'
      /\ TableSure' /\ (conn' \in [Conn -> ConnState] => Typed')
  BY <1>2, <1>5, <1>7, <1>8, AgentMoves DEF held
<1>10. ThreadWell(k, Started') /\ \A key \in Key : Claimed(k, key) => Sure(key)'
  <2>1. ThreadWell(k, Started)
    BY <1>2, <1>3, <1>4 DEF ThreadWell
  <2>2. \A key \in Key : Claimed(k, key) => key \in S
    BY <1>4, <1>5 DEF Claimed
  <2> QED
    BY <1>9, <2>1, <2>2
<1>11. Served(k, doubted')
  <2> SUFFICES ASSUME k.answer = "failure", r.op = "sign", r.key \in Preloaded, conn[c].unlocked
               PROVE  r.key \in doubted'
    BY <1>4 DEF Served
  <2>1. r.key \notin held
    BY <1>4
  <2>2. Claimed(conn[c], r.key) /\ r.key \in Key
    BY <1>2, <1>6 DEF Claimed, r
  <2>3. Sure(r.key)
    BY <1>1, <2>2
  <2>4. r.key \in doubted
    BY <1>2, <2>1, <2>3 DEF Sure, held
  <2> QED
    BY <1>7, <2>4
<1>12. ThreadsSure' /\ conn' \in [Conn -> ConnState]
  BY <1>2, <1>4, <1>7, <1>9, <1>10, <1>11, ThreadMoves
<1> QED
  BY <1>9, <1>12 DEF DemandInv

\* An addition that the agent refuses makes its key doubted.
LEMMA RefusedDemand ==
    ASSUME DemandInv, NEW c \in Conn, RelayRefused(c)
    PROVE  DemandInv'
<1> DEFINE k == [conn[c] EXCEPT !.pc = "note", !.answer = "failure"]
<1>1. conn[c] \in ConnState /\ ThreadWell(conn[c], Started)
  BY DEF DemandInv, Typed, ThreadsSure
<1>2. /\ conn[c].pc = "relay" /\ conn[c].request.op = "add" /\ conn' = [conn EXCEPT ![c] = k]
      /\ doubted' = doubted \cup {conn[c].request.key} /\ UNCHANGED <<process, agents, keys>>
  BY DEF RelayRefused, Go
<1>3. /\ k \in ConnState /\ k.pc = "note" /\ k.agent = conn[c].agent /\ k.request = conn[c].request
  BY <1>1 DEF ConnState, ThreadPc
<1> HIDE DEF k
<1>4. conn[c].request \in Request /\ conn[c].request.key \in Key
  BY <1>1, <1>2, RequestKeys DEF ThreadWell
<1>5. /\ Started' = Started /\ doubted' \in SUBSET Key /\ doubted \subseteq doubted'
      /\ \A key \in Key : Sure(key) => Sure(key)'
  BY <1>2, <1>4 DEF Started, Sure, DemandInv, Typed
<1>6. ThreadWell(k, Started') /\ Served(k, doubted')
  BY <1>1, <1>2, <1>3, <1>4, <1>5 DEF ThreadWell, Served
<1>7. \A key \in Key : Claimed(k, key) => Sure(key)'
  <2>1. \A key \in Key : Claimed(k, key) => key \in doubted'
    BY <1>2, <1>3 DEF Claimed
  <2> QED
    BY <2>1 DEF Sure
<1>8. ThreadsSure' /\ conn' \in [Conn -> ConnState]
  BY <1>2, <1>3, <1>5, <1>6, <1>7, ThreadMoves
<1>9. Typed'
  BY <1>2, <1>5, <1>8 DEF DemandInv, Typed
<1>10. TableSure'
  <2>1. \A key \in keys' : Sure(key)'
    BY <1>2, <1>5 DEF DemandInv, TableSure, Typed
  <2> QED
    BY <1>2, <1>5, <2>1 DEF DemandInv, TableSure, Typed, OneAgent, Alive
<1> QED
  BY <1>8, <1>9, <1>10 DEF DemandInv

\* The steps that leave the threads alone.
LEMMA ThreadsStay ==
    ASSUME DemandInv, UNCHANGED conn, Started' = Started,
           doubted \subseteq doubted', \A key \in Key : Sure(key) => Sure(key)'
    PROVE  ThreadsSure' /\ conn' \in [Conn -> ConnState]
<1> SUFFICES ASSUME NEW d \in Conn
             PROVE  /\ ThreadWell(conn'[d], Started') /\ Served(conn'[d], doubted')
                    /\ \A key \in Key : Claimed(conn'[d], key) => Sure(key)'
  BY DEF DemandInv, Typed, ThreadsSure, ThreadWell, Served, Claimed
<1>1. /\ ThreadWell(conn[d], Started) /\ Served(conn[d], doubted)
      /\ \A key \in Key : Claimed(conn[d], key) => Sure(key)
  BY DEF DemandInv, ThreadsSure
<1>2. Served(conn[d], doubted')
  BY <1>1 DEF Served
<1> QED
  BY <1>1, <1>2

\* The socket that is opened takes no key from the agent.
LEMMA AgentListensDemand ==
    ASSUME DemandInv, AgentListens
    PROVE  DemandInv'
<1>1. PICK p \in Started : /\ agents' = [agents EXCEPT ![p].listening = TRUE]
                           /\ UNCHANGED <<process, keys, conn, doubted>>
  BY DEF AgentListens
<1>2. Started' = Started /\ agents' = [q \in Started |-> agents'[q]]
  BY <1>1 DEF Started
<1>3. agents[p] = [alive |-> agents[p].alive, listening |-> agents[p].listening,
                   keys |-> agents[p].keys]
      /\ agents[p].alive \in BOOLEAN /\ agents[p].keys \in SUBSET Key
  BY DEF DemandInv, Typed, AgentState
<1>4. agents'[p] = [alive |-> agents[p].alive, listening |-> TRUE, keys |-> agents[p].keys]
  BY <1>1, <1>3 DEF Started
<1>5. agents'[p] \in AgentState
  BY <1>3, <1>4 DEF AgentState
<1>6. \A q \in Started : /\ agents'[q].alive = agents[q].alive /\ agents'[q].keys = agents[q].keys
                         /\ agents[q].listening => agents'[q].listening
                         /\ agents'[q] \in AgentState
  BY <1>1, <1>4, <1>5 DEF DemandInv, Typed, Started
<1>7. \A key \in Key : Sure(key) => Sure(key)'
  BY <1>1, <1>2, <1>6 DEF Sure
<1>8. ThreadsSure' /\ conn' \in [Conn -> ConnState]
  BY <1>1, <1>2, <1>7, ThreadsStay
<1>9. Typed'
  BY <1>1, <1>2, <1>6, <1>8 DEF DemandInv, Typed
<1>10. TableSure'
  <2>1. OneAgent' /\ \A key \in keys' : Sure(key)'
    BY <1>1, <1>2, <1>6, <1>7 DEF DemandInv, TableSure, OneAgent, Alive, Typed
  <2> QED
    BY <1>1, <1>2, <1>6, <2>1 DEF DemandInv, TableSure
<1> QED
  BY <1>8, <1>9, <1>10 DEF DemandInv

\* Whatever was claimed is doubted once an agent dies.
LEMMA AgentDiesDemand ==
    ASSUME DemandInv, AgentDies
    PROVE  DemandInv'
<1>1. PICK p \in Started : /\ agents' = [agents EXCEPT ![p].alive = FALSE]
                           /\ doubted' = Key /\ UNCHANGED <<process, keys, conn>>
  BY DEF AgentDies
<1>2. Started' = Started /\ agents' = [q \in Started |-> agents'[q]]
  BY <1>1 DEF Started
<1>3. agents[p] = [alive |-> agents[p].alive, listening |-> agents[p].listening,
                   keys |-> agents[p].keys]
      /\ agents[p].listening \in BOOLEAN /\ agents[p].keys \in SUBSET Key
  BY DEF DemandInv, Typed, AgentState
<1>4. agents'[p] = [alive |-> FALSE, listening |-> agents[p].listening, keys |-> agents[p].keys]
  BY <1>1, <1>3 DEF Started
<1>5. agents'[p] \in AgentState
  BY <1>3, <1>4 DEF AgentState
<1>6. \A q \in Started : /\ agents'[q].alive => agents[q].alive
                         /\ agents'[q].listening = agents[q].listening
                         /\ agents'[q] \in AgentState
  BY <1>1, <1>4, <1>5 DEF DemandInv, Typed, Started
<1>7. \A key \in Key : Sure(key)'
  BY <1>1 DEF Sure
<1>8. ThreadsSure' /\ conn' \in [Conn -> ConnState]
  <2>1. doubted \subseteq doubted'
    BY <1>1 DEF DemandInv, Typed
  <2> QED
    BY <1>1, <1>2, <1>7, <2>1, ThreadsStay
<1>9. Typed'
  BY <1>1, <1>2, <1>6, <1>8 DEF DemandInv, Typed
<1>10. TableSure'
  <2>1. OneAgent' /\ \A key \in keys' : Sure(key)'
    BY <1>1, <1>2, <1>6, <1>7 DEF DemandInv, TableSure, OneAgent, Alive, Typed
  <2> QED
    BY <1>1, <1>2, <1>6, <2>1 DEF DemandInv, TableSure
<1> QED
  BY <1>8, <1>9, <1>10 DEF DemandInv

\* The main loop only ever empties the table of keys; what it takes for ready listens.
LEMMA MainLoopDemand ==
    ASSUME DemandInv, MainLoop \/ UNCHANGED vars
    PROVE  DemandInv'
<1>1. UNCHANGED <<agents, conn, doubted>> /\ keys' \in {keys, {}}
  BY DEF MainLoop, OnOutputWatch, OnChildWatch, OnClosed, vars
<1>2. Started' = Started /\ \A key \in Key : Sure(key) => Sure(key)'
  BY <1>1 DEF Started, Sure
<1>3. ThreadsSure' /\ conn' \in [Conn -> ConnState]
  BY <1>1, <1>2, ThreadsStay
<1>4. /\ process' \in [pid : Pid \cup {0}, ready : BOOLEAN]
      /\ process'.ready /\ process'.pid \in Started => agents[process'.pid].listening
      /\ process'.pid = process.pid \/ (process'.pid = 0 /\ ~Alive(process.pid))
  <2>1. process \in [pid : Pid \cup {0}, ready : BOOLEAN] /\ 0 \notin Started
    BY BoundAssumption DEF DemandInv, Typed, Pid
  <2>2. CASE OnOutputWatch
    BY <2>1, <2>2 DEF OnOutputWatch
  <2>3. CASE OnChildWatch
    BY <2>1, <2>3 DEF OnChildWatch
  <2>4. CASE UNCHANGED process
    BY <2>1, <2>4 DEF DemandInv, TableSure
  <2> QED
    BY <2>2, <2>3, <2>4 DEF MainLoop, OnClosed, vars
<1>5. Typed'
  BY <1>1, <1>2, <1>3, <1>4 DEF DemandInv, Typed
<1>6. TableSure'
  <2>1. OneAgent'
    BY <1>1, <1>2, <1>4 DEF DemandInv, TableSure, OneAgent, Alive
  <2>2. (\A key \in keys' : Sure(key)') /\ (Started' = {} => keys' = {})
    BY <1>1, <1>2 DEF DemandInv, TableSure, Typed
  <2> QED
    BY <1>1, <1>2, <1>4, <2>1, <2>2 DEF DemandInv, TableSure
<1> QED
  BY <1>3, <1>5, <1>6 DEF DemandInv

\* The service starts with nothing claimed.
LEMMA DemandInit ==
    ASSUME Init
    PROVE  DemandInv
<1>1. NewConn \in ConnState
  BY BoundAssumption DEF NewConn, ConnState, ThreadPc
<1>2. Started = {}
  BY DEF Init, Started
<1>3. Typed
  BY <1>1, <1>2 DEF Init, Typed, AgentState
<1>4. TableSure
  BY <1>2 DEF Init, TableSure, OneAgent, Sure
<1>5. ThreadsSure
  BY DEF Init, ThreadsSure, NewConn, ThreadWell, Served, Claimed
<1> QED
  BY <1>3, <1>4, <1>5 DEF DemandInv

\* One step per handler of the service and of the main loop.
LEMMA DemandStep ==
    ASSUME DemandInv, [Next]_vars
    PROVE  DemandInv'
<1>1. CASE MainLoop \/ UNCHANGED vars
  BY <1>1, MainLoopDemand
<1>2. CASE AgentListens
  BY <1>2, AgentListensDemand
<1>3. CASE AgentDies
  BY <1>3, AgentDiesDemand
<1>4. ASSUME NEW c \in Conn, Step(c) \/ Hangup(c) \/ \E r \in Request : Read(c, r)
      PROVE  DemandInv'
  <2>1. CASE Connect(c)
    <3>1. CASE process.pid # 0
      BY <2>1, <3>1, ConnectDemand DEF Connect
    <3>2. CASE process.pid = 0
      <4>1. CASE Start /\ Go(c, [conn[c] EXCEPT !.pc = "wait"])
        BY <2>1, <3>2, <4>1, StartDemand DEF Connect
      <4>2. CASE Go(c, Ended(conn[c])) /\ UNCHANGED <<process, agents>>
        BY <2>1, <4>2, ConnectDemand DEF Connect
      <4> QED
        BY <2>1, <3>2, <4>1, <4>2 DEF Connect
    <3> QED
      BY <3>1, <3>2
  <2>2. CASE Await(c)
    BY <2>2, ConnectDemand DEF Await
  <2>3. CASE EnsureKey(c) \/ SshAddFails(c)
    BY <2>3, ThreadStepsDemand DEF EnsureKey, SshAddFails
  <2>4. CASE RelayFails(c) \/ Write(c)
    BY <2>4, ThreadStepsDemand DEF RelayFails, Write
  <2>5. CASE Hangup(c) \/ \E r \in Request : Read(c, r)
    BY <2>5, ThreadStepsDemand DEF Hangup, Read
  <2>6. CASE SshAdds(c)
    BY <2>6, SshAddsDemand
  <2>7. CASE Relay(c)
    BY <2>7, RelayDemand
  <2>8. CASE RelayRefused(c)
    BY <2>8, RefusedDemand
  <2>9. CASE KeyAdded(c) \/ Note(c)
    BY <2>9, TableDemand
  <2> QED
    BY <1>4, <2>1, <2>2, <2>3, <2>4, <2>5, <2>6, <2>7, <2>8, <2>9 DEF Step
<1> QED
  BY <1>1, <1>2, <1>3, <1>4 DEF Next

\* The table of keys is never surer than the agents are, except of doubted keys.
LEMMA DemandAlways == Spec => []DemandInv
<1>1. Init => DemandInv
  BY DemandInit
<1>2. DemandInv /\ [Next]_vars => DemandInv'
  BY DemandStep
<1> QED
  BY <1>1, <1>2, PTL DEF Spec

\* However many connections race to load keys, list, add and remove them, a
\* signature with a key of ~/.ssh is refused only if ssh-add failed or some
\* agent refused the key, gave it up or died.
THEOREM SignaturesAreServed == Spec => []SignServed
<1>1. DemandInv => SignServed
  BY DEF DemandInv, ThreadsSure, Served, SignServed
<1> QED
  BY <1>1, DemandAlways, PTL

\* A thread is turned away by gcr_ssh_agent_process_connect or after a failed
\* relay only if the agent is not known to be ready or has died.
THEOREM ReadyIsWelcoming == Spec => Welcome
<1> DEFINE Turned(c) ==
             conn[c].pc \in {"connect", "wait", "relay"} /\ conn'[c].pc = "ended" =>
                 \/ ~process.ready
                 \/ ~Alive(process.pid)
                 \/ conn[c].pc = "relay" /\ ~Alive(conn[c].agent)
<1>1. ASSUME DemandInv, [Next]_vars
      PROVE  [\A c \in Conn : Turned(c)]_vars
  <2> SUFFICES ASSUME Next, NEW c \in Conn, conn[c].pc \in {"connect", "wait", "relay"},
                      conn'[c].pc = "ended"
               PROVE  \/ ~process.ready
                      \/ ~Alive(process.pid)
                      \/ conn[c].pc = "relay" /\ ~Alive(conn[c].agent)
    BY <1>1
  <2>1. conn \in [Conn -> ConnState] /\ conn[c] \in ConnState
    BY <1>1 DEF DemandInv, Typed
  <2>2. conn'[c] # conn[c]
    BY <2>1 DEF ConnState
  <2>3. PICK d \in Conn : Step(d) \/ Hangup(d) \/ \E r \in Request : Read(d, r)
    BY <2>2 DEF Next, MainLoop, OnOutputWatch, OnChildWatch, OnClosed, AgentListens, AgentDies
  <2>4. d = c
    BY <2>1, <2>2, <2>3 DEF Step, Hangup, Read, Connect, Await, EnsureKey, SshAdds, SshAddFails,
       KeyAdded, Relay, RelayRefused, RelayFails, Note, Write, Go
  <2>5. ASSUME process.ready, Alive(process.pid), Go(c, Attached(conn[c]))
        PROVE  FALSE
    <3> DEFINE h == [conn[c] EXCEPT !.agent = process.pid]
    <3>1. agents[process.pid].listening
      BY <1>1, <2>5 DEF DemandInv, TableSure, Alive
    <3>2. conn'[c] = Handle(h)
      BY <2>1, <2>5, <3>1 DEF Go, Attached
    <3>3. h \in ConnState
      BY <1>1, <2>1 DEF ConnState, DemandInv, Typed
    <3> HIDE DEF h
    <3>4. Handle(h).pc # "ended"
      BY <3>3 DEF Handle, ConnState
    <3> QED
      BY <3>2, <3>4
  <2>6. CASE Connect(c)
    <3>1. CASE process.pid # 0
      BY <2>5, <2>6, <3>1 DEF Connect
    <3>2. CASE process.pid = 0
      BY <1>1, <3>2, BoundAssumption DEF Alive, DemandInv, Typed, Pid
    <3> QED
      BY <3>1, <3>2
  <2>7. CASE Await(c)
    BY <2>5, <2>7 DEF Await
  <2>8. CASE RelayFails(c)
    BY <2>8 DEF RelayFails
  <2>9. CASE Relay(c) \/ RelayRefused(c)
    <3>1. conn'[c].pc = "note"
      BY <2>1, <2>9 DEF Relay, RelayRefused, Go, ConnState
    <3> QED
      BY <3>1
  <2>10. conn[c].pc \notin {"read", "ensure", "ssh-add", "added", "note", "write"}
    OBVIOUS
  <2>11. Connect(c) \/ Await(c) \/ RelayFails(c) \/ Relay(c) \/ RelayRefused(c)
    BY <2>3, <2>4, <2>10 DEF Step, Hangup, Read, EnsureKey, SshAdds, SshAddFails, KeyAdded, Note, Write
  <2> QED
    BY <2>6, <2>7, <2>8, <2>9, <2>11
<1>2. DemandInv /\ [Next]_vars => [\A c \in Conn : Turned(c)]_vars
  BY <1>1
<1> QED
  BY <1>2, DemandAlways, PTL DEF Spec, Welcome
=============================================================================
