------------------------------- MODULE SshAgent -------------------------------
(***************************************************************************)
(* The gcr-ssh-agent service, src/gcr/gcr-ssh-agent-service.c, and the      *)
(* ssh-agent process it keeps, src/gcr/gcr-ssh-agent-process.c.  A thread   *)
(* serves each client connection: it relays requests to the ssh-agent,      *)
(* starting it when there is none, and loads a key of ~/.ssh with ssh-add   *)
(* before a signature that needs it.  The main loop learns when the agent   *)
(* is ready and when it has died.  The service remembers in a table of its  *)
(* own which keys the agent has.                                            *)
(***************************************************************************)
EXTENDS Integers, FiniteSets

CONSTANTS
    Conn,          \* the client connections
    Key,           \* the keys requests are about
    Preloaded,     \* those of them with files in ~/.ssh
    MaxRequests,   \* bound: requests on a connection
    MaxStarts,     \* bound: ssh-agents started; another spawn fails
    Slow,          \* whether an agent may take five seconds to be ready
    NoRequest      \* a connection with no request under way

ASSUME PreloadedAssumption == Preloaded \subseteq Key
ASSUME BoundAssumption == MaxStarts \in Nat \ {0} /\ MaxRequests \in Nat

VARIABLES
    process,       \* GcrSshAgentProcess: the pid it has recorded, and ready
    agents,        \* the ssh-agents started, with the keys they hold
    closing,       \* the "closed" signal is about to be emitted
    keys,          \* the keys the service takes to be loaded
    conn,          \* the thread of each connection
    doubted        \* keys an agent refused or gave up, or died with

vars == <<process, agents, closing, keys, conn, doubted>>

Pid == 1..MaxStarts

Request == [op : {"sign", "add", "remove"}, key : Key] \cup
           [op : {"removeAll", "list", "other"}]

\* pc is the step the thread is at; agent the ssh-agent it is connected to;
\* held the keys it has been told of; answer what the agent said; unlocked is
\* FALSE once ssh-add has failed.
NewConn == [pc |-> "connect", agent |-> 0, request |-> NoRequest, left |-> MaxRequests,
            held |-> {}, answer |-> "none", unlocked |-> TRUE]

\* gcr_ssh_agent_service_init and gcr_ssh_agent_process_init.
Init ==
    /\ process = [pid |-> 0, ready |-> FALSE]
    /\ agents = <<>>
    /\ closing = FALSE
    /\ keys = {}
    /\ conn = [c \in Conn |-> NewConn]
    /\ doubted = {}

Started == DOMAIN agents
Alive(p) == p \in Started /\ agents[p].alive

Go(c, k) == conn' = [conn EXCEPT ![c] = k]

-----------------------------------------------------------------------------
(* The ssh-agent process and the main loop.                                *)

\* An ssh-agent that has just been spawned.
Spawned(p) ==
    agents' = [q \in Started \cup {p} |->
                  IF q = p THEN [alive |-> TRUE, listening |-> FALSE, keys |-> {}]
                           ELSE agents[q]]

\* Mutant: the new agent is taken to be as ready as the old one was.
StartReady ==
    LET p == Cardinality(Started) + 1 IN
    /\ p \in Pid
    /\ process' = [process EXCEPT !.pid = p]
    /\ Spawned(p)

\* agent_start_inlock.
Start ==
    LET p == Cardinality(Started) + 1 IN
    /\ p \in Pid
    /\ process' = [pid |-> p, ready |-> FALSE]
    /\ Spawned(p)

\* The ssh-agent opens its socket, and writes that it has.
AgentListens ==
    \E p \in Started :
        /\ Alive(p) /\ ~agents[p].listening
        /\ agents' = [agents EXCEPT ![p].listening = TRUE]
        /\ UNCHANGED <<process, closing, keys, conn, doubted>>

\* on_output_watch: what the agent has written is read.  The loop polls for it
\* along with the exit, so that it is not read after that.
OnOutputWatch ==
    /\ process.pid \in Started /\ agents[process.pid].listening
    /\ ~process.ready
    /\ process' = [process EXCEPT !.ready = TRUE]
    /\ UNCHANGED <<agents, closing, keys, conn, doubted>>

\* The agent exits or is killed.
AgentDies ==
    \E p \in Started :
        /\ Alive(p)
        /\ agents' = [agents EXCEPT ![p].alive = FALSE]
        /\ doubted' = Key
        /\ UNCHANGED <<process, closing, keys, conn>>

\* on_child_watch: the main loop is told of the exit.  The signal is emitted
\* once the lock has been given up.
OnChildWatch ==
    /\ ~closing
    /\ process.pid \in Started /\ ~Alive(process.pid)
    /\ process' = [process EXCEPT !.pid = 0]
    /\ closing' = TRUE
    /\ UNCHANGED <<agents, keys, conn, doubted>>

\* on_closed.
OnClosed ==
    /\ closing
    /\ closing' = FALSE
    /\ keys' = {}
    /\ UNCHANGED <<process, agents, conn, doubted>>

-----------------------------------------------------------------------------
(* A connection's thread: on_run.                                          *)

\* handle_request, from its beginning: a signature is preceded by ensure_key.
Handle(k) ==
    IF k.request = NoRequest THEN [k EXCEPT !.pc = "read"]
    ELSE [k EXCEPT !.pc = IF k.request.op = "sign" THEN "ensure" ELSE "relay",
                   !.unlocked = TRUE]

\* The thread ends and the client's connection with it.
Ended(k) == [k EXCEPT !.pc = "ended", !.request = NoRequest]

\* The end of gcr_ssh_agent_process_connect: the socket, unless not ready.
Attached(k) ==
    IF process.ready /\ Alive(process.pid) /\ agents[process.pid].listening
    THEN Handle([k EXCEPT !.agent = process.pid])
    ELSE Ended(k)

\* Mutant: an agent is started whenever none is ready.
ConnectNotReady(c) ==
    /\ conn[c].pc = "connect"
    /\ UNCHANGED <<closing, keys, doubted>>
    /\ \/ /\ process.ready
          /\ Go(c, Attached(conn[c]))
          /\ UNCHANGED <<process, agents>>
       \/ /\ ~process.ready
          /\ Start
          /\ Go(c, [conn[c] EXCEPT !.pc = "wait"])

\* gcr_ssh_agent_process_connect, with the lock: only the thread that starts
\* the agent waits for it.
Connect(c) ==
    /\ conn[c].pc = "connect"
    /\ UNCHANGED <<closing, keys, doubted>>
    /\ IF process.pid # 0
       THEN /\ Go(c, Attached(conn[c]))
            /\ UNCHANGED <<process, agents>>
       ELSE \/ /\ Start
               /\ Go(c, [conn[c] EXCEPT !.pc = "wait"])
            \/ /\ Cardinality(Started) = MaxStarts
               /\ Go(c, Ended(conn[c]))
               /\ UNCHANGED <<process, agents>>

\* Mutant: the loop ends with a ready agent only.
AwaitReady(c) ==
    /\ conn[c].pc = "wait" /\ process.ready
    /\ Go(c, Attached(conn[c]))
    /\ UNCHANGED <<process, agents, closing, keys, doubted>>

\* The loop of gcr_ssh_agent_process_connect, which gives up the lock, ends
\* with a ready agent, with a dead one, or after five seconds.
Await(c) ==
    /\ conn[c].pc = "wait"
    /\ process.ready \/ process.pid = 0 \/ Slow
    /\ Go(c, Attached(conn[c]))
    /\ UNCHANGED <<process, agents, closing, keys, doubted>>

\* _gcr_ssh_agent_read_packet from the client.
Read(c, r) ==
    /\ conn[c].pc = "read" /\ conn[c].left > 0
    /\ Go(c, Handle([conn[c] EXCEPT !.request = r, !.left = @ - 1]))
    /\ UNCHANGED <<process, agents, closing, keys, doubted>>

\* The client closes the connection.
Hangup(c) ==
    /\ conn[c].pc = "read"
    /\ Go(c, Ended(conn[c]))
    /\ UNCHANGED <<process, agents, closing, keys, doubted>>

\* Mutant: keys are not loaded on demand.
EnsureNothing(c) ==
    /\ conn[c].pc = "ensure"
    /\ Go(c, [conn[c] EXCEPT !.pc = "relay"])
    /\ UNCHANGED <<process, agents, closing, keys, doubted>>

\* ensure_key: nothing to do for a key that is loaded, or not to be had.
EnsureKey(c) ==
    LET key == conn[c].request.key IN
    /\ conn[c].pc = "ensure"
    /\ Go(c, [conn[c] EXCEPT !.pc = IF key \in keys \/ key \notin Preloaded
                                    THEN "relay" ELSE "ssh-add"])
    /\ UNCHANGED <<process, agents, closing, keys, doubted>>

\* ssh-add loads the key into the agent, through the service.
SshAdds(c) ==
    LET k == conn[c] IN
    /\ k.pc = "ssh-add"
    /\ Alive(process.pid)
    /\ agents' = [agents EXCEPT ![process.pid].keys = @ \cup {k.request.key}]
    /\ Go(c, [k EXCEPT !.pc = "added"])
    /\ UNCHANGED <<process, closing, keys, doubted>>

\* ssh-add cannot be run, or is not given the password, or has no agent.
SshAddFails(c) ==
    /\ conn[c].pc = "ssh-add"
    /\ Go(c, [conn[c] EXCEPT !.pc = "relay", !.unlocked = FALSE])
    /\ UNCHANGED <<process, agents, closing, keys, doubted>>

\* add_key, at the end of ensure_key.
KeyAdded(c) ==
    LET k == conn[c] IN
    /\ k.pc = "added"
    /\ keys' = keys \cup {k.request.key}
    /\ Go(c, [k EXCEPT !.pc = "relay"])
    /\ UNCHANGED <<process, agents, closing, doubted>>

\* What the agent does with a request.
AgentKeys(held, r) ==
    CASE r.op = "add" -> held \cup {r.key}
      [] r.op = "remove" -> held \ {r.key}
      [] r.op = "removeAll" -> {}
      [] OTHER -> held

\* relay_request to an agent that answers.
Relay(c) ==
    LET k == conn[c]
        r == k.request
        held == agents[k.agent].keys
        lost == held \ AgentKeys(held, r)
    IN
    /\ k.pc = "relay" /\ Alive(k.agent)
    /\ agents' = [agents EXCEPT ![k.agent].keys = AgentKeys(held, r)]
    /\ Go(c, [k EXCEPT !.pc = "note", !.held = held,
                       !.answer = IF r.op = "sign" /\ r.key \notin held
                                  THEN "failure" ELSE "success"])
    /\ doubted' = doubted \cup lost
    /\ UNCHANGED <<process, closing, keys>>

\* relay_request of an addition that the agent refuses, which the service does
\* not look at.
RelayRefused(c) ==
    LET k == conn[c] IN
    /\ k.pc = "relay" /\ Alive(k.agent)
    /\ k.request.op = "add"
    /\ Go(c, [k EXCEPT !.pc = "note", !.answer = "failure"])
    /\ doubted' = doubted \cup {k.request.key}
    /\ UNCHANGED <<process, agents, closing, keys>>

\* relay_request to an agent that has gone: handle_request is done again with a
\* new agent if the death has been noticed, else the client is dropped.
RelayFails(c) ==
    LET k == conn[c] IN
    /\ k.pc = "relay" /\ ~Alive(k.agent)
    /\ Go(c, IF process.pid # 0 THEN Ended(k) ELSE [k EXCEPT !.pc = "connect"])
    /\ UNCHANGED <<process, agents, closing, keys, doubted>>

\* What op_add_identity, op_remove_identity, op_remove_all_identities and
\* op_request_identities make of the answer.
Noted(known, k) ==
    CASE k.request.op = "add" -> known \cup {k.request.key}
      [] k.request.op = "remove" -> known \ {k.request.key}
      [] k.request.op = "removeAll" -> {}
      [] k.request.op = "list" -> known \cup k.held
      [] OTHER -> known

\* The rest of the operation, with the service's lock.
Note(c) ==
    LET k == conn[c] IN
    /\ k.pc = "note"
    /\ keys' = Noted(keys, k)
    /\ Go(c, [k EXCEPT !.pc = "write"])
    /\ UNCHANGED <<process, agents, closing, doubted>>

\* The reply is written; the client may have gone.
Write(c) ==
    /\ conn[c].pc = "write"
    /\ \E k \in {[conn[c] EXCEPT !.pc = "read"], Ended(conn[c])} :
          Go(c, [k EXCEPT !.request = NoRequest, !.held = {}, !.answer = "none"])
    /\ UNCHANGED <<process, agents, closing, keys, doubted>>

Step(c) ==
    \/ Connect(c) \/ Await(c) \/ EnsureKey(c) \/ SshAdds(c) \/ SshAddFails(c) \/ KeyAdded(c)
    \/ Relay(c) \/ RelayRefused(c) \/ RelayFails(c) \/ Note(c) \/ Write(c)

MainLoop == OnOutputWatch \/ OnChildWatch \/ OnClosed

Next == \/ MainLoop \/ AgentListens \/ AgentDies
        \/ \E c \in Conn : Step(c) \/ Hangup(c) \/ \E r \in Request : Read(c, r)

Spec == Init /\ [][Next]_vars

\* Every thread and the main loop get to run, and an agent that lives says that
\* it is ready.
FairSpec == Spec /\ WF_vars(MainLoop) /\ WF_vars(AgentListens) /\ \A c \in Conn : WF_vars(Step(c))

-----------------------------------------------------------------------------
(* Properties.                                                             *)

TypeOK ==
    /\ process \in [pid : Pid \cup {0}, ready : BOOLEAN]
    /\ Started \subseteq Pid
    /\ \A p \in Started : agents[p] \in [alive : BOOLEAN, listening : BOOLEAN, keys : SUBSET Key]
    /\ closing \in BOOLEAN
    /\ keys \in SUBSET Key /\ doubted \in SUBSET Key
    /\ conn \in [Conn -> [pc : {"connect", "wait", "read", "ensure", "ssh-add", "added", "relay",
                                "note", "write", "ended"},
                          agent : Pid \cup {0}, request : Request \cup {NoRequest},
                          left : 0..MaxRequests, held : SUBSET Key,
                          answer : {"none", "success", "failure"}, unlocked : BOOLEAN]]

\* However connections race to start an agent, and whenever it dies, no second
\* one is started while one runs, and the one that runs is the one on record.
OneAgent == \A p \in Started : Alive(p) => process.pid = p

\* A signature with a key of ~/.ssh is refused to a client only if ssh-add could
\* not load the key, or if some agent refused it, removed it or died: loading
\* on demand is not upset by what other connections do at the same time.
SignServed ==
    \A c \in Conn :
        /\ conn[c].answer = "failure" /\ conn[c].request.op = "sign"
        /\ conn[c].request.key \in Preloaded /\ conn[c].unlocked
        => conn[c].request.key \in doubted

\* A client is turned away only when the agent is not known to be ready, or has
\* died: what the process object takes for ready can be connected to.
Welcome ==
    [][\A c \in Conn :
          conn[c].pc \in {"connect", "wait", "relay"} /\ conn'[c].pc = "ended" =>
              \/ ~process.ready
              \/ ~Alive(process.pid)
              \/ conn[c].pc = "relay" /\ ~Alive(conn[c].agent)]_vars

\* A request is answered or its connection ended, whatever happens to agents:
\* no thread waits for ever for the agent, for another thread or for ssh-add.
RequestsEnd == \A c \in Conn : <>[](conn[c].pc \in {"read", "ended"})
=============================================================================
