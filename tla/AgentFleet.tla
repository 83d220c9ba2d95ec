------------------------------ MODULE AgentFleet ------------------------------
(***************************************************************************)
(* The connection agents of one user and the commands that look for them   *)
(* (pkg/cli/cli.go, conn.go): connect, disconnect and host delete, run as  *)
(* processes that share nothing but the control directory.                 *)
(*                                                                         *)
(* A running agent has a control socket in that directory, named for the   *)
(* local port its forwarder was given.  An agent process looks through the *)
(* directory first and ends at once when another one serves its device.    *)
(* What happens inside an agent is the subject of ConnAgent: here it is up *)
(* or not, and obeys its control socket.                                   *)
(*                                                                         *)
(* Every device has a host of its own, so "the connections of a host" are  *)
(* those of one device.  Ports are given out by the system among those no  *)
(* process listens on.                                                     *)
(***************************************************************************)
EXTENDS Naturals, FiniteSets

CONSTANTS
    Agents,    \* bound: the agent processes, each started by one connect
    Commands,  \* bound: the disconnect and host delete commands
    CVDs,
    Ports,     \* bound: the ports the system gives out
    Kinds,     \* the kinds of Commands
    MayKill    \* whether an agent's process can be killed

AllKinds == {"disconnect",   \* cvdr disconnect, of all or of selected devices
             "args",         \* cvdr disconnect with the device as argument
             "delete"}       \* cvdr host delete
None == "none"

ASSUME AgentFleetAssumption ==
    /\ Kinds \subseteq AllKinds
    /\ MayKill \in BOOLEAN
    /\ None \notin Agents \cup CVDs \cup Ports
    /\ Agents \cap Commands = {}

Procs == Agents \cup Commands

VARIABLES
    pc,       \* where each process is
    target,   \* the device of an agent, or of a command with a host
    kind,     \* the kind of a command
    todo,     \* the sockets a process has yet to contact
    found,    \* statuses: what it learnt of each device
    missed,   \* merr # nil: it could not contact some socket
    port,     \* the port of an agent's forwarder
    up,       \* whether that forwarder listens: bound, ready or connected
    sock,     \* the control directory: the agent that made each socket
    asked,    \* a stop command waits in the agent's control socket
    seen,     \* the agents that had a socket when an agent read the directory
    outcome   \* what a process reported

scanVars  == <<todo, found, missed>>
agentVars == <<port, up, sock, asked>>
vars == <<pc, target, kind, scanVars, agentVars, seen, outcome>>

Unknown == [port |-> None, up |-> FALSE]
Go(p, to) == pc' = [pc EXCEPT ![p] = to]
Report(p, what) == outcome' = [outcome EXCEPT ![p] = what]

Serving(a) == pc[a] \in {"registered", "running"}
Gone(a)    == pc[a] \in {"exited", "killed"}
Owns(a, q) == sock[q] = a

-----------------------------------------------------------------------------
(* listCVDConnections *)

ReadDir(p) ==
    /\ pc[p] = "list"
    /\ todo' = [todo EXCEPT ![p] = {q \in Ports : sock[q] # None}]
    /\ seen' = (IF p \in Agents
                THEN [seen EXCEPT ![p] = {sock[q] : q \in Ports} \ {None}]
                ELSE seen)
    /\ Go(p, "contact")
    /\ UNCHANGED <<target, kind, found, missed, agentVars, outcome>>

(* Mutant of Contact: what is not ready or connected is not kept. *)
ContactUpOnly(p) ==
    /\ pc[p] = "contact"
    /\ \E q \in todo[p] :
        /\ todo' = [todo EXCEPT ![p] = @ \ {q}]
        /\ \/ /\ \E a \in Agents :
                    /\ Owns(a, q) /\ pc[a] = "running"
                    /\ found' = (IF up[a]
                                 THEN [found EXCEPT ![p][target[a]] =
                                           [port |-> q, up |-> TRUE]]
                                 ELSE found)
              /\ UNCHANGED missed
           \/ /\ ~\E a \in Agents : Owns(a, q) /\ Serving(a)
              /\ missed' = [missed EXCEPT ![p] = TRUE]
              /\ UNCHANGED found
    /\ UNCHANGED <<pc, target, kind, agentVars, seen, outcome>>

(* One socket is dialed and asked for its status.  The agent answers once  *)
(* it runs its control loop; nobody answers when the socket is gone or was *)
(* left behind.                                                            *)
Contact(p) ==
    /\ pc[p] = "contact"
    /\ \E q \in todo[p] :
        /\ todo' = [todo EXCEPT ![p] = @ \ {q}]
        /\ \/ /\ \E a \in Agents :
                    /\ Owns(a, q) /\ pc[a] = "running"
                    /\ found' = [found EXCEPT ![p][target[a]] =
                                     [port |-> q, up |-> up[a]]]
              /\ UNCHANGED missed
           \/ /\ ~\E a \in Agents : Owns(a, q) /\ Serving(a)
              /\ missed' = [missed EXCEPT ![p] = TRUE]
              /\ UNCHANGED found
    /\ UNCHANGED <<pc, target, kind, agentVars, seen, outcome>>

-----------------------------------------------------------------------------
(* connect: the agent process *)

StartAgent(a) ==
    /\ pc[a] = "idle"
    /\ \E cvd \in CVDs : target' = [target EXCEPT ![a] = cvd]
    /\ Go(a, "list")
    /\ UNCHANGED <<kind, scanVars, agentVars, seen, outcome>>

(* FindOrConnect: the device is served by another agent, or the forwarder  *)
(* binds its port, or cannot (NewForwarder, createLogger).                 *)
FindOrConnect(a) ==
    /\ pc[a] = "contact"
    /\ todo[a] = {}
    /\ \/ /\ found[a][target[a]] # Unknown
          /\ Report(a, IF found[a][target[a]].up THEN "existing" ELSE "existingDown")
          /\ Go(a, "exited")
          /\ UNCHANGED <<port, up>>
       \/ /\ found[a][target[a]] = Unknown
          /\ \E q \in Ports :
              /\ \A b \in Agents : ~(up[b] /\ port[b] = q)
              /\ port' = [port EXCEPT ![a] = q]
              /\ up' = [up EXCEPT ![a] = TRUE]
          /\ Go(a, "connect")
          /\ UNCHANGED outcome
       \/ /\ found[a][target[a]] = Unknown
          /\ Go(a, "exited")
          /\ Report(a, "error")
          /\ UNCHANGED <<port, up>>
    /\ UNCHANGED <<target, kind, scanVars, sock, asked, seen>>

(* ConnectWebRTC and the wait for the forwarder. *)
Connect(a) ==
    /\ pc[a] = "connect"
    /\ \/ /\ Go(a, "register")
          /\ UNCHANGED <<outcome, up>>
       \/ /\ Go(a, "exited")
          /\ Report(a, "error")
          /\ up' = [up EXCEPT ![a] = FALSE]
    /\ UNCHANGED <<target, kind, scanVars, port, sock, asked, seen>>

(* Mutant of CreateControlSocket: a socket in the way is replaced. *)
ReplaceControlSocket(a) ==
    /\ pc[a] = "register"
    /\ sock' = [sock EXCEPT ![port[a]] = a]
    /\ Go(a, "registered")
    /\ Report(a, IF up[a] THEN "created" ELSE "createdDown")
    /\ UNCHANGED <<target, kind, scanVars, port, up, asked, seen>>

(* createControlSocket fails when the file exists.  The status is printed  *)
(* before the control loop runs.                                           *)
CreateControlSocket(a) ==
    /\ pc[a] = "register"
    /\ \/ /\ sock[port[a]] = None
          /\ sock' = [sock EXCEPT ![port[a]] = a]
          /\ Go(a, "registered")
          /\ Report(a, IF up[a] THEN "created" ELSE "createdDown")
          /\ UNCHANGED up
       \/ /\ sock[port[a]] # None
          /\ Go(a, "exited")
          /\ Report(a, "error")
          /\ up' = [up EXCEPT ![a] = FALSE]
          /\ UNCHANGED sock
    /\ UNCHANGED <<target, kind, scanVars, port, asked, seen>>

Run(a) ==
    /\ pc[a] = "registered"
    /\ Go(a, "running")
    /\ UNCHANGED <<target, kind, scanVars, agentVars, seen, outcome>>

(* Mutant of Stop: only a forwarder that is up is stopped. *)
StopUpOnly(a) ==
    /\ pc[a] = "running"
    /\ asked[a] /\ up[a]
    /\ up' = [up EXCEPT ![a] = FALSE]
    /\ Go(a, "stopping")
    /\ UNCHANGED <<target, kind, scanVars, port, sock, asked, seen, outcome>>

(* Stop closes the forwarder's listener first. *)
Stop(a) ==
    /\ pc[a] = "running"
    /\ asked[a]
    /\ up' = [up EXCEPT ![a] = FALSE]
    /\ Go(a, "stopping")
    /\ UNCHANGED <<target, kind, scanVars, port, sock, asked, seen, outcome>>

(* The control socket is closed, which unlinks it and ends the process. *)
Exit(a) ==
    /\ pc[a] = "stopping"
    /\ sock' = [sock EXCEPT ![port[a]] = None]
    /\ Go(a, "exited")
    /\ UNCHANGED <<target, kind, scanVars, port, up, asked, seen, outcome>>

(* The connection to the device is lost: forwarding stops, the agent stays, *)
(* or goes on to its control socket when it has none yet.                   *)
Lose(a) ==
    /\ pc[a] \in {"connect", "register", "registered", "running"}
    /\ up[a]
    /\ up' = [up EXCEPT ![a] = FALSE]
    /\ UNCHANGED <<pc, target, kind, scanVars, port, sock, asked, seen, outcome>>

(* The process is killed: its listener goes, its socket file stays. *)
Kill(a) ==
    /\ MayKill
    /\ pc[a] # "idle" /\ ~Gone(a)
    /\ up' = [up EXCEPT ![a] = FALSE]
    /\ Go(a, "killed")
    /\ UNCHANGED <<target, kind, scanVars, port, sock, asked, seen, outcome>>

-----------------------------------------------------------------------------
(* disconnect and host delete *)

StartCommand(c) ==
    /\ pc[c] = "idle"
    /\ \E k \in Kinds, cvd \in CVDs \cup {None} :
        /\ (cvd = None) => (k = "disconnect")
        /\ kind' = [kind EXCEPT ![c] = k]
        /\ target' = [target EXCEPT ![c] = cvd]
    /\ Go(c, "list")
    /\ UNCHANGED <<scanVars, agentVars, seen, outcome>>

(* Mutant of Connected: devices without a connection are not left out. *)
ConnectedOrNot(c) == {cvd \in CVDs : target[c] \in {cvd, None}}

(* The devices whose connections were found. *)
Connected(c) ==
    {cvd \in CVDs : found[c][cvd] # Unknown /\ target[c] \in {cvd, None}}

(* What is to be stopped becomes todo, by port.  Without a host the user    *)
(* may be asked to choose.  A filter by argument panics on its first match  *)
(* (filterMap writes to a nil map), and deleting a host stops nothing when  *)
(* some socket did not answer.                                              *)
Choose(c) ==
    /\ pc[c] = "contact"
    /\ todo[c] = {}
    /\ \/ /\ kind[c] = "disconnect"
          /\ Connected(c) = {}
          /\ Go(c, "done")
          /\ Report(c, "error")
          /\ UNCHANGED todo
       \/ /\ kind[c] = "disconnect"
          /\ \E chosen \in SUBSET Connected(c) \ {{}} :
                todo' = [todo EXCEPT ![c] = {found[c][cvd].port : cvd \in chosen}]
          /\ Go(c, "stop")
          /\ UNCHANGED outcome
       \/ /\ kind[c] = "args"
          /\ Go(c, "done")
          /\ Report(c, IF Connected(c) # {} THEN "panic" ELSE "error")
          /\ UNCHANGED todo
       \/ /\ kind[c] = "delete"
          /\ IF missed[c]
             THEN Go(c, "done") /\ Report(c, "deleted") /\ UNCHANGED todo
             ELSE /\ todo' = [todo EXCEPT ![c] =
                                  {found[c][cvd].port : cvd \in Connected(c)}]
                  /\ Go(c, "stop")
                  /\ UNCHANGED outcome
    /\ UNCHANGED <<target, kind, found, missed, agentVars, seen>>

(* DisconnectCVD: the socket of that name is dialed and a stop written.    *)
(* The error of a socket that is gone or was left behind is lost by        *)
(* disconnect, and ends the disconnecting of host delete.                  *)
DisconnectCVD(c) ==
    /\ pc[c] = "stop"
    /\ \E q \in todo[c] :
        \/ \E a \in Agents :
              /\ Owns(a, q) /\ ~Gone(a)
              /\ asked' = [asked EXCEPT ![a] = TRUE]
              /\ todo' = [todo EXCEPT ![c] = @ \ {q}]
        \/ /\ ~\E a \in Agents : Owns(a, q) /\ ~Gone(a)
           /\ todo' = [todo EXCEPT ![c] = IF kind[c] = "delete" THEN {} ELSE @ \ {q}]
           /\ UNCHANGED asked
    /\ UNCHANGED <<pc, target, kind, found, missed, port, up, sock, seen, outcome>>

(* disconnect returns merr; host delete goes on to delete the host. *)
Finish(c) ==
    /\ pc[c] = "stop"
    /\ todo[c] = {}
    /\ Go(c, "done")
    /\ Report(c, IF kind[c] = "delete" THEN "deleted"
                 ELSE IF missed[c] THEN "error" ELSE "ok")
    /\ UNCHANGED <<target, kind, scanVars, agentVars, seen>>

-----------------------------------------------------------------------------
Init ==
    /\ pc = [p \in Procs |-> "idle"]
    /\ target = [p \in Procs |-> None]
    /\ kind = [c \in Commands |-> None]
    /\ todo = [p \in Procs |-> {}]
    /\ found = [p \in Procs |-> [cvd \in CVDs |-> Unknown]]
    /\ missed = [p \in Procs |-> FALSE]
    /\ port = [a \in Agents |-> None]
    /\ up = [a \in Agents |-> FALSE]
    /\ sock = [q \in Ports |-> None]
    /\ asked = [a \in Agents |-> FALSE]
    /\ seen = [a \in Agents |-> {}]
    /\ outcome = [p \in Procs |-> None]

Scan(p) == ReadDir(p) \/ Contact(p)
Serve(a) == FindOrConnect(a) \/ Connect(a) \/ CreateControlSocket(a) \/ Run(a)
            \/ Stop(a) \/ Exit(a)
Command(c) == Choose(c) \/ DisconnectCVD(c) \/ Finish(c)

Next ==
    \/ \E p \in Procs : Scan(p)
    \/ \E a \in Agents : StartAgent(a) \/ Serve(a) \/ Lose(a) \/ Kill(a)
    \/ \E c \in Commands : StartCommand(c) \/ Command(c)

Spec == Init /\ [][Next]_vars

(* Processes that can step do.  Nobody has to start one or lose a device,  *)
(* and connecting to a device may take forever.                            *)
Fairness ==
    /\ \A p \in Procs : WF_vars(Scan(p))
    /\ \A a \in Agents :
        /\ WF_vars(FindOrConnect(a)) /\ WF_vars(CreateControlSocket(a))
        /\ WF_vars(Run(a)) /\ WF_vars(Stop(a)) /\ WF_vars(Exit(a))
    /\ \A c \in Commands : WF_vars(Command(c))

FairSpec == Spec /\ Fairness

-----------------------------------------------------------------------------
(* Properties *)

Locations ==
    {"idle", "list", "contact", "connect", "register", "registered", "running",
     "stopping", "exited", "killed", "stop", "done"}
Outcomes ==
    {None, "existing", "existingDown", "created", "createdDown", "error", "ok",
     "panic", "deleted"}

Statuses == {Unknown} \cup [port : Ports, up : BOOLEAN]

(* Every variable has its type: the type invariant of the module. *)
TypeOK ==
    /\ pc \in [Procs -> Locations]
    /\ target \in [Procs -> CVDs \cup {None}]
    /\ kind \in [Commands -> Kinds \cup {None}]
    /\ todo \in [Procs -> SUBSET Ports]
    /\ found \in [Procs -> [CVDs -> Statuses]]
    /\ missed \in [Procs -> BOOLEAN]
    /\ port \in [Agents -> Ports \cup {None}]
    /\ up \in [Agents -> BOOLEAN]
    /\ sock \in [Ports -> Agents \cup {None}]
    /\ asked \in [Agents -> BOOLEAN]
    /\ seen \in [Agents -> SUBSET Agents]
    /\ outcome \in [Procs -> Outcomes]

(* Every agent that serves its control socket can be listed and stopped:    *)
(* the socket named for its port is its own, although ports are reused      *)
(* while a failed agent still has its socket.  And few are left behind, as  *)
(* the comment in NewConnController says: only by an agent that was killed. *)
Reachable ==
    /\ \A a \in Agents : Serving(a) => sock[port[a]] = a
    /\ \A a \in Agents, q \in Ports : Owns(a, q) => pc[a] # "exited"

(* The comment in FindOrConnect: two agents for a device come from a race   *)
(* only.  Neither had its socket in place when the other read the directory.*)
DuplicatesRaced ==
    \A a, b \in Agents :
        a # b /\ Serving(a) /\ Serving(b) /\ target[a] = target[b] =>
            a \notin seen[b] /\ b \notin seen[a]

(* What the rest of the system sees of an agent. *)
Stage(a) ==
    IF pc[a] \in {"idle", "list", "contact"} THEN "looking"
    ELSE IF pc[a] = "connect" THEN "connecting"
    ELSE IF pc[a] = "register" THEN "registering"
    ELSE IF Serving(a) THEN "serving"
    ELSE IF pc[a] = "stopping" THEN "stopping" ELSE "gone"

Forwarding(a) ==
    IF Stage(a) = "looking" THEN "init"
    ELSE IF ~up[a] THEN "down"
    ELSE IF Stage(a) = "connecting" THEN "init" ELSE "up"

HasSocket(a) == \E q \in Ports : Owns(a, q)

Life(a) == INSTANCE AgentLife
           WITH stage <- Stage(a), forwarding <- Forwarding(a), socket <- HasSocket(a)

(* Every agent of the fleet leads the life of one agent (AgentLife), as the *)
(* inside of an agent does (ConnAgent): the two agree on what the others    *)
(* see of it, whatever the others do to its ports and its control socket.   *)
LivesAsAgreed == \A a \in Agents : Life(a)!Spec

(* An agent that was told to stop is gone in the end, even when it was told *)
(* before its control loop ran or by two commands.                          *)
ToldStops == \A a \in Agents : asked[a] ~> Gone(a)

=============================================================================
