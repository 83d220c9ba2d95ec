------------------------------ MODULE ConnAgent ------------------------------
(***************************************************************************)
(* One connection agent: the process that "cvdr connect" leaves behind for *)
(* a device (pkg/cli/conn.go).                                             *)
(*                                                                         *)
(* "main" builds a ConnController and runs its control loop.  Its          *)
(* Forwarder copies bytes between one TCP connection at a time ("loop",    *)
(* the acceptLoop) and the ADB data channel.  pion runs the handlers of    *)
(* the data channel ("dcOpen", "dcClose") and the observer's callbacks     *)
(* ("OnError", "OnFailure", "OnClose"), each in a goroutine of its own.    *)
(*                                                                         *)
(* Everything done with stateMtx held is one step, as nothing blocks       *)
(* there.  The bytes themselves are left out.                              *)
(*                                                                         *)
(* AgentLife is what the rest of the system sees of an agent.  Agents of   *)
(* the fleet (AgentFleet) have names of their own for the same things, so  *)
(* that one module can hold the theorems about both.                       *)
(***************************************************************************)
EXTENDS Naturals, FiniteSets

CONSTANT MaxConns    \* bound: TCP connections the ADB server makes

ASSUME ConnAgentAssumption == MaxConns \in Nat

Observers  == {"OnError", "OnFailure", "OnClose"}
Goroutines == {"main", "loop", "dcOpen", "dcClose"} \cup Observers
Final      == {"stopped", "failed"}
NoConn     == 0

VARIABLES
    at,           \* where each goroutine is
    state,        \* Forwarder.state
    conn,         \* Forwarder.conn, or NoConn
    accepted,     \* the connection the loop accepted last
    open,         \* the accepted connections the agent has not closed
    listener,     \* the TCP listener is open
    readyCloses,  \* how often readyCh was closed
    control,      \* the control socket: "none", "open" or "closed"
    dc,           \* the data channel: "connecting", "open" or "closed"
    peer          \* the peer connection: "new", "up", "dead" (it never came
                  \* up) or "lost" (it did and is over)

forwarder == <<state, conn, accepted, open, listener>>
agentState == <<at, forwarder, readyCloses, control, dc, peer>>

GoOn(g, to) == at' = [at EXCEPT ![g] = to]

(* The process runs: once main has returned no goroutine steps any more. *)
Alive == at["main"] \notin {"exited", "error"}

-----------------------------------------------------------------------------
(* Forwarder *)

(* StopForwarding, called by g, which goes on at "to".  Closing an open    *)
(* data channel makes pion run its OnClose handler.                        *)
StopForwarding(g, to, final) ==
    \/ /\ state = final
       /\ GoOn(g, to)
       /\ UNCHANGED <<forwarder, dc>>
    \/ /\ state # final
       /\ at' = [at EXCEPT ![g] = to,
                           !["dcClose"] = IF dc = "open" THEN "stop" ELSE @]
       /\ state' = final
       /\ dc' = "closed"
       /\ listener' = FALSE
       /\ open' = open \ {conn}
       /\ UNCHANGED <<conn, accepted>>

(* Mutant of SignalReady: readyCh is closed without looking. *)
SignalReadyAgain(g) ==
    /\ GoOn(g, "done")
    /\ readyCloses' = readyCloses + 1

(* readyCh is closed by whoever sets readyChClosed. *)
SignalReady(g) ==
    /\ GoOn(g, "done")
    /\ readyCloses' = (IF readyCloses = 0 THEN 1 ELSE readyCloses)

(* Mutant of OnOpen: the state is set without comparing. *)
OnOpenRegardless ==
    \/ /\ at["dcOpen"] = "swap"
       /\ state' = "ready"
       /\ GoOn("dcOpen", "launch")
       /\ UNCHANGED readyCloses
    \/ /\ at["dcOpen"] = "signal"
       /\ SignalReady("dcOpen")
       /\ UNCHANGED state

(* The data channel's OnOpen handler; the loop is started in between. *)
OnOpen ==
    \/ /\ at["dcOpen"] = "swap"
       /\ IF state = "initializing"
          THEN state' = "ready" /\ GoOn("dcOpen", "launch")
          ELSE GoOn("dcOpen", "done") /\ UNCHANGED state
       /\ UNCHANGED readyCloses
    \/ /\ at["dcOpen"] = "signal"
       /\ SignalReady("dcOpen")
       /\ UNCHANGED state

DataChannelOnOpen ==
    /\ OnOpen
    /\ UNCHANGED <<conn, accepted, open, listener, control, dc, peer>>

LaunchLoop ==
    /\ at["dcOpen"] = "launch"
    /\ at' = [at EXCEPT !["dcOpen"] = "signal", !["loop"] = "check"]
    /\ UNCHANGED <<forwarder, readyCloses, control, dc, peer>>

(* Mutant of DataChannelOnClose: readyCh is left to the OnOpen handler. *)
DataChannelOnCloseSilently ==
    /\ at["dcClose"] = "stop"
    /\ StopForwarding("dcClose", "done", "failed")
    /\ UNCHANGED <<readyCloses, control, peer>>

(* The data channel's OnClose handler. *)
DataChannelOnClose ==
    \/ /\ at["dcClose"] = "stop"
       /\ StopForwarding("dcClose", "signal", "failed")
       /\ UNCHANGED <<readyCloses, control, peer>>
    \/ /\ at["dcClose"] = "signal"
       /\ SignalReady("dcClose")
       /\ UNCHANGED <<forwarder, control, dc, peer>>

-----------------------------------------------------------------------------
(* acceptLoop *)

LoopCheck ==
    /\ at["loop"] = "check"
    /\ GoOn("loop", IF state = "ready" THEN "accept" ELSE "done")
    /\ UNCHANGED <<forwarder, readyCloses, control, dc, peer>>

(* Accept returns a connection. *)
Accept ==
    /\ at["loop"] = "accept"
    /\ listener
    /\ accepted < MaxConns
    /\ accepted' = accepted + 1
    /\ open' = open \cup {accepted + 1}
    /\ GoOn("loop", "install")
    /\ UNCHANGED <<state, conn, listener, readyCloses, control, dc, peer>>

(* Accept returns an error: the listener was closed, or the system refuses  *)
(* ("dead"); the loop ends either way.                                     *)
AcceptFails ==
    /\ at["loop"] = "accept"
    /\ GoOn("loop", IF listener THEN "dead" ELSE "done")
    /\ listener' = FALSE
    /\ UNCHANGED <<state, conn, accepted, open, readyCloses, control, dc, peer>>

(* setConnection; the connection is closed again when forwarding stopped. *)
SetConnection ==
    /\ at["loop"] = "install"
    /\ \/ /\ state = "ready"
          /\ conn' = accepted
          /\ state' = "connected"
          /\ GoOn("loop", "serve")
          /\ UNCHANGED <<open, listener>>
       \/ /\ state # "ready"
          /\ open' = open \ {accepted}
          /\ listener' = FALSE
          /\ GoOn("loop", "done")
          /\ UNCHANGED <<conn, state>>
    /\ UNCHANGED <<accepted, readyCloses, control, dc, peer>>

(* Mutant of ServeEnds: without the deferred Close. *)
ServeEndsUnclosed ==
    /\ at["loop"] = "serve"
    /\ GoOn("loop", "resume")
    /\ UNCHANGED <<forwarder, readyCloses, control, dc, peer>>

(* recvLoop ends: the other end hung up, the connection was closed, or the *)
(* data channel takes no more.                                             *)
ServeEnds ==
    /\ at["loop"] = "serve"
    /\ open' = open \ {conn}
    /\ GoOn("loop", "resume")
    /\ UNCHANGED <<state, conn, accepted, listener, readyCloses, control, dc, peer>>

(* Mutant of Resume: the loop goes on in whatever state it finds. *)
ResumeRegardless ==
    /\ at["loop"] = "resume"
    /\ state' = "ready"
    /\ GoOn("loop", "accept")
    /\ UNCHANGED <<conn, accepted, open, listener, readyCloses, control, dc, peer>>

(* The loop accepts the next connection, unless forwarding stopped. *)
Resume ==
    /\ at["loop"] = "resume"
    /\ \/ /\ state = "connected"
          /\ state' = "ready"
          /\ GoOn("loop", "accept")
          /\ UNCHANGED listener
       \/ /\ state # "connected"
          /\ listener' = FALSE
          /\ GoOn("loop", "done")
          /\ UNCHANGED state
    /\ UNCHANGED <<conn, accepted, open, readyCloses, control, dc, peer>>

-----------------------------------------------------------------------------
(* ConnController *)

(* ConnectWebRTC returns: an error when the peer connection did not come    *)
(* up, or was lost before the callback that tells it so won against the one *)
(* for the loss, or when there was no telling the host about it.            *)
ConnectWebRTC ==
    /\ at["main"] = "connect"
    /\ \/ peer \in {"up", "lost"} /\ GoOn("main", "await")
       \/ peer \in {"new", "dead", "lost"} /\ GoOn("main", "error")
    /\ UNCHANGED <<forwarder, readyCloses, control, dc, peer>>

(* The receive from readyCh. *)
AwaitReady ==
    /\ at["main"] = "await"
    /\ readyCloses > 0
    /\ GoOn("main", "socket")
    /\ UNCHANGED <<forwarder, readyCloses, control, dc, peer>>

(* createControlSocket.  When it fails the forwarder is stopped and the    *)
(* peer connection closed, and the process ends with an error.             *)
MakeControlSocket ==
    /\ at["main"] = "socket"
    /\ \/ /\ control' = "open"
          /\ GoOn("main", "run")
          /\ UNCHANGED <<forwarder, dc, peer>>
       \/ /\ StopForwarding("main", "error", "failed")
          /\ peer' = "lost"
          /\ UNCHANGED control
    /\ UNCHANGED readyCloses

(* Run takes a stop command. *)
TakeCommand ==
    /\ at["main"] = "run"
    /\ control = "open"
    /\ GoOn("main", "command")
    /\ UNCHANGED <<forwarder, readyCloses, control, dc, peer>>

(* Stop: first the forwarder, then the control socket. *)
StopController ==
    \/ /\ at["main"] = "command"
       /\ StopForwarding("main", "close", "stopped")
       /\ UNCHANGED <<readyCloses, control, peer>>
    \/ /\ at["main"] = "close"
       /\ control' = "closed"
       /\ GoOn("main", "run")
       /\ UNCHANGED <<forwarder, readyCloses, dc, peer>>

(* Run finds the control socket closed; the process ends. *)
RunEnds ==
    /\ at["main"] = "run"
    /\ control = "closed"
    /\ GoOn("main", "exited")
    /\ UNCHANGED <<forwarder, readyCloses, control, dc, peer>>

(* The observer's callbacks. *)
Observe(cb) ==
    /\ at[cb] = "stop"
    /\ StopForwarding(cb, "done", IF cb = "OnClose" THEN "stopped" ELSE "failed")
    /\ UNCHANGED <<readyCloses, control, peer>>

-----------------------------------------------------------------------------
(* The environment: pion and the signaling machinery *)

PeerUp ==
    /\ peer = "new"
    /\ peer' = "up"
    /\ UNCHANGED <<at, forwarder, readyCloses, control, dc>>

(* The peer connection fails or closes, or recvLoop returns an error. *)
PeerTells(cb) ==
    /\ at[cb] = "off"
    /\ \/ cb = "OnError" /\ UNCHANGED peer
       \/ cb = "OnFailure" /\ peer = "new" /\ peer' = "dead"
       \/ cb # "OnError" /\ peer \in {"up", "lost"} /\ peer' = "lost"
    /\ GoOn(cb, "stop")
    /\ UNCHANGED <<forwarder, readyCloses, control, dc>>

(* The data channel opens over a peer connection that is up, and is closed *)
(* by the device or with its peer connection.                              *)
DataChannelOpens ==
    /\ peer = "up"
    /\ dc = "connecting"
    /\ dc' = "open"
    /\ GoOn("dcOpen", "swap")
    /\ UNCHANGED <<forwarder, readyCloses, control, peer>>

DataChannelCloses ==
    /\ dc = "open"
    /\ dc' = "closed"
    /\ GoOn("dcClose", "stop")
    /\ UNCHANGED <<forwarder, readyCloses, control, peer>>

-----------------------------------------------------------------------------
AgentInit ==
    /\ at = [g \in Goroutines |-> IF g = "main" THEN "connect" ELSE "off"]
    /\ state = "initializing"
    /\ conn = NoConn
    /\ accepted = 0
    /\ open = {}
    /\ listener = TRUE
    /\ readyCloses = 0
    /\ control = "none"
    /\ dc = "connecting"
    /\ peer = "new"

Loop == LoopCheck \/ AcceptFails \/ SetConnection \/ Resume

AgentNext ==
    /\ Alive
    /\ \/ DataChannelOnOpen \/ LaunchLoop \/ DataChannelOnClose
       \/ Loop \/ Accept \/ ServeEnds
       \/ ConnectWebRTC \/ AwaitReady \/ MakeControlSocket
       \/ TakeCommand \/ StopController \/ RunEnds
       \/ \E cb \in Observers : Observe(cb) \/ PeerTells(cb)
       \/ PeerUp \/ DataChannelOpens \/ DataChannelCloses

AgentSpec == AgentInit /\ [][AgentNext]_agentState

(***************************************************************************)
(* Fairness: every goroutine that can step does.  A read from a closed     *)
(* connection and an Accept on a closed listener return; neither the ADB   *)
(* server nor the device has to connect, hang up or command anything.      *)
(***************************************************************************)
AgentFairness ==
    /\ WF_agentState(Alive /\ DataChannelOnOpen) /\ WF_agentState(Alive /\ LaunchLoop)
    /\ WF_agentState(Alive /\ DataChannelOnClose)
    /\ WF_agentState(Alive /\ (LoopCheck \/ SetConnection \/ Resume))
    /\ WF_agentState(Alive /\ ~listener /\ AcceptFails)
    /\ WF_agentState(Alive /\ conn \notin open /\ ServeEnds)
    /\ WF_agentState(AwaitReady) /\ WF_agentState(MakeControlSocket)
    /\ WF_agentState(StopController) /\ WF_agentState(RunEnds)
    /\ \A cb \in Observers : WF_agentState(Alive /\ Observe(cb))

FairAgentSpec == AgentSpec /\ AgentFairness

-----------------------------------------------------------------------------
(* Properties *)

Places ==
    {"connect", "await", "socket", "run", "command", "close", "exited", "error",
     "off", "swap", "launch", "signal", "stop", "done",
     "check", "accept", "install", "serve", "resume", "dead"}

(* Every variable has its type; StateAsStr, which panics on other values,   *)
(* has a name for every state, and readyCh, which two handlers close and    *)
(* which panics at a second close, is closed at most once.                  *)
AgentTypeOK ==
    /\ at \in [Goroutines -> Places]
    /\ state \in {"initializing", "ready", "connected"} \cup Final
    /\ conn \in Nat /\ accepted \in Nat
    /\ open \subseteq Nat \ {NoConn}
    /\ listener \in BOOLEAN
    /\ readyCloses \in 0 .. 1
    /\ control \in {"none", "open", "closed"}
    /\ dc \in {"connecting", "open", "closed"}
    /\ peer \in {"new", "up", "dead", "lost"}

(* What the agent reports as ready or connected is listening, unless the    *)
(* system refused to accept, and then for good.                             *)
ReadyServes ==
    state \in {"ready", "connected"} => listener \/ at["loop"] = "dead"

(* The forwarder holds what its state says.  Whoever stopped it, at         *)
(* whatever point of the loop, the data channel and the listener are closed *)
(* and so is every connection the loop is not about to close itself; one    *)
(* that is ready or connected listens.                                      *)
Released ==
    /\ state \in Final =>
          dc = "closed" /\ ~listener /\ (at["loop"] # "install" => open = {})
    /\ at["loop"] \in {"done", "dead"} => open = {}
    /\ ReadyServes

(* One connection is served at a time, and it is the one Send writes to.    *)
OneServed ==
    /\ state = "connected" => at["loop"] \in {"serve", "resume"} /\ conn = accepted
    /\ \A c \in open : c = accepted

(* A forwarder that was stopped or failed never forwards again: the         *)
(* handlers may overwrite one final state with the other, and no more.      *)
FinalStays == [][(state \in Final) => (state' \in Final)]_agentState

(* What the rest of the system sees of the agent. *)
stage ==
    IF at["main"] \in {"connect", "await"} THEN "connecting"
    ELSE IF at["main"] = "socket" THEN "registering"
    ELSE IF at["main"] \in {"run", "command"} /\ control = "open" THEN "serving"
    ELSE IF at["main"] = "close" THEN "stopping" ELSE "gone"

forwarding ==
    IF ~Alive \/ state \in Final THEN "down"
    ELSE IF state = "initializing" THEN "init" ELSE "up"

Contract == INSTANCE AgentLife
         WITH MayKill <- FALSE, stage <- stage, forwarding <- forwarding,
              socket <- control = "open"

(* The agent leads the life the others count on (AgentLife): whatever stops *)
(* the forwarder, and wherever the loop and the handlers are, it does not   *)
(* come back; the control socket, and with it an answer, is there only      *)
(* after the forwarder has been up or has failed; and the socket goes last. *)
KeepsContract == Contract!Spec

(* What an agent has begun it finishes, whatever interrupts it.  Stop's     *)
(* comment: closing the control socket makes the loop finish, so an agent   *)
(* that takes a stop command exits.  When forwarding stops for any reason,  *)
(* the accept loop ends or the process does.  And whatever the order of its *)
(* handlers, a data channel that opened lets NewConnController go on.       *)
AgentEnds ==
    /\ at["main"] = "command" ~> at["main"] = "exited"
    /\ state \in Final ~> (at["loop"] \in {"off", "done", "dead"} \/ ~Alive)
    /\ dc = "open" ~> at["main"] # "await"

(* The comment of ConnectDevice: it waits for the agent "to report the      *)
(* connection was successfully created or an error occurred".  An agent     *)
(* whose peer connection is over reports one or the other.                  *)
LostAnswers == at["main"] = "await" /\ peer = "lost" ~> at["main"] # "await"

=============================================================================
