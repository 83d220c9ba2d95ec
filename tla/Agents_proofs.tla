------------------------------ MODULE Agents_proofs ------------------------------
(***************************************************************************)
(* Theorems about the connection agents: about AgentFleet, for any agents, *)
(* commands, devices and ports, and about ConnAgent, the inside of one of   *)
(* these agents, for any number of ADB connections.                        *)
(***************************************************************************)
EXTENDS AgentFleet, ConnAgent, TLAPS

-----------------------------------------------------------------------------
(* The fleet: types *)

LEMMA StatusType ==
    /\ Unknown \in Statuses
    /\ \A q \in Ports, u \in BOOLEAN : [port |-> q, up |-> u] \in Statuses
BY DEF Unknown, Statuses

LEMMA ScanTypes ==
    ASSUME TypeOK, NEW p \in Procs, Scan(p)
    PROVE  TypeOK'
<1> USE DEF TypeOK, agentVars, scanVars, Go, Locations
<1>1. CASE ReadDir(p)
  <2>1. todo' \in [Procs -> SUBSET Ports]
    BY <1>1 DEF ReadDir
  <2>2. seen' \in [Agents -> SUBSET Agents]
    BY <1>1 DEF ReadDir
  <2>3. pc' \in [Procs -> Locations]
    BY <1>1 DEF ReadDir
  <2>4. QED
    BY <1>1, <2>1, <2>2, <2>3 DEF ReadDir
<1>2. CASE Contact(p)
  <2>1. todo' \in [Procs -> SUBSET Ports]
    BY <1>2 DEF Contact
  <2>2. missed' \in [Procs -> BOOLEAN]
    BY <1>2 DEF Contact
  <2>3. found' \in [Procs -> [CVDs -> Statuses]]
    <3>1. found \in [Procs -> [CVDs -> Statuses]]
      OBVIOUS
    <3>2. CASE UNCHANGED found
      BY <3>1, <3>2
    <3>3. CASE ~UNCHANGED found
      <4>1. PICK q \in todo[p], a \in Agents :
              found' = [found EXCEPT ![p][target[a]] = [port |-> q, up |-> up[a]]]
        BY <1>2, <3>3 DEF Contact
      <4>2. [port |-> q, up |-> up[a]] \in Statuses
        BY StatusType
      <4>3. [found[p] EXCEPT ![target[a]] = [port |-> q, up |-> up[a]]]
              \in [CVDs -> Statuses]
        BY <3>1, <4>2
      <4>4. QED
        BY <3>1, <4>1, <4>3
    <3>4. QED
      BY <3>2, <3>3
  <2>4. QED
    BY <1>2, <2>1, <2>2, <2>3 DEF Contact
<1>3. QED
  BY <1>1, <1>2 DEF Scan

LEMMA AgentTypes ==
    ASSUME TypeOK, NEW a \in Agents,
           StartAgent(a) \/ Serve(a) \/ Lose(a) \/ Kill(a)
    PROVE  TypeOK'
<1> USE DEF TypeOK, agentVars, scanVars, Go, Report, Locations, Outcomes, Procs
<1>1. CASE StartAgent(a)
  BY <1>1 DEF StartAgent
<1>2. CASE FindOrConnect(a)
  <2>1. outcome' \in [Procs -> Outcomes]
    BY <1>2 DEF FindOrConnect
  <2>2. pc' \in [Procs -> Locations]
    <3>1. \E to \in {"exited", "connect"} : Go(a, to)
      BY <1>2 DEF FindOrConnect
    <3>2. QED
      BY <3>1
  <2>3. port' \in [Agents -> Ports \cup {None}] /\ up' \in [Agents -> BOOLEAN]
    <3>1. CASE UNCHANGED <<port, up>>
      BY <3>1
    <3>2. CASE \E q \in Ports : port' = [port EXCEPT ![a] = q] /\ up' = [up EXCEPT ![a] = TRUE]
      BY <3>2
    <3>3. QED
      BY <1>2, <3>1, <3>2 DEF FindOrConnect
  <2>4. QED
    BY <1>2, <2>1, <2>2, <2>3 DEF FindOrConnect
<1>3. CASE Connect(a)
  <2>1. up' \in [Agents -> BOOLEAN]
    BY <1>3 DEF Connect
  <2>2. pc' \in [Procs -> Locations]
    <3>1. \E to \in {"register", "exited"} : Go(a, to)
      BY <1>3 DEF Connect
    <3>2. QED
      BY <3>1
  <2>3. outcome' \in [Procs -> Outcomes]
    BY <1>3 DEF Connect
  <2>4. QED
    BY <1>3, <2>1, <2>2, <2>3 DEF Connect
<1>4. CASE CreateControlSocket(a)
  <2>1. outcome' \in [Procs -> Outcomes]
    BY <1>4 DEF CreateControlSocket
  <2>2. pc' \in [Procs -> Locations]
    <3>1. \E to \in {"registered", "exited"} : pc' = [pc EXCEPT ![a] = to]
      BY <1>4 DEF CreateControlSocket
    <3>2. QED
      BY <3>1 DEF Locations
  <2>3. sock' \in [Ports -> Agents \cup {None}]
    <3>1. sock' = sock \/ sock' = [sock EXCEPT ![port[a]] = a]
      BY <1>4 DEF CreateControlSocket
    <3>2. [sock EXCEPT ![port[a]] = a] \in [Ports -> Agents \cup {None}]
      OBVIOUS
    <3>3. QED
      BY <3>1, <3>2
  <2>4. up' \in [Agents -> BOOLEAN]
    BY <1>4 DEF CreateControlSocket
  <2>5. QED
    BY <1>4, <2>1, <2>2, <2>3, <2>4 DEF CreateControlSocket
<1>5. CASE Run(a) \/ Stop(a)
  <2>1. CASE Run(a)
    BY <2>1 DEF Run
  <2>2. CASE Stop(a)
    BY <2>2 DEF Stop
  <2>3. QED
    BY <1>5, <2>1, <2>2
<1>6. CASE Exit(a)
  BY <1>6 DEF Exit
<1>7. CASE Lose(a) \/ Kill(a)
  BY <1>7 DEF Lose, Kill
<1>8. QED
  BY <1>1, <1>2, <1>3, <1>4, <1>5, <1>6, <1>7 DEF Serve

LEMMA CommandTypes ==
    ASSUME TypeOK, NEW c \in Commands, StartCommand(c) \/ Command(c)
    PROVE  TypeOK'
<1> USE DEF TypeOK, agentVars, scanVars, Go, Report, Locations, Outcomes, Procs
<1>1. CASE StartCommand(c)
  BY <1>1 DEF StartCommand
<1>2. CASE Choose(c)
  <2>1. \A cvd \in Connected(c) : found[c][cvd].port \in Ports
    BY DEF Connected, Statuses
  <2>2. todo' \in [Procs -> SUBSET Ports]
    <3>1. \A S \in SUBSET Connected(c) : {found[c][cvd].port : cvd \in S} \in SUBSET Ports
      BY <2>1
    <3>2. \/ UNCHANGED todo
          \/ \E S \in SUBSET Connected(c) :
                todo' = [todo EXCEPT ![c] = {found[c][cvd].port : cvd \in S}]
      BY <1>2 DEF Choose
    <3>3. CASE UNCHANGED todo
      BY <3>3
    <3>4. CASE ~UNCHANGED todo
      <4>1. PICK S \in SUBSET Connected(c) :
              todo' = [todo EXCEPT ![c] = {found[c][cvd].port : cvd \in S}]
        BY <3>2, <3>4
      <4>2. {found[c][cvd].port : cvd \in S} \in SUBSET Ports
        BY <3>1
      <4> HIDE DEF TypeOK
      <4>3. todo \in [Procs -> SUBSET Ports]
        BY DEF TypeOK
      <4>4. QED
        BY <4>1, <4>2, <4>3
    <3>5. QED
      BY <3>3, <3>4
  <2>3. outcome' \in [Procs -> Outcomes]
    BY <1>2 DEF Choose
  <2>4. pc' \in [Procs -> Locations]
    <3>1. \E to \in {"done", "stop"} : Go(c, to)
      BY <1>2 DEF Choose
    <3>2. QED
      BY <3>1
  <2>5. QED
    BY <1>2, <2>2, <2>3, <2>4 DEF Choose
<1>3. CASE DisconnectCVD(c)
  <2>1. todo' \in [Procs -> SUBSET Ports]
    <3>1. \E T \in SUBSET Ports : todo' = [todo EXCEPT ![c] = T]
      <4>1. \A q : todo[c] \ {q} \in SUBSET Ports
        OBVIOUS
      <4>2. QED
        BY <1>3, <4>1 DEF DisconnectCVD
    <3>2. QED
      BY <3>1
  <2>2. asked' \in [Agents -> BOOLEAN]
    BY <1>3 DEF DisconnectCVD
  <2>3. QED
    BY <1>3, <2>1, <2>2 DEF DisconnectCVD
<1>4. CASE Finish(c)
  <2>1. outcome' \in [Procs -> Outcomes]
    BY <1>4 DEF Finish
  <2>2. QED
    BY <1>4, <2>1 DEF Finish
<1>5. QED
  BY <1>1, <1>2, <1>3, <1>4 DEF Command

LEMMA TypeInductive ==
    ASSUME TypeOK, [Next]_vars
    PROVE  TypeOK'
<1>1. CASE UNCHANGED vars
  BY <1>1 DEF vars, agentVars, scanVars, TypeOK
<1>2. QED
  BY <1>1, ScanTypes, AgentTypes, CommandTypes DEF Next

(* Type correctness: the processes, sockets and statuses keep their types,  *)
(* and what is learnt of a device is nothing or the port of an agent.       *)
THEOREM Typing == Spec => []TypeOK
<1>1. Init => TypeOK
  <2> SUFFICES ASSUME Init PROVE TypeOK
    OBVIOUS
  <2>1. found \in [Procs -> [CVDs -> Statuses]]
    BY DEF Init, Statuses
  <2>2. QED
    BY <2>1 DEF Init, TypeOK, Locations, Outcomes, Procs
<1>2. TypeOK /\ [Next]_vars => TypeOK'
  BY TypeInductive
<1>3. QED
  BY <1>1, <1>2, PTL DEF Spec

-----------------------------------------------------------------------------
(* Sockets *)

(* A socket is its agent's port, from its creation to its unlinking; the    *)
(* agents between the two have one.                                         *)
SocketInv ==
    /\ \A a \in Agents, q \in Ports : Owns(a, q) =>
          port[a] = q /\ pc[a] \in {"registered", "running", "stopping", "killed"}
    /\ \A a \in Agents : pc[a] \in {"registered", "running", "stopping"} =>
          port[a] \in Ports /\ sock[port[a]] = a
    /\ \A a \in Agents : pc[a] \in {"connect", "register"} => port[a] \in Ports

(* Steps that leave the sockets and the ports alone, and move no agent in   *)
(* or out of the places the invariant speaks of.                            *)
LEMMA SocketsUnchanged ==
    ASSUME SocketInv, UNCHANGED <<port, sock>>,
           \A a \in Agents : \/ pc'[a] = pc[a]
                             \/ /\ pc[a] \in {"idle", "list", "contact"}
                                /\ pc'[a] \in {"list", "contact", "exited", "killed"}
                             \/ pc[a] = "registered" /\ pc'[a] = "running"
                             \/ pc[a] = "running" /\ pc'[a] = "stopping"
                             \/ pc[a] = "connect" /\ pc'[a] \in {"register", "exited"}
                             \/ pc'[a] = "killed" /\ pc[a] # "exited"
    PROVE  SocketInv'
BY DEF SocketInv, Owns

LEMMA SocketInductive ==
    ASSUME TypeOK, SocketInv, [Next]_vars
    PROVE  SocketInv'
<1> USE AgentFleetAssumption DEF AgentFleetAssumption, Procs, Go, agentVars, scanVars, TypeOK
<1>1. ASSUME NEW p \in Procs, Scan(p) PROVE SocketInv'
  BY <1>1, SocketsUnchanged DEF Scan, ReadDir, Contact
<1>2. ASSUME NEW a \in Agents, StartAgent(a) PROVE SocketInv'
  BY <1>2, SocketsUnchanged DEF StartAgent
<1>3. ASSUME NEW a \in Agents, FindOrConnect(a) PROVE SocketInv'
  <2>1. pc[a] = "contact" /\ UNCHANGED sock
    BY <1>3 DEF FindOrConnect
  <2>2. \A b \in Agents \ {a} : pc'[b] = pc[b] /\ port'[b] = port[b]
    BY <1>3 DEF FindOrConnect
  <2>3. pc'[a] = "exited" \/ (pc'[a] = "connect" /\ port'[a] \in Ports)
    BY <1>3 DEF FindOrConnect
  <2>4. \A q \in Ports : ~Owns(a, q)
    BY <2>1 DEF SocketInv
  <2>5. ASSUME NEW b \in Agents, NEW q \in Ports, Owns(b, q)'
        PROVE  port'[b] = q /\ pc'[b] \in {"registered", "running", "stopping", "killed"}
    BY <2>1, <2>2, <2>4, <2>5 DEF SocketInv, Owns
  <2>6. ASSUME NEW b \in Agents
        PROVE  /\ pc'[b] \in {"registered", "running", "stopping"} =>
                     port'[b] \in Ports /\ sock'[port'[b]] = b
               /\ pc'[b] \in {"connect", "register"} => port'[b] \in Ports
    BY <2>1, <2>2, <2>3 DEF SocketInv
  <2>7. QED
    BY <2>5, <2>6 DEF SocketInv
<1>4. ASSUME NEW a \in Agents, Connect(a) PROVE SocketInv'
  BY <1>4, SocketsUnchanged DEF Connect
<1>5. ASSUME NEW a \in Agents, CreateControlSocket(a) PROVE SocketInv'
  <2>1. pc[a] = "register" /\ UNCHANGED port
    BY <1>5 DEF CreateControlSocket
  <2>2. port[a] \in Ports /\ \A q \in Ports : ~Owns(a, q)
    BY <2>1 DEF SocketInv
  <2>3. \A b \in Agents \ {a} : pc'[b] = pc[b]
    BY <1>5 DEF CreateControlSocket
  <2>4. CASE sock[port[a]] = None
    <3>1. pc'[a] = "registered" /\ sock' = [sock EXCEPT ![port[a]] = a]
      BY <1>5, <2>4 DEF CreateControlSocket
    <3>2. QED
      BY <2>1, <2>2, <2>3, <2>4, <3>1 DEF SocketInv, Owns
  <2>5. CASE sock[port[a]] # None
    <3>1. pc'[a] = "exited" /\ UNCHANGED sock
      BY <1>5, <2>5 DEF CreateControlSocket
    <3>2. QED
      BY <2>1, <2>2, <2>3, <3>1 DEF SocketInv, Owns
  <2>6. QED
    BY <2>4, <2>5
<1>6. ASSUME NEW a \in Agents, Run(a) \/ Stop(a) \/ Lose(a) \/ Kill(a) PROVE SocketInv'
  BY <1>6, SocketsUnchanged DEF Run, Stop, Lose, Kill, Gone
<1>7. ASSUME NEW a \in Agents, Exit(a) PROVE SocketInv'
  <2>1. pc[a] = "stopping" /\ pc'[a] = "exited" /\ UNCHANGED port
    BY <1>7 DEF Exit
  <2>2. \A b \in Agents \ {a} : pc'[b] = pc[b]
    BY <1>7 DEF Exit
  <2>3. port[a] \in Ports /\ sock[port[a]] = a
    BY <2>1 DEF SocketInv
  <2>4. sock' = [sock EXCEPT ![port[a]] = None]
    BY <1>7 DEF Exit
  <2>5. QED
    BY <2>1, <2>2, <2>3, <2>4 DEF SocketInv, Owns
<1>8. ASSUME NEW c \in Commands, StartCommand(c) \/ Command(c) PROVE SocketInv'
  <2>1. \A a \in Agents : pc'[a] = pc[a]
    BY <1>8 DEF StartCommand, Command, Choose, DisconnectCVD, Finish
  <2>2. UNCHANGED <<port, sock>>
    BY <1>8 DEF StartCommand, Command, Choose, DisconnectCVD, Finish
  <2>3. QED
    BY <2>1, <2>2, SocketsUnchanged
<1>9. CASE UNCHANGED vars
  BY <1>9, SocketsUnchanged DEF vars
<1>10. QED
  BY <1>1, <1>2, <1>3, <1>4, <1>5, <1>6, <1>7, <1>8, <1>9 DEF Next, Serve

LEMMA SocketInvariant == Spec => []SocketInv
<1>1. Init => SocketInv
  BY AgentFleetAssumption DEF AgentFleetAssumption, Init, SocketInv, Owns, Procs
<1>2. TypeOK /\ SocketInv /\ [Next]_vars => SocketInv'
  BY SocketInductive
<1>3. QED
  BY <1>1, <1>2, Typing, PTL DEF Spec

(* An agent that serves its control socket is the one the socket named for  *)
(* its port belongs to, however ports are reused, and an agent that exits   *)
(* leaves no socket behind.                                                 *)
THEOREM ServingIsReachable == Spec => []Reachable
<1>1. SocketInv => Reachable
  BY DEF SocketInv, Reachable, Serving
<1>2. QED
  BY <1>1, SocketInvariant, PTL

-----------------------------------------------------------------------------
(* Duplicates *)

(* An agent cannot overlook another one of its device that had a socket     *)
(* when it read the directory: it still has to contact it, or has found the *)
(* device connected, or has ended; unless the other one serves no more.     *)
NotOverlooked(a, b) ==
    target[a] = target[b] /\ Serving(a) =>
        \/ pc[b] = "contact"
           /\ (port[a] \in todo[b] \/ found[b][target[b]] # Unknown)
        \/ Gone(b)

SeenInv ==
    \A b \in Agents :
        /\ pc[b] \in {"idle", "list"} => seen[b] = {}
        /\ pc[b] # "idle" => target[b] \in CVDs
        /\ \A a \in seen[b] :
            /\ pc[a] \notin {"idle", "list", "contact", "connect", "register"}
            /\ NotOverlooked(a, b)

LEMMA SeenInductive ==
    ASSUME TypeOK, SocketInv, SeenInv, [Next]_vars
    PROVE  SeenInv'
<1> USE AgentFleetAssumption DEF AgentFleetAssumption, Procs, Go, agentVars, scanVars, TypeOK,
        SeenInv, NotOverlooked, Serving, Gone
<1>1. ASSUME NEW p \in Procs, ReadDir(p) PROVE SeenInv'
  <2>1. CASE p \in Commands
    BY <1>1, <2>1 DEF ReadDir
  <2>2. CASE p \in Agents
    <3>1. /\ pc[p] = "list" /\ pc'[p] = "contact"
          /\ todo'[p] = {q \in Ports : sock[q] # None}
          /\ seen'[p] = {sock[q] : q \in Ports} \ {None}
          /\ UNCHANGED <<target, port, found>>
      BY <1>1, <2>2 DEF ReadDir
    <3>2. \A b \in Agents \ {p} : pc'[b] = pc[b] /\ seen'[b] = seen[b] /\ todo'[b] = todo[b]
      BY <1>1, <2>2 DEF ReadDir
    <3>3. ASSUME NEW a \in seen'[p]
          PROVE  /\ a \in Agents /\ port[a] \in todo'[p] /\ a # p
                 /\ pc[a] \in {"registered", "running", "stopping", "killed"}
      BY <3>1, <3>3 DEF SocketInv, Owns
    <3>4. ASSUME NEW a \in seen'[p]
          PROVE  /\ pc'[a] \notin {"idle", "list", "contact", "connect", "register"}
                 /\ NotOverlooked(a, p)'
      BY <3>1, <3>2, <3>3, <3>4
    <3>5. ASSUME NEW b \in Agents \ {p}, NEW a \in seen'[b]
          PROVE  /\ pc'[a] \notin {"idle", "list", "contact", "connect", "register"}
                 /\ NotOverlooked(a, b)'
      <4>1. a \in seen[b] /\ a # p /\ pc'[a] = pc[a]
        BY <3>1, <3>2, <3>5
      <4>2. QED
        BY <3>1, <3>2, <4>1
    <3>6. \A b \in Agents : /\ pc'[b] \in {"idle", "list"} => seen'[b] = {}
                            /\ pc'[b] # "idle" => target'[b] \in CVDs
      BY <3>1, <3>2
    <3>7. ASSUME NEW b \in Agents, NEW a \in seen'[b]
          PROVE  /\ pc'[a] \notin {"idle", "list", "contact", "connect", "register"}
                 /\ NotOverlooked(a, b)'
      BY <3>4, <3>5
    <3> HIDE DEF NotOverlooked
    <3>8. QED
      BY <3>6, <3>7
  <2>3. QED
    BY <2>1, <2>2
<1>2. ASSUME NEW p \in Procs, Contact(p) PROVE SeenInv'
  <2>1. /\ pc[p] = "contact"
        /\ UNCHANGED <<pc, target, port, sock, seen>>
        /\ \A r \in Procs \ {p} : todo'[r] = todo[r] /\ found'[r] = found[r]
    BY <1>2 DEF Contact
  <2>2. ASSUME p \in Agents, NEW a \in seen[p], target[a] = target[p], Serving(a)
        PROVE  port[a] \in todo'[p] \/ found'[p][target[p]] # Unknown
    <3>1. port[a] \in Ports /\ sock[port[a]] = a
      BY <2>2 DEF SocketInv
    <3>2. target[p] \in CVDs
      BY <2>1, <2>2
    <3>3. PICK q \in todo[p] :
            /\ todo' = [todo EXCEPT ![p] = @ \ {q}]
            /\ \/ \E b \in Agents :
                     /\ Owns(b, q) /\ pc[b] = "running"
                     /\ found' = [found EXCEPT ![p][target[b]] = [port |-> q, up |-> up[b]]]
               \/ /\ ~\E b \in Agents : Owns(b, q) /\ Serving(b)
                  /\ UNCHANGED found
      BY <1>2 DEF Contact
    <3>4. CASE \E b \in Agents :
                 /\ Owns(b, q) /\ pc[b] = "running"
                 /\ found' = [found EXCEPT ![p][target[b]] = [port |-> q, up |-> up[b]]]
      <4>1. PICK b \in Agents :
              /\ Owns(b, q) /\ pc[b] = "running"
              /\ found' = [found EXCEPT ![p][target[b]] = [port |-> q, up |-> up[b]]]
        BY <3>4
      <4>2. [port |-> q, up |-> up[b]] # Unknown
        BY DEF Unknown
      <4>3. found'[p][target[p]] = found[p][target[p]]
            \/ (target[b] = target[p] /\ found'[p][target[p]] = [port |-> q, up |-> up[b]])
        BY <3>2, <4>1
      <4>4. CASE q = port[a]
        <5>1. b = a
          BY <3>1, <4>1, <4>4 DEF Owns
        <5>2. found'[p][target[p]] = [port |-> q, up |-> up[b]]
          BY <2>2, <3>2, <4>1, <5>1
        <5>3. QED
          BY <4>2, <5>2
      <4>5. CASE q # port[a]
        <5>1. port[a] \in todo[p] \/ found[p][target[p]] # Unknown
          BY <2>1, <2>2
        <5>2. port[a] \in todo[p] => port[a] \in todo'[p]
          BY <3>3, <4>5
        <5>3. QED
          BY <4>2, <4>3, <5>1, <5>2
      <4>6. QED
        BY <4>4, <4>5
    <3>5. CASE ~(\E b \in Agents : Owns(b, q) /\ Serving(b)) /\ UNCHANGED found
      <4>1. q # port[a]
        BY <2>2, <3>1, <3>5 DEF Owns
      <4>2. QED
        BY <2>1, <2>2, <3>3, <3>5, <4>1
    <3>6. QED
      BY <3>3, <3>4, <3>5
  <2>3. ASSUME NEW b \in Agents, NEW a \in seen[b]
        PROVE  NotOverlooked(a, b)'
    <3>1. CASE b = p
      BY <2>1, <2>2, <2>3, <3>1
    <3>2. CASE b # p
      BY <2>1, <2>3, <3>2
    <3>3. QED
      BY <3>1, <3>2
  <2>4. QED
    BY <2>1, <2>3
<1>3. ASSUME NEW a \in Agents, StartAgent(a) PROVE SeenInv'
  BY <1>3 DEF StartAgent
<1>4. ASSUME NEW a \in Agents, FindOrConnect(a) PROVE SeenInv'
  <2>1. /\ pc[a] = "contact" /\ todo[a] = {} /\ UNCHANGED <<target, todo, found, seen>>
        /\ \/ pc'[a] = "exited"
           \/ found[a][target[a]] = Unknown /\ pc'[a] = "connect"
    BY <1>4 DEF FindOrConnect
  <2>2. \A b \in Agents \ {a} : pc'[b] = pc[b] /\ port'[b] = port[b]
    BY <1>4 DEF FindOrConnect
  <2>3. \A b \in Agents : a \notin seen[b]
    BY <2>1
  <2>4. QED
    BY <2>1, <2>2, <2>3
<1>5. ASSUME NEW a \in Agents, Connect(a) PROVE SeenInv'
  BY <1>5 DEF Connect
<1>6. ASSUME NEW a \in Agents, CreateControlSocket(a) PROVE SeenInv'
  BY <1>6 DEF CreateControlSocket
<1>7. ASSUME NEW a \in Agents, Run(a) \/ Stop(a) \/ Exit(a) PROVE SeenInv'
  <2>1. CASE Run(a)
    BY <2>1 DEF Run
  <2>2. CASE Stop(a)
    BY <2>2 DEF Stop
  <2>3. CASE Exit(a)
    BY <2>3 DEF Exit
  <2>4. QED
    BY <1>7, <2>1, <2>2, <2>3
<1>8. ASSUME NEW a \in Agents, Lose(a) \/ Kill(a) PROVE SeenInv'
  BY <1>8 DEF Lose, Kill
<1>9. ASSUME NEW c \in Commands, StartCommand(c) \/ Command(c) PROVE SeenInv'
  <2>1. \A a \in Agents : /\ pc'[a] = pc[a] /\ todo'[a] = todo[a]
                          /\ found'[a] = found[a] /\ target'[a] = target[a]
    BY <1>9 DEF StartCommand, Command, Choose, DisconnectCVD, Finish
  <2>2. UNCHANGED <<port, seen>>
    BY <1>9 DEF StartCommand, Command, Choose, DisconnectCVD, Finish
  <2>3. QED
    BY <2>1, <2>2
<1>10. CASE UNCHANGED vars
  BY <1>10 DEF vars
<1>11. QED
  BY <1>1, <1>2, <1>3, <1>4, <1>5, <1>6, <1>7, <1>8, <1>9, <1>10 DEF Next, Scan, Serve

(* Two agents that serve one device raced: neither had its socket in place  *)
(* when the other read the control directory.                               *)
THEOREM DuplicatesOnlyByRace == Spec => []DuplicatesRaced
<1>1. Init => SeenInv
  BY DEF Init, SeenInv, Procs
<1>2. TypeOK /\ SocketInv /\ SeenInv /\ [Next]_vars => SeenInv'
  BY SeenInductive
<1>3. SeenInv => DuplicatesRaced
  BY DEF SeenInv, NotOverlooked, DuplicatesRaced, Serving, Gone
<1>4. QED
  BY <1>1, <1>2, <1>3, Typing, SocketInvariant, PTL DEF Spec

-----------------------------------------------------------------------------
(* What the others see of an agent of the fleet *)

(* A port is listened on while the agent connects, registers or serves; and *)
(* an agent is never where only commands are.                               *)
UpInv ==
    \A a \in Agents :
        /\ up[a] => pc[a] \in {"connect", "register", "registered", "running"}
        /\ pc[a] \notin {"stop", "done"}

LEMMA UpInductive ==
    ASSUME TypeOK, UpInv, [Next]_vars
    PROVE  UpInv'
<1> USE AgentFleetAssumption DEF AgentFleetAssumption, Procs, Go, agentVars, scanVars, TypeOK,
        UpInv
<1>1. ASSUME NEW p \in Procs, Scan(p) PROVE UpInv'
  <2>1. UNCHANGED up
    BY <1>1 DEF Scan, ReadDir, Contact
  <2>2. \A a \in Agents : pc'[a] = pc[a] \/ (pc[a] = "list" /\ pc'[a] = "contact")
    BY <1>1 DEF Scan, ReadDir, Contact
  <2>3. QED
    BY <2>1, <2>2
<1>2. ASSUME NEW a \in Agents, StartAgent(a) \/ FindOrConnect(a) PROVE UpInv'
  <2>1. CASE StartAgent(a)
    BY <2>1 DEF StartAgent
  <2>2. CASE FindOrConnect(a)
    <3>1. ~up[a] /\ \A b \in Agents \ {a} : pc'[b] = pc[b]
      BY <2>2 DEF FindOrConnect
    <3>2. \/ pc'[a] = "exited" /\ UNCHANGED up
          \/ pc'[a] = "connect" /\ up' = [up EXCEPT ![a] = TRUE]
      BY <2>2 DEF FindOrConnect
    <3>3. QED
      BY <3>1, <3>2
  <2>3. QED
    BY <1>2, <2>1, <2>2
<1>3. ASSUME NEW a \in Agents, Connect(a) \/ CreateControlSocket(a) PROVE UpInv'
  <2>1. CASE Connect(a)
    BY <2>1 DEF Connect
  <2>2. CASE CreateControlSocket(a)
    <3>1. \A b \in Agents \ {a} : pc'[b] = pc[b]
      BY <2>2 DEF CreateControlSocket
    <3>2. \/ UNCHANGED up /\ pc'[a] = "registered"
          \/ pc'[a] = "exited" /\ up' = [up EXCEPT ![a] = FALSE]
      BY <2>2 DEF CreateControlSocket
    <3>3. QED
      BY <3>1, <3>2
  <2>3. QED
    BY <1>3, <2>1, <2>2
<1>4. ASSUME NEW a \in Agents, Run(a) \/ Stop(a) \/ Exit(a) PROVE UpInv'
  <2>1. CASE Run(a)
    BY <2>1 DEF Run
  <2>2. CASE Stop(a)
    BY <2>2 DEF Stop
  <2>3. CASE Exit(a)
    BY <2>3 DEF Exit
  <2>4. QED
    BY <1>4, <2>1, <2>2, <2>3
<1>5. ASSUME NEW a \in Agents, Lose(a) \/ Kill(a) PROVE UpInv'
  BY <1>5 DEF Lose, Kill
<1>6. ASSUME NEW c \in Commands, StartCommand(c) \/ Command(c) PROVE UpInv'
  <2>1. \A a \in Agents : pc'[a] = pc[a]
    BY <1>6 DEF StartCommand, Command, Choose, DisconnectCVD, Finish
  <2>2. UNCHANGED up
    BY <1>6 DEF StartCommand, Command, Choose, DisconnectCVD, Finish
  <2>3. QED
    BY <2>1, <2>2
<1>7. CASE UNCHANGED vars
  BY <1>7 DEF vars
<1>8. QED
  BY <1>1, <1>2, <1>3, <1>4, <1>5, <1>6, <1>7 DEF Next, Serve

LEMMA UpInvariant == Spec => []UpInv
<1>1. Init => UpInv
  BY DEF Init, UpInv, Procs
<1>2. TypeOK /\ UpInv /\ [Next]_vars => UpInv'
  BY UpInductive
<1>3. QED
  BY <1>1, <1>2, Typing, PTL DEF Spec

(* The step of another agent shows nothing of this one: not even when both  *)
(* had the same port.                                                       *)
LEMMA OthersUnseen ==
    ASSUME TypeOK, SocketInv, NEW a \in Agents, NEW b \in Agents \ {a},
           StartAgent(b) \/ Serve(b) \/ Lose(b) \/ Kill(b)
    PROVE  /\ pc'[a] = pc[a] /\ up'[a] = up[a]
           /\ \A q \in Ports : Owns(a, q)' <=> Owns(a, q)
<1> USE AgentFleetAssumption DEF AgentFleetAssumption, Procs, Go, agentVars, scanVars, TypeOK, Owns
<1>1. pc'[a] = pc[a]
  BY DEF StartAgent, Serve, FindOrConnect, Connect, CreateControlSocket, Run, Stop, Exit, Lose, Kill
<1>2. up'[a] = up[a]
  BY DEF StartAgent, Serve, FindOrConnect, Connect, CreateControlSocket, Run, Stop, Exit, Lose, Kill
<1>3. CASE CreateControlSocket(b)
  <2>1. \/ UNCHANGED sock
        \/ sock[port[b]] = None /\ sock' = [sock EXCEPT ![port[b]] = b]
    BY <1>3 DEF CreateControlSocket
  <2>2. QED
    BY <1>1, <1>2, <2>1
<1>4. CASE Exit(b)
  <2>1. sock[port[b]] = b /\ sock' = [sock EXCEPT ![port[b]] = None]
    BY <1>4 DEF Exit, SocketInv
  <2>2. QED
    BY <1>1, <1>2, <2>1
<1>5. CASE ~CreateControlSocket(b) /\ ~Exit(b)
  <2>1. UNCHANGED sock
    BY <1>5 DEF StartAgent, Serve, FindOrConnect, Connect, Run, Stop, Lose, Kill
  <2>2. QED
    BY <1>1, <1>2, <2>1
<1>6. QED
  BY <1>3, <1>4, <1>5

(* An agent whose place, port and socket stay as they are shows no change. *)
LEMMA Unseen ==
    ASSUME NEW a \in Agents, Stage(a)' = Stage(a), pc'[a] = "connect" <=> pc[a] = "connect",
           up'[a] = up[a], \A q \in Ports : Owns(a, q)' <=> Owns(a, q)
    PROVE  UNCHANGED Life(a)!vars
<1>1. HasSocket(a)' = HasSocket(a)
  BY DEF HasSocket
<1>2. Forwarding(a)' = Forwarding(a)
  BY DEF Forwarding
<1>3. QED
  BY <1>1, <1>2 DEF Life!vars

(* What the agent itself does is a step of its life. *)
LEMMA AgentLives ==
    ASSUME TypeOK, SocketInv, UpInv, SocketInv', NEW a \in Agents,
           StartAgent(a) \/ Serve(a) \/ Lose(a) \/ Kill(a)
    PROVE  [Life(a)!Next]_(Life(a)!vars)
<1> USE AgentFleetAssumption DEF AgentFleetAssumption, Procs, Go, agentVars, scanVars, TypeOK
<1>1. pc[a] \in {"idle", "list", "contact", "connect", "register"} => ~HasSocket(a)
  BY DEF SocketInv, HasSocket
<1>2. pc[a] \in {"registered", "running", "stopping"} => HasSocket(a)
  BY DEF SocketInv, HasSocket, Owns
<1>3. pc'[a] \in {"idle", "list", "contact", "connect", "register", "exited"} => ~HasSocket(a)'
  BY DEF SocketInv, HasSocket
<1>4. pc'[a] \in {"registered", "running", "stopping"} => HasSocket(a)'
  BY DEF SocketInv, HasSocket, Owns
<1>5. UNCHANGED sock => HasSocket(a)' = HasSocket(a)
  BY DEF HasSocket, Owns
<1>6. CASE StartAgent(a)
  <2>1. pc[a] = "idle" /\ pc'[a] = "list" /\ UNCHANGED <<up, sock>>
    BY <1>6 DEF StartAgent
  <2>2. QED
    BY <1>5, <2>1 DEF Life!vars, Stage, Forwarding
<1>7. CASE FindOrConnect(a)
  <2>1. pc[a] = "contact" /\ UNCHANGED sock
    BY <1>7 DEF FindOrConnect
  <2>2. CASE pc'[a] = "connect" /\ up'[a]
    <3>1. Life(a)!Begin
      BY <1>5, <2>1, <2>2 DEF Life!Begin, Stage, Forwarding
    <3>2. QED
      BY <3>1 DEF Life!Next
  <2>3. CASE pc'[a] = "exited" /\ UNCHANGED up
    <3>1. Life(a)!GiveUp
      BY <1>5, <2>1, <2>3 DEF Life!GiveUp, Stage, Forwarding, Serving, UpInv
    <3>2. QED
      BY <3>1 DEF Life!Next
  <2>4. QED
    BY <1>7, <2>2, <2>3 DEF FindOrConnect
<1>8. CASE Connect(a)
  <2>1. pc[a] = "connect" /\ UNCHANGED sock
    BY <1>8 DEF Connect
  <2>2. CASE pc'[a] = "register" /\ UNCHANGED up
    <3>1. Life(a)!Ready
      BY <1>5, <2>1, <2>2 DEF Life!Ready, Stage, Forwarding
    <3>2. QED
      BY <3>1 DEF Life!Next
  <2>3. CASE pc'[a] = "exited" /\ ~up'[a]
    <3>1. Life(a)!GiveUp
      BY <1>5, <2>1, <2>3 DEF Life!GiveUp, Stage, Forwarding, Serving
    <3>2. QED
      BY <3>1 DEF Life!Next
  <2>4. QED
    BY <1>8, <2>2, <2>3 DEF Connect
<1>9. CASE CreateControlSocket(a)
  <2>1. pc[a] = "register"
    BY <1>9 DEF CreateControlSocket
  <2>2. CASE pc'[a] = "registered" /\ UNCHANGED up
    <3>1. Life(a)!Register
      BY <1>1, <1>4, <2>1, <2>2 DEF Life!Register, Stage, Forwarding, Serving
    <3>2. QED
      BY <3>1 DEF Life!Next
  <2>3. CASE pc'[a] = "exited" /\ ~up'[a] /\ UNCHANGED sock
    <3>1. Life(a)!GiveUp
      BY <1>5, <2>1, <2>3 DEF Life!GiveUp, Stage, Forwarding, Serving
    <3>2. QED
      BY <3>1 DEF Life!Next
  <2>4. QED
    BY <1>9, <2>2, <2>3 DEF CreateControlSocket
<1>10. CASE Run(a)
  <2>1. pc[a] = "registered" /\ pc'[a] = "running" /\ UNCHANGED <<up, sock>>
    BY <1>10 DEF Run
  <2>2. QED
    BY <1>5, <2>1 DEF Life!vars, Stage, Forwarding, Serving
<1>11. CASE Stop(a)
  <2>1. pc[a] = "running" /\ pc'[a] = "stopping" /\ ~up'[a] /\ UNCHANGED sock
    BY <1>11 DEF Stop
  <2>2. Life(a)!Stop
    BY <1>5, <2>1 DEF Life!Stop, Stage, Forwarding, Serving
  <2>3. QED
    BY <2>2 DEF Life!Next
<1>12. CASE Exit(a)
  <2>1. pc[a] = "stopping" /\ pc'[a] = "exited" /\ UNCHANGED up
    BY <1>12 DEF Exit
  <2>2. ~up[a]
    BY <2>1 DEF UpInv
  <2>3. Life(a)!Exit
    BY <1>3, <2>1, <2>2 DEF Life!Exit, Stage, Forwarding, Serving
  <2>4. QED
    BY <2>3 DEF Life!Next
<1>13. CASE Lose(a)
  <2>1. /\ pc[a] \in {"connect", "register", "registered", "running"}
        /\ ~up'[a] /\ UNCHANGED <<pc, sock>>
    BY <1>13 DEF Lose
  <2>2. Life(a)!Lose
    BY <1>5, <2>1 DEF Life!Lose, Stage, Forwarding, Serving
  <2>3. QED
    BY <2>2 DEF Life!Next
<1>14. CASE Kill(a)
  <2>1. MayKill /\ ~Gone(a) /\ pc'[a] = "killed" /\ ~up'[a] /\ UNCHANGED sock
    BY <1>14 DEF Kill
  <2>2. Life(a)!Kill
    BY <1>5, <2>1 DEF Life!Kill, Stage, Forwarding, Serving, Gone, Locations, UpInv
  <2>3. QED
    BY <2>2 DEF Life!Next
<1>15. QED
  BY <1>6, <1>7, <1>8, <1>9, <1>10, <1>11, <1>12, <1>13, <1>14 DEF Serve

(* Any step of the fleet is a step in an agent's life, or shows nothing of  *)
(* it.                                                                      *)
LEMMA FleetLives ==
    ASSUME TypeOK, SocketInv, UpInv, [Next]_vars, NEW a \in Agents
    PROVE  [Life(a)!Next]_(Life(a)!vars)
<1> USE DEF Procs, Go, agentVars, scanVars, TypeOK
<1>1. ASSUME NEW p \in Procs, Scan(p) PROVE UNCHANGED Life(a)!vars
  <2>1. UNCHANGED <<up, sock>>
    BY <1>1 DEF Scan, ReadDir, Contact
  <2>2. pc'[a] = pc[a] \/ (pc[a] = "list" /\ pc'[a] = "contact")
    BY <1>1 DEF Scan, ReadDir, Contact
  <2>3. Stage(a)' = Stage(a)
    BY <2>2 DEF Stage, Serving
  <2>4. QED
    BY <2>1, <2>2, <2>3, Unseen DEF Owns
<1>2. ASSUME NEW b \in Agents \ {a}, StartAgent(b) \/ Serve(b) \/ Lose(b) \/ Kill(b)
      PROVE  UNCHANGED Life(a)!vars
  <2>1. /\ pc'[a] = pc[a] /\ up'[a] = up[a]
        /\ \A q \in Ports : Owns(a, q)' <=> Owns(a, q)
    BY <1>2, OthersUnseen
  <2>2. Stage(a)' = Stage(a)
    BY <2>1 DEF Stage, Serving
  <2>3. QED
    BY <2>1, <2>2, Unseen
<1>3. CASE StartAgent(a) \/ Serve(a) \/ Lose(a) \/ Kill(a)
  <2>1. SocketInv'
    BY SocketInductive
  <2>2. QED
    BY <1>3, <2>1, AgentLives
<1>4. ASSUME NEW c \in Commands, StartCommand(c) \/ Command(c) PROVE UNCHANGED Life(a)!vars
  <2>1. pc'[a] = pc[a]
    BY <1>4, AgentFleetAssumption
       DEF StartCommand, Command, Choose, DisconnectCVD, Finish, AgentFleetAssumption
  <2>2. UNCHANGED <<up, sock>>
    BY <1>4 DEF StartCommand, Command, Choose, DisconnectCVD, Finish
  <2>3. Stage(a)' = Stage(a)
    BY <2>1 DEF Stage, Serving
  <2>4. QED
    BY <2>1, <2>2, <2>3, Unseen DEF Owns
<1>5. CASE UNCHANGED vars
  <2>1. Stage(a)' = Stage(a) /\ UNCHANGED <<pc, up, sock>>
    BY <1>5 DEF vars, Stage, Serving
  <2>2. QED
    BY <2>1, Unseen DEF Owns
<1>6. QED
  BY <1>1, <1>2, <1>3, <1>4, <1>5 DEF Next

(* Every agent of the fleet implements AgentLife, for any number of agents  *)
(* and ports, with lost devices and killed processes.                       *)
THEOREM AgentsLiveAsAgreed == Spec => LivesAsAgreed
<1>1. ASSUME NEW a \in Agents PROVE Spec => Life(a)!Spec
  <2>1. Init => Life(a)!Init
    <3> SUFFICES ASSUME Init PROVE Life(a)!Init
      OBVIOUS
    <3>1. pc[a] = "idle"
      BY DEF Init, Procs
    <3>2. ~HasSocket(a)
      BY AgentFleetAssumption DEF Init, HasSocket, Owns, AgentFleetAssumption
    <3>3. QED
      BY <3>1, <3>2 DEF Life!Init, Stage, Forwarding
  <2>2. TypeOK /\ SocketInv /\ UpInv /\ [Next]_vars => [Life(a)!Next]_(Life(a)!vars)
    BY FleetLives
  <2>3. QED
    BY <2>1, <2>2, Typing, SocketInvariant, UpInvariant, PTL DEF Spec, Life!Spec
<1>2. QED
  BY <1>1 DEF LivesAsAgreed

-----------------------------------------------------------------------------
(* Inside one agent: types *)

LEMMA StopForwardingTypes ==
    ASSUME AgentTypeOK, NEW g \in Goroutines, NEW to \in Places, NEW final \in Final,
           StopForwarding(g, to, final)
    PROVE  /\ at' \in [Goroutines -> Places]
           /\ state' \in {"initializing", "ready", "connected"} \cup Final
           /\ conn' \in Nat /\ accepted' \in Nat
           /\ open' \subseteq Nat \ {NoConn}
           /\ listener' \in BOOLEAN
           /\ dc' \in {"connecting", "open", "closed"}
<1>1. CASE state = final
  BY <1>1 DEF StopForwarding, AgentTypeOK, forwarder, GoOn
<1>2. CASE state # final
  <2>1. at' \in [Goroutines -> Places]
    BY <1>2 DEF StopForwarding, AgentTypeOK, Goroutines, Observers, Places
  <2>2. QED
    BY <1>2, <2>1 DEF StopForwarding, AgentTypeOK
<1>3. QED
  BY <1>1, <1>2

LEMMA AgentTypeInductive ==
    ASSUME AgentTypeOK, [AgentNext]_agentState
    PROVE  AgentTypeOK'
<1> USE DEF AgentTypeOK, forwarder, GoOn, Goroutines, Observers, Final, Places
<1>1. CASE DataChannelOnOpen
  BY <1>1 DEF DataChannelOnOpen, OnOpen, SignalReady
<1>2. CASE LaunchLoop
  BY <1>2 DEF LaunchLoop
<1>3. CASE DataChannelOnClose
  <2>1. CASE at["dcClose"] = "stop"
    <3>1. StopForwarding("dcClose", "signal", "failed")
          /\ UNCHANGED <<readyCloses, control, peer>>
      BY <1>3, <2>1 DEF DataChannelOnClose
    <3>2. QED
      BY <3>1, StopForwardingTypes
  <2>2. CASE at["dcClose"] = "signal"
    <3>1. SignalReady("dcClose") /\ UNCHANGED <<forwarder, control, dc, peer>>
      BY <1>3, <2>2 DEF DataChannelOnClose
    <3>2. readyCloses' \in 0 .. 1
      BY <3>1 DEF SignalReady
    <3>3. at' \in [Goroutines -> Places]
      BY <3>1 DEF SignalReady
    <3>4. QED
      BY <3>1, <3>2, <3>3
  <2>3. QED
    BY <1>3, <2>1, <2>2 DEF DataChannelOnClose
<1>4. CASE Loop
  <2>1. CASE LoopCheck
    BY <2>1 DEF LoopCheck
  <2>2. CASE AcceptFails
    BY <2>2 DEF AcceptFails
  <2>3. CASE SetConnection
    BY <2>3 DEF SetConnection
  <2>4. CASE Resume
    BY <2>4 DEF Resume
  <2>5. QED
    BY <1>4, <2>1, <2>2, <2>3, <2>4 DEF Loop
<1>5. CASE Accept
  BY <1>5 DEF Accept, NoConn
<1>6. CASE ServeEnds
  BY <1>6 DEF ServeEnds
<1>7. CASE ConnectWebRTC \/ AwaitReady \/ TakeCommand \/ RunEnds
  <2>1. UNCHANGED <<forwarder, readyCloses, control, dc, peer>>
    BY <1>7 DEF ConnectWebRTC, AwaitReady, TakeCommand, RunEnds
  <2>2. \E to \in Places : GoOn("main", to)
    BY <1>7 DEF ConnectWebRTC, AwaitReady, TakeCommand, RunEnds
  <2>3. at' \in [Goroutines -> Places]
    BY <2>2
  <2>4. QED
    BY <2>1, <2>3
<1>8. CASE MakeControlSocket
  <2>1. CASE control' = "open" /\ GoOn("main", "run") /\ UNCHANGED <<forwarder, dc, peer>>
    BY <1>8, <2>1 DEF MakeControlSocket
  <2>2. CASE StopForwarding("main", "error", "failed") /\ peer' = "lost" /\ UNCHANGED control
    BY <1>8, <2>2, StopForwardingTypes DEF MakeControlSocket
  <2>3. QED
    BY <1>8, <2>1, <2>2 DEF MakeControlSocket
<1>9. CASE StopController
  <2>1. CASE at["main"] = "command"
    <3>1. StopForwarding("main", "close", "stopped")
          /\ UNCHANGED <<readyCloses, control, peer>>
      BY <1>9, <2>1 DEF StopController
    <3>2. QED
      BY <3>1, StopForwardingTypes
  <2>2. CASE at["main"] = "close"
    BY <1>9, <2>2 DEF StopController
  <2>3. QED
    BY <1>9, <2>1, <2>2 DEF StopController
<1>10. ASSUME NEW cb \in Observers, Observe(cb) PROVE AgentTypeOK'
  <2>1. PICK final \in Final : StopForwarding(cb, "done", final)
                               /\ UNCHANGED <<readyCloses, control, peer>>
    BY <1>10 DEF Observe
  <2>2. cb \in Goroutines /\ "done" \in Places
    OBVIOUS
  <2>3. QED
    BY <2>1, <2>2, StopForwardingTypes
<1>11. ASSUME NEW cb \in Observers, PeerTells(cb) PROVE AgentTypeOK'
  BY <1>11 DEF PeerTells
<1>12. CASE PeerUp \/ DataChannelOpens \/ DataChannelCloses
  <2>1. CASE PeerUp
    BY <2>1 DEF PeerUp
  <2>2. CASE DataChannelOpens
    BY <2>2 DEF DataChannelOpens
  <2>3. CASE DataChannelCloses
    BY <2>3 DEF DataChannelCloses
  <2>4. QED
    BY <1>12, <2>1, <2>2, <2>3
<1>13. CASE UNCHANGED agentState
  BY <1>13 DEF agentState
<1>14. QED
  BY <1>1, <1>2, <1>3, <1>4, <1>5, <1>6, <1>7, <1>8, <1>9, <1>10, <1>11, <1>12, <1>13
     DEF AgentNext

(* Type correctness: in every reachable state each variable has the type   *)
(* the code gives it, and the forwarder a state StateAsStr has a name for.  *)
THEOREM AgentTyping == AgentSpec => []AgentTypeOK
<1>1. AgentInit => AgentTypeOK
  BY DEF AgentInit, AgentTypeOK, Goroutines, Observers, Places, Final, NoConn
<1>2. AgentTypeOK /\ [AgentNext]_agentState => AgentTypeOK'
  BY AgentTypeInductive
<1>3. QED
  BY <1>1, <1>2, PTL DEF AgentSpec

-----------------------------------------------------------------------------
(* The forwarder's state, the accept loop and what they hold *)

(* Where the loop is says what the state can be, and the state which        *)
(* connections are open.                                                    *)
Coupled ==
    /\ at["dcOpen"] \in {"off", "swap", "launch"} => at["loop"] = "off"
    /\ dc = "connecting" => at["dcOpen"] = "off"
    /\ at["dcOpen"] = "launch" => state # "initializing"
    /\ state = "initializing" => at["loop"] = "off" /\ listener
    /\ at["loop"] \in {"serve", "resume"} =>
          state \in {"connected"} \cup Final /\ conn = accepted
    /\ state = "connected" => at["loop"] \in {"serve", "resume"}
    /\ open \subseteq {accepted}
    /\ open # {} => at["loop"] \in {"install", "serve"}
    /\ ReadyServes
    /\ state \in Final =>
          dc = "closed" /\ ~listener /\ (at["loop"] # "install" => open = {})

(* What is not about the forwarder leaves the coupling alone. *)
LEMMA CoupledUnchanged ==
    ASSUME Coupled, UNCHANGED <<forwarder, dc>>,
           at'["loop"] = at["loop"], at'["dcOpen"] = at["dcOpen"]
    PROVE  Coupled'
BY DEF Coupled, ReadyServes, forwarder

(* Whoever stops forwarding, wherever the loop is, nothing stays open that  *)
(* the loop is not about to close.                                          *)
LEMMA StopForwardingCoupled ==
    ASSUME AgentTypeOK, Coupled, NEW g \in Goroutines \ {"loop", "dcOpen"}, NEW to,
           NEW final \in Final, StopForwarding(g, to, final)
    PROVE  Coupled'
<1>1. at'["loop"] = at["loop"] /\ at'["dcOpen"] = at["dcOpen"]
  BY DEF StopForwarding, GoOn, AgentTypeOK, Goroutines
<1>2. CASE state = final
  BY <1>1, <1>2, CoupledUnchanged DEF StopForwarding, forwarder
<1>3. CASE state # final
  <2>1. /\ state' = final /\ dc' = "closed" /\ listener' = FALSE
        /\ open' = open \ {conn} /\ conn' = conn /\ accepted' = accepted
    BY <1>3 DEF StopForwarding, Final
  <2>2. at["loop"] # "install" => open' = {}
    BY <2>1 DEF Coupled, AgentTypeOK, Final
  <2>3. QED
    BY <1>1, <2>1, <2>2 DEF Coupled, ReadyServes, Final
<1>4. QED
  BY <1>2, <1>3

LEMMA CoupledInductive ==
    ASSUME AgentTypeOK, Coupled, [AgentNext]_agentState
    PROVE  Coupled'
<1> USE DEF Goroutines, Observers
<1>1. CASE DataChannelOnOpen
  <2>1. at'["loop"] = at["loop"]
    BY <1>1 DEF DataChannelOnOpen, OnOpen, SignalReady, GoOn, AgentTypeOK
  <2>2. QED
    BY <1>1, <2>1 DEF DataChannelOnOpen, OnOpen, SignalReady, GoOn, AgentTypeOK, Coupled,
                      ReadyServes, Final
<1>2. CASE LaunchLoop
  BY <1>2 DEF LaunchLoop, forwarder, AgentTypeOK, Coupled, ReadyServes, Final
<1>3. CASE DataChannelOnClose
  <2>1. CASE at["dcClose"] = "stop"
    BY <1>3, <2>1, StopForwardingCoupled DEF DataChannelOnClose, Final
  <2>2. CASE at["dcClose"] = "signal"
    BY <1>3, <2>2, CoupledUnchanged DEF DataChannelOnClose, SignalReady, GoOn, AgentTypeOK
  <2>3. QED
    BY <1>3, <2>1, <2>2 DEF DataChannelOnClose
<1>4. CASE Loop
  <2>1. at'["dcOpen"] = at["dcOpen"]
    BY <1>4 DEF Loop, LoopCheck, AcceptFails, SetConnection, Resume, GoOn, AgentTypeOK
  <2>2. CASE LoopCheck
    BY <2>1, <2>2 DEF LoopCheck, GoOn, forwarder, AgentTypeOK, Coupled, ReadyServes, Final
  <2>3. CASE AcceptFails
    BY <2>1, <2>3 DEF AcceptFails, GoOn, AgentTypeOK, Coupled, ReadyServes, Final
  <2>4. CASE SetConnection
    BY <2>1, <2>4 DEF SetConnection, GoOn, AgentTypeOK, Coupled, ReadyServes, Final
  <2>5. CASE Resume
    BY <2>1, <2>5 DEF Resume, GoOn, AgentTypeOK, Coupled, ReadyServes, Final
  <2>6. QED
    BY <1>4, <2>2, <2>3, <2>4, <2>5 DEF Loop
<1>5. CASE Accept
  BY <1>5 DEF Accept, GoOn, AgentTypeOK, Coupled, ReadyServes, Final
<1>6. CASE ServeEnds
  BY <1>6 DEF ServeEnds, GoOn, AgentTypeOK, Coupled, ReadyServes, Final
<1>7. CASE ConnectWebRTC \/ AwaitReady \/ TakeCommand \/ RunEnds
  BY <1>7, CoupledUnchanged DEF ConnectWebRTC, AwaitReady, TakeCommand, RunEnds, GoOn, AgentTypeOK
<1>8. CASE MakeControlSocket
  <2>1. CASE control' = "open" /\ GoOn("main", "run") /\ UNCHANGED <<forwarder, dc, peer>>
    BY <2>1, CoupledUnchanged DEF GoOn, AgentTypeOK
  <2>2. CASE StopForwarding("main", "error", "failed") /\ peer' = "lost" /\ UNCHANGED control
    BY <2>2, StopForwardingCoupled DEF Final
  <2>3. QED
    BY <1>8, <2>1, <2>2 DEF MakeControlSocket
<1>9. CASE StopController
  <2>1. CASE at["main"] = "command"
    BY <1>9, <2>1, StopForwardingCoupled DEF StopController, Final
  <2>2. CASE at["main"] = "close"
    BY <1>9, <2>2, CoupledUnchanged DEF StopController, GoOn, AgentTypeOK
  <2>3. QED
    BY <1>9, <2>1, <2>2 DEF StopController
<1>10. ASSUME NEW cb \in Observers, Observe(cb) PROVE Coupled'
  <2>1. PICK final \in Final : StopForwarding(cb, "done", final)
    BY <1>10 DEF Observe, Final
  <2>2. QED
    BY <2>1, StopForwardingCoupled
<1>11. ASSUME NEW cb \in Observers, PeerTells(cb) PROVE Coupled'
  BY <1>11, CoupledUnchanged DEF PeerTells, GoOn, AgentTypeOK
<1>12. CASE PeerUp
  BY <1>12, CoupledUnchanged DEF PeerUp
<1>13. CASE DataChannelOpens \/ DataChannelCloses
  BY <1>13 DEF DataChannelOpens, DataChannelCloses, GoOn, forwarder, AgentTypeOK, Coupled,
               ReadyServes, Final
<1>14. CASE UNCHANGED agentState
  BY <1>14, CoupledUnchanged DEF agentState
<1>15. QED
  BY <1>1, <1>2, <1>3, <1>4, <1>5, <1>6, <1>7, <1>8, <1>9, <1>10, <1>11, <1>12, <1>13, <1>14
     DEF AgentNext

LEMMA CoupledInvariant == AgentSpec => []Coupled
<1>1. AgentInit => Coupled
  BY DEF AgentInit, Coupled, ReadyServes, Goroutines, Observers, Final
<1>2. AgentTypeOK /\ Coupled /\ [AgentNext]_agentState => Coupled'
  BY CoupledInductive
<1>3. QED
  BY <1>1, <1>2, AgentTyping, PTL DEF AgentSpec

(* A forwarder that stopped or failed has closed its data channel, its      *)
(* listener and its connections, whoever stopped it and whenever, and one   *)
(* that is ready or connected listens unless accepting failed for good.     *)
THEOREM StoppedIsReleased == AgentSpec => []Released
<1>1. AgentTypeOK /\ Coupled => Released
  BY DEF Coupled, Released
<1>2. QED
  BY <1>1, AgentTyping, CoupledInvariant, PTL

(* One TCP connection is served at a time, and it is the one device data    *)
(* is written to.                                                           *)
THEOREM SingleConnection == AgentSpec => []OneServed
<1>1. Coupled => OneServed
  BY DEF Coupled, OneServed
<1>2. QED
  BY <1>1, CoupledInvariant, PTL

-----------------------------------------------------------------------------
(* What the others see of the agent *)

(* Whoever closes readyCh, or is about to, has seen the forwarder leave its  *)
(* initial state.                                                           *)
Announced ==
    /\ at["dcOpen"] \in {"launch", "signal"} => state # "initializing"
    /\ at["dcClose"] = "signal" => state # "initializing"
    /\ readyCloses > 0 => state # "initializing"

(* Main's place says whether the control socket is there; past readyCh, it  *)
(* was closed; and the socket goes only after the forwarder has.            *)
MainInv ==
    /\ at["main"] \in {"connect", "await", "socket", "error"} => control = "none"
    /\ at["main"] \in {"command", "close"} => control = "open"
    /\ at["main"] = "run" => control # "none"
    /\ at["main"] = "exited" => control = "closed"
    /\ control = "closed" \/ at["main"] = "close" => state \in Final
    /\ at["main"] \notin {"connect", "await", "error"} => readyCloses > 0
    /\ at["main"] \in {"connect", "await", "socket", "run", "command", "close",
                       "exited", "error"}

(* StopForwarding, whoever calls it, leaves the forwarder stopped or failed. *)
LEMMA StopForwardingFinal ==
    ASSUME NEW g, NEW to, NEW final \in Final, StopForwarding(g, to, final)
    PROVE  state' \in Final
BY DEF StopForwarding, forwarder

(* A final state stays final, and the initial one does not come back. *)
LEMMA StateForward ==
    ASSUME AgentTypeOK, Coupled, [AgentNext]_agentState
    PROVE  /\ state \in Final => state' \in Final
           /\ state # "initializing" => state' # "initializing"
<1> USE DEF Final
<1>1. CASE DataChannelOnOpen
  BY <1>1 DEF DataChannelOnOpen, OnOpen
<1>2. CASE LaunchLoop \/ Accept \/ ServeEnds
  BY <1>2 DEF LaunchLoop, Accept, ServeEnds, forwarder
<1>3. CASE DataChannelOnClose
  BY <1>3 DEF DataChannelOnClose, StopForwarding, forwarder
<1>4. CASE Loop
  BY <1>4 DEF Loop, LoopCheck, AcceptFails, SetConnection, Resume, forwarder
<1>5. CASE ConnectWebRTC \/ AwaitReady \/ TakeCommand \/ RunEnds
  BY <1>5 DEF ConnectWebRTC, AwaitReady, TakeCommand, RunEnds, forwarder
<1>6. CASE MakeControlSocket \/ StopController
  BY <1>6 DEF MakeControlSocket, StopController, StopForwarding, forwarder
<1>7. ASSUME NEW cb \in Observers, Observe(cb) \/ PeerTells(cb)
      PROVE  /\ state \in Final => state' \in Final
             /\ state # "initializing" => state' # "initializing"
  BY <1>7 DEF Observe, PeerTells, StopForwarding, forwarder
<1>8. CASE PeerUp \/ DataChannelOpens \/ DataChannelCloses \/ UNCHANGED agentState
  BY <1>8 DEF PeerUp, DataChannelOpens, DataChannelCloses, forwarder, agentState
<1>9. QED
  BY <1>1, <1>2, <1>3, <1>4, <1>5, <1>6, <1>7, <1>8 DEF AgentNext

(* The steps of main. *)
MainStep ==
    ConnectWebRTC \/ AwaitReady \/ MakeControlSocket \/ TakeCommand \/ StopController
    \/ RunEnds

(* What main alone changes. *)
LEMMA OthersLeaveMain ==
    ASSUME AgentTypeOK, [AgentNext]_agentState, ~MainStep
    PROVE  at'["main"] = at["main"] /\ control' = control
<1> USE DEF AgentTypeOK, Goroutines, Observers, GoOn
<1>1. CASE DataChannelOnOpen \/ LaunchLoop
  BY <1>1 DEF DataChannelOnOpen, OnOpen, SignalReady, LaunchLoop
<1>2. CASE DataChannelOnClose
  BY <1>2 DEF DataChannelOnClose, StopForwarding, SignalReady
<1>3. CASE Loop
  BY <1>3 DEF Loop, LoopCheck, AcceptFails, SetConnection, Resume
<1>4. CASE Accept \/ ServeEnds
  BY <1>4 DEF Accept, ServeEnds
<1>5. ASSUME NEW cb \in Observers, Observe(cb) \/ PeerTells(cb)
      PROVE  at'["main"] = at["main"] /\ control' = control
  BY <1>5 DEF Observe, PeerTells, StopForwarding
<1>6. CASE PeerUp \/ DataChannelOpens \/ DataChannelCloses \/ UNCHANGED agentState
  BY <1>6 DEF PeerUp, DataChannelOpens, DataChannelCloses, agentState
<1>7. QED
  BY <1>1, <1>2, <1>3, <1>4, <1>5, <1>6 DEF AgentNext, MainStep

LEMMA AnnouncedInductive ==
    ASSUME AgentTypeOK, Coupled, Announced, [AgentNext]_agentState
    PROVE  Announced'
<1>1. state # "initializing" => state' # "initializing"
  BY StateForward
<1> USE DEF AgentTypeOK, Goroutines, Observers, GoOn, Announced
<1>2. CASE DataChannelOnOpen
  BY <1>1, <1>2 DEF DataChannelOnOpen, OnOpen, SignalReady
<1>3. CASE LaunchLoop
  BY <1>1, <1>3 DEF LaunchLoop
<1>4. CASE DataChannelOnClose
  <2>1. CASE at["dcClose"] = "stop"
    <3>1. StopForwarding("dcClose", "signal", "failed") /\ UNCHANGED readyCloses
      BY <1>4, <2>1 DEF DataChannelOnClose
    <3>2. state' \in Final
      BY <3>1, StopForwardingFinal DEF Final
    <3>3. QED
      BY <3>2 DEF Final
  <2>2. CASE at["dcClose"] = "signal"
    BY <1>1, <1>4, <2>2 DEF DataChannelOnClose, SignalReady
  <2>3. QED
    BY <1>4, <2>1, <2>2 DEF DataChannelOnClose
<1>5. CASE Loop
  BY <1>1, <1>5 DEF Loop, LoopCheck, AcceptFails, SetConnection, Resume
<1>6. CASE Accept \/ ServeEnds \/ ConnectWebRTC \/ AwaitReady \/ TakeCommand \/ RunEnds
  BY <1>1, <1>6 DEF Accept, ServeEnds, ConnectWebRTC, AwaitReady, TakeCommand, RunEnds
<1>7. ASSUME NEW g \in Goroutines \ {"dcOpen", "dcClose"}, NEW to, NEW final \in Final,
             StopForwarding(g, to, final), UNCHANGED readyCloses
      PROVE  Announced'
  <2>1. state' # "initializing"
    BY <1>7, StopForwardingFinal DEF Final
  <2>2. QED
    BY <2>1
<1>8. CASE MakeControlSocket
  <2>1. CASE GoOn("main", "run") /\ UNCHANGED forwarder
    BY <1>1, <1>8, <2>1 DEF MakeControlSocket
  <2>2. CASE StopForwarding("main", "error", "failed")
    BY <1>7, <1>8, <2>2 DEF MakeControlSocket, Final
  <2>3. QED
    BY <1>8, <2>1, <2>2 DEF MakeControlSocket
<1>9. CASE StopController
  <2>1. CASE at["main"] = "command"
    BY <1>7, <1>9, <2>1 DEF StopController, Final
  <2>2. CASE at["main"] = "close"
    BY <1>1, <1>9, <2>2 DEF StopController
  <2>3. QED
    BY <1>9, <2>1, <2>2 DEF StopController
<1>10. ASSUME NEW cb \in Observers, Observe(cb) PROVE Announced'
  <2>1. PICK final \in Final : StopForwarding(cb, "done", final) /\ UNCHANGED readyCloses
    BY <1>10 DEF Observe, Final
  <2>2. QED
    BY <1>7, <2>1
<1>11. ASSUME NEW cb \in Observers, PeerTells(cb) PROVE Announced'
  BY <1>1, <1>11 DEF PeerTells
<1>12. CASE PeerUp \/ DataChannelOpens \/ DataChannelCloses \/ UNCHANGED agentState
  BY <1>1, <1>12 DEF PeerUp, DataChannelOpens, DataChannelCloses, agentState
<1>13. QED
  BY <1>2, <1>3, <1>4, <1>5, <1>6, <1>8, <1>9, <1>10, <1>11, <1>12 DEF AgentNext

LEMMA MainInductive ==
    ASSUME AgentTypeOK, Coupled, MainInv, [AgentNext]_agentState
    PROVE  MainInv'
<1>1. state \in Final => state' \in Final
  BY StateForward
<1>2. readyCloses > 0 => readyCloses' > 0
  <2>1. readyCloses' = readyCloses \/ (\E g \in Goroutines : SignalReady(g))
    BY DEF AgentNext, DataChannelOnOpen, OnOpen, LaunchLoop, DataChannelOnClose, Loop,
           LoopCheck, AcceptFails, SetConnection, Resume, Accept, ServeEnds, ConnectWebRTC,
           AwaitReady, MakeControlSocket, TakeCommand, StopController, RunEnds, Observe,
           PeerTells, PeerUp, DataChannelOpens, DataChannelCloses, agentState, Goroutines
  <2>2. QED
    BY <2>1 DEF SignalReady, AgentTypeOK
<1> USE DEF AgentTypeOK, Goroutines, Observers, GoOn, MainInv
<1>3. CASE ~MainStep
  BY <1>1, <1>2, <1>3, OthersLeaveMain
<1>4. CASE ConnectWebRTC \/ AwaitReady \/ TakeCommand \/ RunEnds
  BY <1>1, <1>2, <1>4 DEF ConnectWebRTC, AwaitReady, TakeCommand, RunEnds
<1>5. CASE MakeControlSocket
  BY <1>1, <1>2, <1>5 DEF MakeControlSocket, StopForwarding, Final
<1>6. CASE StopController
  <2>1. CASE at["main"] = "command"
    <3>1. StopForwarding("main", "close", "stopped") /\ UNCHANGED control
      BY <1>6, <2>1 DEF StopController
    <3>2. state' \in Final
      BY <3>1, StopForwardingFinal DEF Final
    <3>3. at'["main"] = "close"
      BY <3>1 DEF StopForwarding
    <3>4. QED
      BY <1>2, <2>1, <3>1, <3>2, <3>3
  <2>2. CASE at["main"] = "close"
    BY <1>1, <1>2, <1>6, <2>2 DEF StopController
  <2>3. QED
    BY <1>6, <2>1, <2>2 DEF StopController
<1>7. QED
  BY <1>3, <1>4, <1>5, <1>6 DEF MainStep

LEMMA MainInvariant == AgentSpec => [](Announced /\ MainInv)
<1>1. AgentInit => Announced /\ MainInv
  BY DEF AgentInit, Announced, MainInv, Goroutines, Observers
<1>2. AgentTypeOK /\ Coupled /\ Announced /\ MainInv /\ [AgentNext]_agentState
        => Announced' /\ MainInv'
  BY AnnouncedInductive, MainInductive
<1>3. QED
  BY <1>1, <1>2, AgentTyping, CoupledInvariant, PTL DEF AgentSpec

(* Steps of the others: the forwarder opens, is lost, or shows no change. *)
LEMMA OthersLive ==
    ASSUME AgentTypeOK, Coupled, Announced, MainInv, [AgentNext]_agentState, ~MainStep
    PROVE  Contract!Open \/ Contract!Lose \/ UNCHANGED Contract!vars
<1>1. at'["main"] = at["main"] /\ control' = control
  BY OthersLeaveMain
<1>2. stage' = stage /\ Alive' = Alive
  BY <1>1 DEF stage, Alive
<1>3. /\ state \in Final => state' \in Final
      /\ state # "initializing" => state' # "initializing"
  BY StateForward
<1>4. CASE forwarding' = forwarding
  BY <1>1, <1>2, <1>4 DEF Contract!vars
<1>5. CASE forwarding' # forwarding
  <2>1. Alive /\ state \notin Final
    BY <1>2, <1>3, <1>5 DEF forwarding
  <2>2. stage \in {"connecting", "registering", "serving"}
    BY <2>1 DEF stage, Alive, MainInv, AgentTypeOK
  <2>3. CASE state' \in Final
    BY <1>1, <1>2, <2>2, <2>3 DEF Contract!Lose, forwarding
  <2>4. CASE state' \notin Final
    <3>1. state = "initializing" /\ state' # "initializing"
      BY <1>2, <1>3, <1>5, <2>1, <2>4 DEF forwarding
    <3>2. stage = "connecting"
      BY <2>1, <3>1 DEF stage, Alive, MainInv, Announced, AgentTypeOK
    <3>3. QED
      BY <1>1, <1>2, <2>1, <2>4, <3>1, <3>2 DEF Contract!Open, forwarding
  <2>5. QED
    BY <2>3, <2>4
<1>6. QED
  BY <1>4, <1>5

(* The steps of main go from one stage to the next. *)
LEMMA MainLives ==
    ASSUME AgentTypeOK, Coupled, Announced, MainInv, AgentNext, MainStep
    PROVE  [Contract!Next]_Contract!vars
<1> USE DEF Contract!Next, AgentTypeOK, Goroutines, Observers, GoOn
<1>1. CASE ConnectWebRTC
  <2>1. at["main"] = "connect" /\ control = "none" /\ UNCHANGED <<state, control>>
    BY <1>1 DEF ConnectWebRTC, MainInv, forwarder
  <2>2. CASE at'["main"] = "await"
    BY <2>1, <2>2 DEF Contract!vars, stage, forwarding, Alive
  <2>3. CASE at'["main"] = "error"
    BY <2>1, <2>3 DEF Contract!GiveUp, stage, forwarding, Alive
  <2>4. QED
    BY <1>1, <2>2, <2>3 DEF ConnectWebRTC
<1>2. CASE AwaitReady
  <2>1. /\ at["main"] = "await" /\ at'["main"] = "socket" /\ readyCloses > 0
        /\ UNCHANGED <<state, control>>
    BY <1>2 DEF AwaitReady, forwarder
  <2>2. state # "initializing"
    BY <2>1 DEF Announced
  <2>3. Contract!Ready
    BY <2>1, <2>2 DEF Contract!Ready, stage, forwarding, Alive
  <2>4. QED
    BY <2>3
<1>3. CASE MakeControlSocket
  <2>1. at["main"] = "socket" /\ control = "none"
    BY <1>3 DEF MakeControlSocket, MainInv
  <2>2. CASE control' = "open" /\ GoOn("main", "run") /\ UNCHANGED forwarder
    <3>1. Contract!Register
      BY <2>1, <2>2 DEF Contract!Register, stage, forwarding, Alive, forwarder
    <3>2. QED
      BY <3>1
  <2>3. CASE StopForwarding("main", "error", "failed") /\ UNCHANGED control
    <3>1. at'["main"] = "error"
      BY <2>3 DEF StopForwarding
    <3>2. Contract!GiveUp
      BY <2>1, <2>3, <3>1 DEF Contract!GiveUp, stage, forwarding, Alive
    <3>3. QED
      BY <3>2
  <2>4. QED
    BY <1>3, <2>2, <2>3 DEF MakeControlSocket
<1>4. CASE TakeCommand
  <2>1. /\ at["main"] = "run" /\ at'["main"] = "command" /\ control = "open"
        /\ UNCHANGED <<state, control>>
    BY <1>4 DEF TakeCommand, forwarder
  <2>2. QED
    BY <2>1 DEF Contract!vars, stage, forwarding, Alive
<1>5. CASE StopController
  <2>1. CASE at["main"] = "command"
    <3>1. StopForwarding("main", "close", "stopped") /\ UNCHANGED control
      BY <1>5, <2>1 DEF StopController
    <3>2. at'["main"] = "close" /\ control = "open"
      BY <2>1, <3>1 DEF StopForwarding, MainInv
    <3>3. state' \in Final
      BY <3>1, StopForwardingFinal DEF Final
    <3>4. Contract!Stop
      BY <2>1, <3>1, <3>2, <3>3 DEF Contract!Stop, stage, forwarding, Alive
    <3>5. QED
      BY <3>4
  <2>2. CASE at["main"] = "close"
    <3>1. /\ at'["main"] = "run" /\ control = "open" /\ control' = "closed"
          /\ state \in Final /\ UNCHANGED state
      BY <1>5, <2>2 DEF StopController, MainInv, forwarder
    <3>2. Contract!Exit
      BY <2>2, <3>1 DEF Contract!Exit, stage, forwarding, Alive
    <3>3. QED
      BY <3>2
  <2>3. QED
    BY <1>5, <2>1, <2>2 DEF StopController
<1>6. CASE RunEnds
  <2>1. /\ at["main"] = "run" /\ at'["main"] = "exited" /\ control = "closed"
        /\ state \in Final /\ UNCHANGED <<state, control>>
    BY <1>6 DEF RunEnds, MainInv, forwarder
  <2>2. QED
    BY <2>1 DEF Contract!vars, stage, forwarding, Alive
<1>7. QED
  BY <1>1, <1>2, <1>3, <1>4, <1>5, <1>6 DEF MainStep

(* The goroutines of an agent, interleaved in any way, implement AgentLife:  *)
(* so what the commands and the other agents count on holds of the code.    *)
THEOREM AgentKeepsContract == AgentSpec => KeepsContract
<1>1. AgentInit => Contract!Init
  BY DEF AgentInit, Contract!Init, stage, forwarding, Alive, Goroutines, Observers, Final
<1>2. AgentTypeOK /\ Coupled /\ Announced /\ MainInv /\ [AgentNext]_agentState
        => [Contract!Next]_Contract!vars
  <2> SUFFICES ASSUME AgentTypeOK, Coupled, Announced, MainInv, [AgentNext]_agentState
               PROVE  [Contract!Next]_Contract!vars
    OBVIOUS
  <2>1. CASE ~MainStep
    BY <2>1, OthersLive DEF Contract!Next
  <2>2. CASE MainStep /\ AgentNext
    BY <2>2, MainLives
  <2>3. CASE UNCHANGED agentState
    BY <2>3 DEF agentState, forwarder, Contract!vars, stage, forwarding, Alive
  <2>4. QED
    BY <2>1, <2>2, <2>3
<1>3. QED
  BY <1>1, <1>2, AgentTyping, CoupledInvariant, MainInvariant, PTL
     DEF AgentSpec, KeepsContract, Contract!Spec

(* No interleaving of the loop with the handlers brings a stopped or failed *)
(* forwarder back.                                                          *)
THEOREM FinalIsFinal == AgentSpec => FinalStays
<1>1. AgentTypeOK /\ Coupled /\ [AgentNext]_agentState
        => [(state \in Final) => (state' \in Final)]_agentState
  BY StateForward
<1>2. QED
  BY <1>1, AgentTyping, CoupledInvariant, PTL DEF AgentSpec, FinalStays

-----------------------------------------------------------------------------
(* What AgentEnds and ToldStops rest on *)

(* Once the data channel has opened, readyCh is closed, or a handler that   *)
(* has yet to close it is under way.                                        *)
Answered ==
    at["dcOpen"] # "off" =>
        \/ readyCloses > 0
        \/ at["dcOpen"] = "swap" /\ state = "initializing"
        \/ at["dcOpen"] \in {"launch", "signal"}
        \/ at["dcClose"] \in {"stop", "signal"}

(* The channel does not open once forwarding stopped, and does not close    *)
(* without its handler.                                                     *)
AnsweredInv ==
    /\ Answered
    /\ dc = "connecting" => state = "initializing"
    /\ at["dcOpen"] # "off" /\ dc = "closed" =>
          readyCloses > 0 \/ at["dcClose"] \in {"stop", "signal"}

LEMMA AnsweredUnchanged ==
    ASSUME AnsweredInv, UNCHANGED <<state, dc, readyCloses>>,
           at'["dcOpen"] = at["dcOpen"], at'["dcClose"] = at["dcClose"]
    PROVE  AnsweredInv'
BY DEF AnsweredInv, Answered

LEMMA StopForwardingAnswered ==
    ASSUME AgentTypeOK, Coupled, AnsweredInv, NEW g \in Goroutines \ {"dcOpen"}, NEW to,
           NEW final \in Final, StopForwarding(g, to, final), UNCHANGED readyCloses,
           g = "dcClose" => to \in {"stop", "signal"}
    PROVE  AnsweredInv'
<1> USE DEF Goroutines, Observers
<1>1. at'["dcOpen"] = at["dcOpen"]
  BY DEF StopForwarding, GoOn, AgentTypeOK
<1>2. at["dcClose"] \in {"stop", "signal"} => at'["dcClose"] \in {"stop", "signal"}
  BY DEF StopForwarding, GoOn, AgentTypeOK
<1>3. CASE state = final
  BY <1>1, <1>2, <1>3 DEF StopForwarding, forwarder, AnsweredInv, Answered
<1>4. CASE state # final
  <2>1. dc' = "closed"
    BY <1>4 DEF StopForwarding
  <2>2. dc = "open" => at'["dcClose"] = "stop"
    BY <1>4 DEF StopForwarding, AgentTypeOK
  <2>3. dc = "connecting" => at["dcOpen"] = "off"
    BY DEF Coupled
  <2>4. QED
    BY <1>1, <1>2, <2>1, <2>2, <2>3 DEF AnsweredInv, Answered, AgentTypeOK
<1>5. QED
  BY <1>3, <1>4

LEMMA AnsweredInductive ==
    ASSUME AgentTypeOK, Coupled, AnsweredInv, [AgentNext]_agentState
    PROVE  AnsweredInv'
<1> USE DEF Goroutines, Observers
<1>1. CASE DataChannelOnOpen
  BY <1>1 DEF DataChannelOnOpen, OnOpen, SignalReady, GoOn, AgentTypeOK, Coupled, AnsweredInv,
              Answered
<1>2. CASE LaunchLoop
  BY <1>2 DEF LaunchLoop, forwarder, AgentTypeOK, AnsweredInv, Answered
<1>3. CASE DataChannelOnClose
  <2>1. CASE at["dcClose"] = "stop"
    BY <1>3, <2>1, StopForwardingAnswered DEF DataChannelOnClose, Final
  <2>2. CASE at["dcClose"] = "signal"
    <3>1. readyCloses' > 0 /\ at'["dcOpen"] = at["dcOpen"] /\ UNCHANGED <<state, dc>>
      BY <1>3, <2>2 DEF DataChannelOnClose, SignalReady, GoOn, AgentTypeOK, forwarder
    <3>2. QED
      BY <3>1 DEF AnsweredInv, Answered
  <2>3. QED
    BY <1>3, <2>1, <2>2 DEF DataChannelOnClose
<1>4. CASE Loop \/ Accept \/ ServeEnds
  <2>1. /\ at'["dcOpen"] = at["dcOpen"] /\ at'["dcClose"] = at["dcClose"]
        /\ UNCHANGED <<dc, readyCloses>>
    BY <1>4 DEF Loop, LoopCheck, AcceptFails, SetConnection, Resume, Accept, ServeEnds, GoOn,
                forwarder, AgentTypeOK
  <2>2. at["loop"] = "off" => FALSE
    BY <1>4 DEF Loop, LoopCheck, AcceptFails, SetConnection, Resume, Accept, ServeEnds
  <2>3. state # "initializing" /\ dc # "connecting"
    BY <2>2 DEF Coupled, AnsweredInv
  <2>4. QED
    BY <2>1, <2>3 DEF AnsweredInv, Answered
<1>5. CASE ConnectWebRTC \/ AwaitReady \/ TakeCommand \/ RunEnds
  BY <1>5, AnsweredUnchanged
     DEF ConnectWebRTC, AwaitReady, TakeCommand, RunEnds, GoOn, forwarder, AgentTypeOK
<1>6. CASE MakeControlSocket
  <2>1. CASE control' = "open" /\ GoOn("main", "run") /\ UNCHANGED <<forwarder, dc, peer>>
    BY <1>6, <2>1, AnsweredUnchanged DEF MakeControlSocket, GoOn, forwarder, AgentTypeOK
  <2>2. CASE StopForwarding("main", "error", "failed")
    BY <1>6, <2>2, StopForwardingAnswered DEF MakeControlSocket, Final
  <2>3. QED
    BY <1>6, <2>1, <2>2 DEF MakeControlSocket
<1>7. CASE StopController
  <2>1. CASE at["main"] = "command"
    BY <1>7, <2>1, StopForwardingAnswered DEF StopController, Final
  <2>2. CASE at["main"] = "close"
    BY <1>7, <2>2, AnsweredUnchanged DEF StopController, GoOn, forwarder, AgentTypeOK
  <2>3. QED
    BY <1>7, <2>1, <2>2 DEF StopController
<1>8. ASSUME NEW cb \in Observers, Observe(cb) PROVE AnsweredInv'
  <2>1. PICK final \in Final : StopForwarding(cb, "done", final)
    BY <1>8 DEF Observe, Final
  <2>2. QED
    BY <1>8, <2>1, StopForwardingAnswered DEF Observe
<1>9. ASSUME NEW cb \in Observers, PeerTells(cb) PROVE AnsweredInv'
  BY <1>9, AnsweredUnchanged DEF PeerTells, GoOn, forwarder, AgentTypeOK
<1>10. CASE PeerUp
  BY <1>10, AnsweredUnchanged DEF PeerUp, forwarder
<1>11. CASE DataChannelOpens
  BY <1>11 DEF DataChannelOpens, GoOn, forwarder, AgentTypeOK, AnsweredInv, Answered
<1>12. CASE DataChannelCloses
  BY <1>12 DEF DataChannelCloses, GoOn, forwarder, AgentTypeOK, AnsweredInv, Answered
<1>13. CASE UNCHANGED agentState
  BY <1>13, AnsweredUnchanged DEF agentState, forwarder
<1>14. QED
  BY <1>1, <1>2, <1>3, <1>4, <1>5, <1>6, <1>7, <1>8, <1>9, <1>10, <1>11, <1>12, <1>13
     DEF AgentNext

(* NewConnController does not wait for a channel that nobody will close:    *)
(* once the data channel opened, whichever of its handlers finds the        *)
(* forwarder stopped before it ran, readyCh is closed or about to be.       *)
THEOREM OpenedIsAnswered == AgentSpec => []Answered
<1>1. AgentInit => AnsweredInv
  BY DEF AgentInit, AnsweredInv, Answered, Goroutines, Observers
<1>2. AgentTypeOK /\ Coupled /\ AnsweredInv /\ [AgentNext]_agentState => AnsweredInv'
  BY AnsweredInductive
<1>3. AnsweredInv => Answered
  BY DEF AnsweredInv
<1>4. QED
  BY <1>1, <1>2, <1>3, AgentTyping, CoupledInvariant, PTL DEF AgentSpec

(* Who was told to stop has its socket and comes to its control loop, or is *)
(* beyond it.                                                               *)
ToldCanStop ==
    \A a \in Agents : asked[a] => pc[a] \in {"registered", "running", "stopping"} \/ Gone(a)

LEMMA ToldInductive ==
    ASSUME TypeOK, SocketInv, ToldCanStop, [Next]_vars
    PROVE  ToldCanStop'
<1> USE AgentFleetAssumption DEF AgentFleetAssumption, Procs, Go, agentVars, scanVars, TypeOK, Gone
<1>1. ASSUME UNCHANGED asked,
             \A a \in Agents :
                pc[a] \in {"registered", "running", "stopping", "exited", "killed"} =>
                   pc'[a] \in {"registered", "running", "stopping", "exited", "killed"}
      PROVE  ToldCanStop'
  BY <1>1 DEF ToldCanStop
<1>2. ASSUME NEW p \in Procs, Scan(p) PROVE ToldCanStop'
  BY <1>1, <1>2 DEF Scan, ReadDir, Contact
<1>3. ASSUME NEW a \in Agents, StartAgent(a) \/ FindOrConnect(a) \/ Connect(a) PROVE ToldCanStop'
  BY <1>1, <1>3 DEF StartAgent, FindOrConnect, Connect
<1>4. ASSUME NEW a \in Agents, CreateControlSocket(a) \/ Run(a) \/ Stop(a) \/ Exit(a)
      PROVE  ToldCanStop'
  BY <1>1, <1>4 DEF CreateControlSocket, Run, Stop, Exit
<1>5. ASSUME NEW a \in Agents, Lose(a) \/ Kill(a) PROVE ToldCanStop'
  BY <1>1, <1>5 DEF Lose, Kill
<1>6. ASSUME NEW c \in Commands, StartCommand(c) \/ Choose(c) \/ Finish(c) PROVE ToldCanStop'
  BY <1>1, <1>6 DEF StartCommand, Choose, Finish
<1>7. ASSUME NEW c \in Commands, DisconnectCVD(c) PROVE ToldCanStop'
  <2>1. PICK q \in Ports :
            \/ \E a \in Agents : Owns(a, q) /\ asked' = [asked EXCEPT ![a] = TRUE]
            \/ UNCHANGED asked
    BY <1>7 DEF DisconnectCVD
  <2>2. UNCHANGED pc
    BY <1>7 DEF DisconnectCVD
  <2>3. QED
    BY <2>1, <2>2 DEF ToldCanStop, SocketInv
<1>8. CASE UNCHANGED vars
  BY <1>1, <1>8 DEF vars
<1>9. QED
  BY <1>2, <1>3, <1>4, <1>5, <1>6, <1>7, <1>8 DEF Next, Serve, Command

(* A stop command finds an agent that will take it, or has ended: the port  *)
(* in a listing may be an old one, but its socket is not that of an agent   *)
(* still connecting.                                                        *)
THEOREM ToldIsHeard == Spec => []ToldCanStop
<1>1. Init => ToldCanStop
  BY DEF Init, ToldCanStop
<1>2. TypeOK /\ SocketInv /\ ToldCanStop /\ [Next]_vars => ToldCanStop'
  BY ToldInductive
<1>3. QED
  BY <1>1, <1>2, Typing, SocketInvariant, PTL DEF Spec

=============================================================================
