---------------------------- MODULE DeviceCommands ----------------------------
(***************************************************************************)
(* The commands cvdr create and cvdr connect (pkg/cli/cli.go, cvd.go), run  *)
(* as processes of one user, and the requests they make of the hosts       *)
(* (pkg/client/client.go).                                                 *)
(*                                                                         *)
(* create makes a host unless it is given one, brings the artifacts to it  *)
(* by a chunked upload or by having it fetch a build, starts the devices   *)
(* and connects to them one after the other.  connect finds the user's     *)
(* devices, a goroutine per host, leaves out the connected ones, and       *)
(* connects to all the others at the same time.                            *)
(*                                                                         *)
(* A request that failed may still be carried out, once, by the host       *)
(* orchestrator behind the reverse proxy: now or later.  What a host       *)
(* carries out is an operation, a fetch, an upload directory or the start  *)
(* of a group of devices.                                                  *)
(***************************************************************************)
EXTENDS Integers, Sequences, FiniteSets, FiniteSetsExt

CONSTANTS
    Creates,        \* bound: the create commands
    Connects,       \* bound: the connect commands
    Hosts,          \* bound: the hosts there can be, in the order of a listing
    Devices,        \* bound: the devices there can be, in the order of a listing
    FirstHosts,     \* the hosts there are at first
    FirstDevices,   \* the devices there are at first, and their hosts
    Doomed,         \* the hosts that can go away
    NumInstances,   \* the devices of one create command
    RetryAttempts,
    MaxOps          \* bound: the operations the hosts carry out

ASSUME DeviceCommandsAssumption ==
    /\ Creates \cap Connects = {}
    /\ Hosts \subseteq Nat \ {0} /\ Devices \subseteq Nat \ {0}
    /\ FirstHosts \subseteq Hosts /\ Doomed \subseteq Hosts
    /\ DOMAIN FirstDevices \subseteq Devices
    /\ \A d \in DOMAIN FirstDevices : FirstDevices[d] \in FirstHosts
    /\ NumInstances \in Nat \ {0} /\ RetryAttempts \in Nat /\ MaxOps \in Nat

Procs == Creates \cup Connects

VARIABLES
    pc,         \* where each command is
    source,     \* what a create command starts devices from
    host,       \* its host, 0 before it has one
    tries,      \* the retries of the request it makes
    artifacts,  \* the operation that brought the artifacts, 0 for none
    op,         \* the operation it waits for
    hosts,      \* the hosts that are up
    made,       \* the hosts that ever were
    ops,        \* the operations of the hosts, in the order they were taken up
    late,       \* requests that failed and may still be carried out
    home,       \* the host a device runs on, 0 for none
    started,    \* the operation that started it, 0 for none
    agents,     \* the devices whose connection agent serves
    lister,     \* connect's goroutine for a host
    found,      \* what that goroutine found
    listed,     \* what connect received of them
    statuses,   \* the connections connect found
    merr,       \* an error is to be returned in the end
    steady,     \* the devices that have run without a connection ever since
    work,       \* the devices a command connects to
    conn,       \* the goroutine, or the call, that connects to one
    reported,   \* what the command says of one
    result      \* "ok" or "error" once the command has ended

createVars  == <<source, host, tries, artifacts, op>>
hostVars    == <<hosts, made, ops, late, home, started>>
listVars    == <<lister, found, listed, statuses, steady>>
connectVars == <<work, conn, reported>>
vars == <<pc, createVars, hostVars, agents, listVars, merr, connectVars, result>>

Go(p, to) == pc' = [pc EXCEPT ![p] = to]
Return(p, what) == Go(p, "done") /\ result' = [result EXCEPT ![p] = what]

Running == {d \in Devices : home[d] # 0}
On(h)   == {d \in Devices : home[d] = h}

-----------------------------------------------------------------------------
(* doRequest, for the requests that change something on a host *)

Kind ==
    [fetch |-> "fetch", createUpload |-> "upload", start |-> "devices"]

(* The request a command makes at a call; the try tells it from its retries.*)
Request(p) ==
    [by |-> p, kind |-> Kind[pc[p]], host |-> host[p],
     from |-> IF pc[p] = "start" THEN artifacts[p] ELSE 0, try |-> tries[p]]

(* The host takes up a request. *)
TakeUp(r) ==
    /\ Len(ops) < MaxOps
    /\ r.host \in hosts
    /\ ops' = Append(ops, [by |-> r.by, kind |-> r.kind, host |-> r.host,
                           from |-> r.from, state |-> "running"])

(* Mutant of Unanswered: the first request is not counted. *)
UnansweredOnceMore(p) ==
    /\ pc[p] \in DOMAIN Kind
    /\ late' \in {late, late \cup {Request(p)}}
    /\ \/ /\ tries[p] <= RetryAttempts
          /\ tries' = [tries EXCEPT ![p] = @ + 1]
          /\ UNCHANGED <<pc, result>>
       \/ Return(p, "error") /\ UNCHANGED tries
    /\ UNCHANGED <<source, host, artifacts, op, hosts, made, ops, home, started,
                   agents, listVars, merr, connectVars>>

(* No answer, an error, or 502 and 503 once too often: the command ends.    *)
(* Before that, 502 and 503 make it send the request again.  The requests   *)
(* of the other calls fail without a trace.                                *)
Unanswered(p) ==
    /\ pc[p] \in DOMAIN Kind \cup {"createHost", "uploadFiles", "wait"}
    /\ IF pc[p] \in DOMAIN Kind
       THEN late' \in {late, late \cup {Request(p)}}
       ELSE UNCHANGED late
    /\ \/ /\ pc[p] \in DOMAIN Kind \cup {"wait"}
          /\ tries[p] < RetryAttempts
          /\ tries' = [tries EXCEPT ![p] = @ + 1]
          /\ UNCHANGED <<pc, result>>
       \/ Return(p, "error") /\ UNCHANGED tries
    /\ UNCHANGED <<source, host, artifacts, op, hosts, made, ops, home, started,
                   agents, listVars, merr, connectVars>>

TakeUpLate ==
    /\ \E r \in late : TakeUp(r) /\ late' = late \ {r}
    /\ UNCHANGED <<pc, createVars, hosts, made, home, started, agents, listVars,
                   merr, connectVars, result>>

-----------------------------------------------------------------------------
(* create *)

FirstCall(src) ==
    CASE src = "local" -> "createUpload"
      [] src = "build" -> "fetch"
      [] src = "config" -> "start"

(* runCreateCVDCommand and createCVDFromLocalBuild look at the flags, the   *)
(* configuration and the local files first, and may turn them down.        *)
StartCreate(p) ==
    /\ pc[p] = "idle"
    /\ \/ \E src \in {"local", "build", "config"}, h \in hosts \cup {0} :
            /\ source' = [source EXCEPT ![p] = src]
            /\ host' = [host EXCEPT ![p] = h]
            /\ Go(p, IF h = 0 THEN "createHost" ELSE FirstCall(src))
            /\ UNCHANGED result
       \/ Return(p, "error") /\ UNCHANGED <<source, host>>
    /\ UNCHANGED <<tries, artifacts, op, hostVars, agents, listVars, merr,
                   connectVars>>

(* createHost; when it fails a host may have come up all the same. *)
CreateHost(p) ==
    /\ pc[p] = "createHost"
    /\ \E h \in Hosts \ made :
        /\ h = Min(Hosts \ made)
        /\ hosts' = hosts \cup {h}
        /\ made' = made \cup {h}
        /\ \/ /\ host' = [host EXCEPT ![p] = h]
              /\ Go(p, FirstCall(source[p]))
              /\ UNCHANGED result
           \/ Return(p, "error") /\ UNCHANGED host
    /\ UNCHANGED <<source, tries, artifacts, op, ops, late, home, started, agents,
                   listVars, merr, connectVars>>

(* CreateUpload, and the first request of FetchArtifacts and CreateCVD: the *)
(* host answers with the directory or the operation.                       *)
Post(p) ==
    /\ pc[p] \in DOMAIN Kind
    /\ TakeUp(Request(p))
    /\ op' = [op EXCEPT ![p] = Len(ops) + 1]
    /\ tries' = [tries EXCEPT ![p] = 0]
    /\ Go(p, IF pc[p] = "createUpload" THEN "uploadFiles" ELSE "wait")
    /\ UNCHANGED <<source, host, artifacts, hosts, made, late, home, started,
                   agents, listVars, merr, connectVars, result>>

(* UploadFiles returns no error: every chunk is stored (Uploader).         *)
UploadFiles(p) ==
    /\ pc[p] = "uploadFiles"
    /\ host[p] \in hosts
    /\ ops' = [ops EXCEPT ![op[p]].state = "done"]
    /\ artifacts' = [artifacts EXCEPT ![p] = op[p]]
    /\ Go(p, "start")
    /\ UNCHANGED <<source, host, tries, op, hosts, made, late, home, started,
                   agents, listVars, merr, connectVars, result>>

Connecting(p, devices) ==
    /\ work' = [work EXCEPT ![p] = devices]
    /\ Go(p, "connect")

(* Mutant of Wait: the end of the operation is not waited for. *)
WaitNot(p) ==
    /\ pc[p] = "wait"
    /\ host[p] \in hosts
    /\ tries' = [tries EXCEPT ![p] = 0]
    /\ \/ /\ ops[op[p]].kind = "fetch"
          /\ artifacts' = [artifacts EXCEPT ![p] = op[p]]
          /\ Go(p, "start")
          /\ UNCHANGED <<work, result>>
       \/ /\ ops[op[p]].kind = "devices"
          /\ Connecting(p, {d \in Devices : started[d] = op[p]})
          /\ UNCHANGED <<artifacts, result>>
    /\ UNCHANGED <<source, host, op, hostVars, agents, listVars, merr, conn,
                   reported>>

(* The second request, :wait, answers when the operation has ended, with    *)
(* its result or its error.                                                *)
Wait(p) ==
    /\ pc[p] = "wait"
    /\ host[p] \in hosts
    /\ tries' = [tries EXCEPT ![p] = 0]
    /\ \/ /\ ops[op[p]].state = "done" /\ ops[op[p]].kind = "fetch"
          /\ artifacts' = [artifacts EXCEPT ![p] = op[p]]
          /\ Go(p, "start")
          /\ UNCHANGED <<work, result>>
       \/ /\ ops[op[p]].state = "done" /\ ops[op[p]].kind = "devices"
          /\ Connecting(p, {d \in Devices : started[d] = op[p]})
          /\ UNCHANGED <<artifacts, result>>
       \/ /\ ops[op[p]].state = "failed"
          /\ Return(p, "error")
          /\ UNCHANGED <<artifacts, work>>
    /\ UNCHANGED <<source, host, op, hostVars, agents, listVars, merr, conn,
                   reported>>

-----------------------------------------------------------------------------
(* connect: finding the devices *)

(* The devices are named in the arguments, with their host; or they are     *)
(* looked for.  Looked for on one host they are never found: listHostCVDs   *)
(* is called with the host and the control directory exchanged.            *)
StartConnect(p) ==
    /\ pc[p] = "idle"
    /\ \/ /\ Return(p, "error")
          /\ UNCHANGED work
       \/ /\ \E h \in hosts : \E devices \in SUBSET On(h) \ {{}} :
                Connecting(p, devices)
          /\ UNCHANGED result
       \/ /\ Go(p, "listHosts")
          /\ UNCHANGED <<work, result>>
    /\ UNCHANGED <<createVars, hostVars, agents, listVars, merr, conn, reported>>

(* listAllCVDs: the hosts, then the connections, of which some socket may   *)
(* not answer; then a goroutine is started for each host.                  *)
ListHosts(p) ==
    /\ pc[p] = "listHosts"
    /\ \/ /\ lister' = [lister EXCEPT ![p] =
                            [h \in Hosts |-> IF h \in hosts THEN "asking" ELSE "none"]]
          /\ steady' = [steady EXCEPT ![p] = Running \ agents]
          /\ Go(p, "statuses")
          /\ UNCHANGED result
       \/ Return(p, "error") /\ UNCHANGED <<lister, steady>>
    /\ UNCHANGED <<createVars, hostVars, agents, found, listed, statuses, merr,
                   connectVars>>

ListConnections(p) ==
    /\ pc[p] = "statuses"
    /\ statuses' = [statuses EXCEPT ![p] = agents]
    /\ \E failed \in BOOLEAN : merr' = [merr EXCEPT ![p] = failed]
    /\ Go(p, "collect")
    /\ UNCHANGED <<createVars, hostVars, agents, lister, found, listed, steady,
                   connectVars, result>>

(* Mutant of ListCVDs: the goroutines share the loop's variable, which      *)
(* names the last host by the time they run.                               *)
ListCVDsOfLast(p, h) ==
    /\ pc[p] = "collect"
    /\ lister[p][h] = "asking"
    /\ LET last == Max({x \in Hosts : lister[p][x] # "none"})
       IN  /\ last \in hosts
           /\ lister' = [lister EXCEPT ![p][h] = "found"]
           /\ found' = [found EXCEPT ![p][h] = On(last)]
    /\ UNCHANGED <<pc, createVars, hostVars, agents, listed, statuses, merr, steady,
                   connectVars, result>>

(* listHostCVDsInner *)
ListCVDs(p, h) ==
    /\ pc[p] = "collect"
    /\ lister[p][h] = "asking"
    /\ \/ /\ h \in hosts
          /\ lister' = [lister EXCEPT ![p][h] = "found"]
          /\ found' = [found EXCEPT ![p][h] = On(h)]
       \/ /\ lister' = [lister EXCEPT ![p][h] = "failed"]
          /\ UNCHANGED found
    /\ UNCHANGED <<pc, createVars, hostVars, agents, listed, statuses, merr, steady,
                   connectVars, result>>

Uncollected(p) == {h \in Hosts : lister[p][h] \in {"asking", "found", "failed"}}

(* The results are received host by host; each ends its goroutine. *)
Collect(p) ==
    /\ pc[p] = "collect"
    /\ Uncollected(p) # {}
    /\ LET h == Min(Uncollected(p))
       IN  /\ lister[p][h] # "asking"
           /\ lister' = [lister EXCEPT ![p][h] = "ended"]
           /\ listed' = [listed EXCEPT ![p] = @ \cup found[p][h]]
           /\ merr' = [merr EXCEPT ![p] = @ \/ lister[p][h] = "failed"]
    /\ UNCHANGED <<pc, createVars, hostVars, agents, found, statuses, steady,
                   connectVars, result>>

(* An error of any part ends the command.  The user may be asked to choose, *)
(* one device or all, and the answer may not be readable.  The rest of what *)
(* was found is forgotten.                                                 *)
Choose(p) ==
    /\ pc[p] = "collect"
    /\ Uncollected(p) = {}
    /\ LET offered == listed[p] \ statuses[p]
       IN  \/ /\ ~merr[p]
              /\ \E devices \in {offered} \cup {{d} : d \in offered} :
                    Connecting(p, devices)
              /\ UNCHANGED result
           \/ /\ merr[p] \/ Cardinality(offered) > 1
              /\ Return(p, "error")
              /\ UNCHANGED work
    /\ lister' = [lister EXCEPT ![p] = [h \in Hosts |-> "none"]]
    /\ found' = [found EXCEPT ![p] = [h \in Hosts |-> {}]]
    /\ listed' = [listed EXCEPT ![p] = {}]
    /\ statuses' = [statuses EXCEPT ![p] = {}]
    /\ steady' = [steady EXCEPT ![p] = {}]
    /\ UNCHANGED <<createVars, hostVars, agents, merr, conn, reported>>

-----------------------------------------------------------------------------
(* Connecting to the devices *)

Unreported(p) == {d \in work[p] : reported[p][d] = "nothing"}

(* The agent process is started: by connect for every device at once, by    *)
(* create when the device before is connected or failed to be.             *)
StartAgent(p) ==
    /\ pc[p] = "connect"
    /\ LET new == {d \in work[p] : conn[p][d] = "none"}
           now == IF p \in Connects THEN new ELSE {d \in new : d = Min(Unreported(p))}
       IN  /\ now # {}
           /\ conn' = [conn EXCEPT ![p] =
                           [d \in Devices |-> IF d \in now THEN "starting" ELSE @[d]]]
    /\ UNCHANGED <<pc, createVars, hostVars, agents, listVars, merr, work, reported,
                   result>>

(* ConnectDevice returns: the agent found a connection or made one and      *)
(* printed its status, or it ended without.                                *)
AgentAnswers(p, d) ==
    /\ conn[p][d] = "starting"
    /\ \/ /\ home[d] # 0 \/ d \in agents
          /\ agents' = agents \cup {d}
          /\ conn' = [conn EXCEPT ![p][d] = "status"]
          /\ steady' = [k \in Connects |-> steady[k] \ {d}]
       \/ /\ conn' = [conn EXCEPT ![p][d] = "error"]
          /\ UNCHANGED <<agents, steady>>
    /\ UNCHANGED <<pc, createVars, hostVars, lister, found, listed, statuses, merr,
                   work, reported, result>>

(* Mutant of Received: with buffered channels the goroutine has closed the  *)
(* other channel by now, and the select may take that one.                 *)
ReceivedOrClosed(p, d) ==
    IF conn[p][d] = "status" THEN {"status", "error"} ELSE {conn[p][d]} \cap {"error"}

(* Mutant of Received: a goroutine whose agent failed sends nothing.        *)
ReceivedStatus(p, d) == {conn[p][d]} \cap {"status"}

(* What the select on the two channels of a goroutine can take: they are    *)
(* unbuffered, and none is closed before the send is over.                 *)
Received(p, d) == {conn[p][d]} \cap {"status", "error"}

(* The command takes the devices one by one and reports each. *)
Report(p) ==
    /\ pc[p] = "connect"
    /\ Unreported(p) # {}
    /\ LET d == Min(Unreported(p))
       IN  \E what \in Received(p, d) :
             /\ reported' = [reported EXCEPT ![p][d] = what]
             /\ merr' = [merr EXCEPT ![p] = @ \/ what = "error"]
    /\ UNCHANGED <<pc, createVars, hostVars, agents, listVars, work, conn, result>>

Finish(p) ==
    /\ pc[p] = "connect"
    /\ Unreported(p) = {}
    /\ Return(p, IF merr[p] THEN "error" ELSE "ok")
    /\ UNCHANGED <<createVars, hostVars, agents, listVars, merr, connectVars>>

-----------------------------------------------------------------------------
(* The hosts and the agents *)

(* An operation ends; the devices of a group start together. *)
OperationEnds(o) ==
    /\ ops[o].state = "running" /\ ops[o].kind # "upload"
    /\ ops[o].host \in hosts
    /\ \/ /\ ops' = [ops EXCEPT ![o].state = "failed"]
          /\ UNCHANGED <<home, started>>
       \/ /\ ops' = [ops EXCEPT ![o].state = "done"]
          /\ ops[o].kind = "fetch"
          /\ UNCHANGED <<home, started>>
       \/ /\ ops' = [ops EXCEPT ![o].state = "done"]
          /\ ops[o].kind = "devices"
          /\ LET free == {d \in Devices \ DOMAIN FirstDevices : started[d] = 0}
                 group == {d \in free : Cardinality({x \in free : x <= d}) <= NumInstances}
             IN  /\ Cardinality(group) = NumInstances
                 /\ home' = [d \in Devices |-> IF d \in group THEN ops[o].host ELSE home[d]]
                 /\ started' = [d \in Devices |-> IF d \in group THEN o ELSE started[d]]
    /\ UNCHANGED <<pc, createVars, hosts, made, late, agents, listVars, merr,
                   connectVars, result>>

(* A host is deleted, with its devices; their agents stay. *)
HostGoes(h) ==
    /\ hosts' = hosts \ {h}
    /\ home' = [d \in Devices |-> IF home[d] = h THEN 0 ELSE home[d]]
    /\ steady' = [k \in Connects |-> steady[k] \ On(h)]
    /\ UNCHANGED <<pc, createVars, made, ops, late, started, agents, lister, found,
                   listed, statuses, merr, connectVars, result>>

-----------------------------------------------------------------------------
Init ==
    /\ pc = [p \in Procs |-> "idle"]
    /\ source = [p \in Creates |-> "none"]
    /\ host = [p \in Creates |-> 0]
    /\ tries = [p \in Creates |-> 0]
    /\ artifacts = [p \in Creates |-> 0]
    /\ op = [p \in Creates |-> 0]
    /\ hosts = FirstHosts
    /\ made = FirstHosts
    /\ ops = <<>>
    /\ late = {}
    /\ home = [d \in Devices |->
                  IF d \in DOMAIN FirstDevices THEN FirstDevices[d] ELSE 0]
    /\ started = [d \in Devices |-> 0]
    /\ agents = {}
    /\ lister = [p \in Connects |-> [h \in Hosts |-> "none"]]
    /\ found = [p \in Connects |-> [h \in Hosts |-> {}]]
    /\ listed = [p \in Connects |-> {}]
    /\ statuses = [p \in Connects |-> {}]
    /\ merr = [p \in Procs |-> FALSE]
    /\ steady = [p \in Connects |-> {}]
    /\ work = [p \in Procs |-> {}]
    /\ conn = [p \in Procs |-> [d \in Devices |-> "none"]]
    /\ reported = [p \in Procs |-> [d \in Devices |-> "nothing"]]
    /\ result = [p \in Procs |-> "none"]

Call(p) == Unanswered(p) \/ CreateHost(p) \/ Post(p) \/ UploadFiles(p) \/ Wait(p)
List(p) == ListHosts(p) \/ ListConnections(p) \/ Collect(p) \/ Choose(p)
Connect(p) == StartAgent(p) \/ Report(p) \/ Finish(p)

Next ==
    \/ \E p \in Creates : StartCreate(p) \/ Call(p)
    \/ \E p \in Connects : StartConnect(p) \/ List(p) \/ \E h \in Hosts : ListCVDs(p, h)
    \/ \E p \in Procs : Connect(p) \/ \E d \in Devices : AgentAnswers(p, d)
    \/ TakeUpLate
    \/ \E o \in DOMAIN ops : OperationEnds(o)
    \/ \E h \in hosts \cap Doomed : HostGoes(h)

Spec == Init /\ [][Next]_vars

(* The commands go on, and a request gets an answer or fails.  Nothing is   *)
(* asked of the operations of a host, nor of the agents.                   *)
Fairness ==
    /\ \A p \in Creates : WF_vars(Call(p))
    /\ \A p \in Connects :
        WF_vars(List(p)) /\ \A h \in Hosts : WF_vars(ListCVDs(p, h))
    /\ \A p \in Procs : WF_vars(Connect(p))

FairSpec == Spec /\ Fairness

-----------------------------------------------------------------------------
(* Properties *)

Locations ==
    {"idle", "createHost", "createUpload", "uploadFiles", "fetch", "start", "wait",
     "listHosts", "statuses", "collect", "connect", "done"}
Operations ==
    [by : Creates, kind : {"fetch", "upload", "devices"}, host : Hosts,
     from : 0..MaxOps, state : {"running", "done", "failed"}]
Requests ==
    [by : Creates, kind : {"fetch", "upload", "devices"}, host : Hosts,
     from : 0..MaxOps, try : 0..RetryAttempts]

(* Every variable has its type: the type invariant of the module. *)
TypeOK ==
    /\ pc \in [Procs -> Locations]
    /\ source \in [Creates -> {"none", "local", "build", "config"}]
    /\ host \in [Creates -> Hosts \cup {0}]
    /\ tries \in [Creates -> 0..RetryAttempts]
    /\ artifacts \in [Creates -> 0..MaxOps]
    /\ op \in [Creates -> 0..MaxOps]
    /\ hosts \subseteq made /\ made \subseteq Hosts
    /\ ops \in Seq(Operations) /\ Len(ops) <= MaxOps
    /\ late \subseteq Requests
    /\ home \in [Devices -> Hosts \cup {0}]
    /\ started \in [Devices -> 0..MaxOps]
    /\ agents \subseteq Devices
    /\ lister \in [Connects -> [Hosts -> {"none", "asking", "found", "failed", "ended"}]]
    /\ found \in [Connects -> [Hosts -> SUBSET Devices]]
    /\ listed \in [Connects -> SUBSET Devices]
    /\ statuses \in [Connects -> SUBSET Devices]
    /\ merr \in [Procs -> BOOLEAN]
    /\ steady \in [Connects -> SUBSET Devices]
    /\ work \in [Procs -> SUBSET Devices]
    /\ conn \in [Procs -> [Devices -> {"none", "starting", "status", "error"}]]
    /\ reported \in [Procs -> [Devices -> {"nothing", "status", "error"}]]
    /\ result \in [Procs -> {"none", "ok", "error"}]

(* What create starts and connects to is its own and whole.  Devices are    *)
(* started from complete artifacts only: the upload returned no error, or   *)
(* the fetch was waited for, on that host and by that command, also when    *)
(* the start is a request the host carries out late.  What create connects  *)
(* to is one whole group that it started; retried starts may leave it       *)
(* RetryAttempts more groups at most.                                       *)
FromComplete ==
    \A o \in DOMAIN ops : ops[o].kind = "devices" =>
        IF ops[o].from = 0
        THEN source[ops[o].by] = "config"
        ELSE LET brought == ops[ops[o].from]
             IN  /\ brought.kind # "devices" /\ brought.state = "done"
                 /\ brought.by = ops[o].by /\ brought.host = ops[o].host

OneGroup ==
    \A p \in Creates :
        LET groups == {o \in DOMAIN ops : ops[o].by = p /\ ops[o].kind = "devices"}
        IN  /\ work[p] # {} =>
                /\ Cardinality(work[p]) = NumInstances
                /\ \E o \in groups : work[p] = {d \in Devices : started[d] = o}
            /\ Cardinality(groups) <= RetryAttempts + 1

GroupsOwn == FromComplete /\ OneGroup

(* connect without arguments finds every device that is up and not          *)
(* connected all the while, whatever order the hosts answer in, or ends     *)
(* with an error.                                                          *)
Complete ==
    \A p \in Connects :
        pc[p] = "collect" /\ Uncollected(p) = {} /\ ~merr[p] =>
            steady[p] \subseteq listed[p] \ statuses[p]

(* The comment on the channels in runConnectCommand: the select does not    *)
(* unblock with the closing of the other channel.  A command ends without   *)
(* an error exactly when every device it was to connect to gave a status.   *)
Reported ==
    \A p \in Procs : pc[p] = "done" /\ work[p] # {} =>
        (result[p] = "ok" <=> \A d \in work[p] : conn[p][d] = "status")

(* Every command ends, unless an agent it started never answers.           *)
Ends ==
    \A p \in Procs :
        \/ pc[p] # "idle" ~> pc[p] = "done"
        \/ <>[](\E d \in Devices : conn[p][d] = "starting")

=============================================================================
