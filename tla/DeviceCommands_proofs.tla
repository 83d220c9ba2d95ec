------------------------- MODULE DeviceCommands_proofs -------------------------
(***************************************************************************)
(* Theorems about DeviceCommands, for any create and connect commands,     *)
(* hosts, devices and retries.                                             *)
(***************************************************************************)
EXTENDS DeviceCommands, FiniteSetTheorems, SequenceTheorems,
        WellFoundedInduction, TLAPS

-----------------------------------------------------------------------------
(* Helpers *)

(* Commands take hosts and devices in the order of their numbers.           *)
LEMMA MinIn ==
    ASSUME NEW S \in SUBSET Nat, S # {}
    PROVE  Min(S) \in S
<1>1. PICK x \in S : \A y \in S : ~(<<y, x>> \in OpToRel(<, Nat))
  BY NatLessThanWellFounded, WFMin
<1>2. \A y \in S : <<y, x>> \notin {ss \in Nat \X Nat : ss[1] < ss[2]}
  BY <1>1 DEF OpToRel
<1>3. \A y \in S : x <= y
  <2>1. ASSUME NEW y \in S, y < x PROVE FALSE
    <3>1. <<y, x>> \in Nat \X Nat /\ <<y, x>>[1] < <<y, x>>[2]
      BY <2>1
    <3>2. QED
      BY <1>2, <3>1, Zenon
  <2>2. QED
    BY <2>1
<1>4. QED
  BY <1>3 DEF Min

LEMMA EditOutside ==
    ASSUME NEW O, NEW s \in Seq(O), NEW i, i \notin DOMAIN s, NEW x
    PROVE  [s EXCEPT ![i] = x] = s
OBVIOUS

-----------------------------------------------------------------------------
(* Types *)

Calling == {"createUpload", "uploadFiles", "fetch", "start", "wait"}

(* A create command has what its next call needs: its source and its host.  *)
CreateAt(p) ==
    /\ pc[p] \in {"idle", "createHost", "connect", "done"} \cup Calling
    /\ pc[p] = "idle" => source[p] = "none"
    /\ pc[p] \in {"createHost"} \cup Calling => source[p] # "none"
    /\ pc[p] \in Calling => host[p] \in Hosts

CreatesInv == \A p \in Creates : CreateAt(p)

LEMMA RequestType ==
    ASSUME TypeOK, CreatesInv, NEW p \in Creates, pc[p] \in DOMAIN Kind
    PROVE  Request(p) \in Requests
<1>1. pc[p] \in {"fetch", "createUpload", "start"}
  BY DEF Kind
<1>2. Kind[pc[p]] \in {"fetch", "upload", "devices"}
  BY <1>1 DEF Kind
<1>3. host[p] \in Hosts
  BY <1>1 DEF CreatesInv, CreateAt, Calling
<1>4. QED
  BY <1>1, <1>2, <1>3, DeviceCommandsAssumption
     DEF Request, Requests, TypeOK, DeviceCommandsAssumption

LEMMA TakeUpType ==
    ASSUME TypeOK, NEW r \in Requests, TakeUp(r)
    PROVE  /\ ops' \in Seq(Operations) /\ Len(ops') = Len(ops) + 1
           /\ Len(ops') <= MaxOps /\ Len(ops) \in Nat
<1> DEFINE o == [by |-> r.by, kind |-> r.kind, host |-> r.host,
                 from |-> r.from, state |-> "running"]
<1>1. o \in Operations
  BY DEF Requests, Operations
<1>2. ops' = Append(ops, o)
  BY DEF TakeUp
<1>3. ops \in Seq(Operations) /\ Len(ops) < MaxOps /\ MaxOps \in Nat
  BY DeviceCommandsAssumption DEF TypeOK, TakeUp, DeviceCommandsAssumption
<1> HIDE DEF o
<1>4. QED
  BY <1>1, <1>2, <1>3

LEMMA OperationType ==
    ASSUME TypeOK, NEW o \in DOMAIN ops, NEW s \in {"running", "done", "failed"},
           ops' = [ops EXCEPT ![o].state = s]
    PROVE  ops' \in Seq(Operations) /\ Len(ops') = Len(ops)
<1>1. [ops[o] EXCEPT !.state = s] \in Operations
  <2>1. ops[o] \in Operations
    BY DEF TypeOK
  <2>2. QED
    BY <2>1 DEF Operations
<1>2. ops' = [ops EXCEPT ![o] = [ops[o] EXCEPT !.state = s]]
  OBVIOUS
<1>3. QED
  BY <1>1, <1>2 DEF TypeOK

LEMMA CreateTypes ==
    ASSUME TypeOK, CreatesInv, NEW p \in Creates, StartCreate(p) \/ Call(p)
    PROVE  TypeOK' /\ CreatesInv'
<1> USE DeviceCommandsAssumption
    DEF DeviceCommandsAssumption, Procs, createVars, hostVars, listVars, connectVars,
        Go, Return
<1> DEFINE Others(q) == /\ pc'[q] = pc[q] /\ source'[q] = source[q]
                        /\ host'[q] = host[q]
<1>1. ASSUME \A q \in Creates \ {p} : Others(q), CreateAt(p)'
      PROVE  CreatesInv'
  BY <1>1 DEF CreatesInv, CreateAt
<1>2. p \in Procs /\ CreateAt(p)
  BY DEF CreatesInv
<1>3. CASE StartCreate(p)
  <2>1. UNCHANGED <<tries, artifacts, op, hostVars, agents, listVars, merr,
                    connectVars>>
    BY <1>3 DEF StartCreate
  <2>2. CASE Return(p, "error") /\ UNCHANGED <<source, host>>
    BY <1>1, <1>2, <2>1, <2>2 DEF TypeOK, CreateAt, Locations, Calling
  <2>3. ASSUME NEW src \in {"local", "build", "config"}, NEW h \in hosts \cup {0},
               source' = [source EXCEPT ![p] = src], host' = [host EXCEPT ![p] = h],
               Go(p, IF h = 0 THEN "createHost" ELSE FirstCall(src)),
               UNCHANGED result
        PROVE  TypeOK' /\ CreatesInv'
    <3>1. PICK to \in {"createHost", "createUpload", "fetch", "start"} :
            pc' = [pc EXCEPT ![p] = to] /\ (to \in Calling => h \in Hosts)
      BY <2>3 DEF FirstCall, Calling, TypeOK
    <3>2. QED
      <4>1. CreatesInv'
        BY <1>1, <1>2, <2>1, <2>3, <3>1 DEF TypeOK, CreateAt, Calling
      <4>2. pc' \in [Procs -> Locations]
        BY <1>2, <3>1 DEF TypeOK, Locations
      <4>3. source' \in [Creates -> {"none", "local", "build", "config"}]
              /\ host' \in [Creates -> Hosts \cup {0}]
        BY <2>3 DEF TypeOK
      <4>4. TypeOK'
        BY <2>1, <2>3, <4>2, <4>3 DEF TypeOK
      <4>5. QED
        BY <4>1, <4>4
  <2>4. QED
    BY <1>3, <2>2, <2>3 DEF StartCreate
<1>4. CASE Unanswered(p)
  <2>1. UNCHANGED <<source, host, artifacts, op, hosts, made, ops, home, started,
                    agents, listVars, merr, connectVars>>
    BY <1>4 DEF Unanswered
  <2>2. late' \subseteq Requests
    <3>1. CASE pc[p] \in DOMAIN Kind
      <4>1. Request(p) \in Requests
        BY <3>1, RequestType
      <4>2. late' = late \/ late' = late \cup {Request(p)}
        BY <1>4, <3>1 DEF Unanswered
      <4>3. QED
        BY <4>1, <4>2 DEF TypeOK
    <3>2. CASE pc[p] \notin DOMAIN Kind
      BY <1>4, <3>2 DEF Unanswered, TypeOK
    <3>3. QED
      BY <3>1, <3>2
  <2>3. CASE tries[p] < RetryAttempts /\ tries' = [tries EXCEPT ![p] = @ + 1]
             /\ UNCHANGED <<pc, result>>
    <3>1. CreatesInv'
      BY <2>1, <2>3 DEF CreatesInv, CreateAt
    <3>2. tries' \in [Creates -> 0..RetryAttempts]
      BY <2>3 DEF TypeOK
    <3>3. TypeOK'
      BY <2>1, <2>2, <2>3, <3>2 DEF TypeOK
    <3>4. QED
      BY <3>1, <3>3
  <2>4. CASE Return(p, "error") /\ UNCHANGED tries
    <3>1. CreatesInv'
      BY <1>1, <1>2, <1>4, <2>1, <2>2, <2>4 DEF TypeOK, CreateAt, Calling, Unanswered, Kind
    <3>2. pc' \in [Procs -> Locations]
            /\ result' \in [Procs -> {"none", "ok", "error"}]
      BY <1>2, <2>4 DEF TypeOK, Locations
    <3>3. TypeOK'
      BY <2>1, <2>2, <2>4, <3>2 DEF TypeOK
    <3>4. QED
      BY <3>1, <3>3
  <2>5. QED
    BY <1>4, <2>3, <2>4 DEF Unanswered
<1>5. CASE CreateHost(p)
  <2>1. UNCHANGED <<source, tries, artifacts, op, ops, late, home, started, agents,
                    listVars, merr, connectVars>>
    BY <1>5 DEF CreateHost
  <2>2. PICK h \in Hosts :
          /\ hosts' = hosts \cup {h} /\ made' = made \cup {h}
          /\ \/ /\ host' = [host EXCEPT ![p] = h]
                /\ Go(p, FirstCall(source[p]))
                /\ UNCHANGED result
             \/ Return(p, "error") /\ UNCHANGED host
    BY <1>5 DEF CreateHost
  <2>3. hosts' \subseteq made' /\ made' \subseteq Hosts
    BY <2>2 DEF TypeOK
  <2>4. CASE Return(p, "error") /\ UNCHANGED host
    <3>1. CreatesInv'
      BY <1>1, <1>2, <2>1, <2>3, <2>4, <1>5 DEF CreateHost, TypeOK, CreateAt, Calling
    <3>2. pc' \in [Procs -> Locations]
            /\ result' \in [Procs -> {"none", "ok", "error"}]
      BY <1>2, <2>4 DEF TypeOK, Locations
    <3>3. TypeOK'
      BY <2>1, <2>3, <2>4, <3>2 DEF TypeOK
    <3>4. QED
      BY <3>1, <3>3
  <2>5. CASE host' = [host EXCEPT ![p] = h] /\ Go(p, FirstCall(source[p]))
             /\ UNCHANGED result
    <3>1. FirstCall(source[p]) \in {"createUpload", "fetch", "start"}
      <4>1. source[p] \in {"local", "build", "config"}
        BY <1>2, <1>5 DEF CreateHost, CreateAt, TypeOK
      <4>2. QED
        BY <4>1 DEF FirstCall
    <3>2. QED
      <4>1. CreatesInv'
        BY <1>1, <1>2, <2>1, <2>3, <2>5, <3>1, <1>5 DEF CreateHost, TypeOK, CreateAt, Calling
      <4>2. pc' \in [Procs -> Locations]
        BY <1>2, <2>5, <3>1 DEF TypeOK, Locations
      <4>3. host' \in [Creates -> Hosts \cup {0}] /\ UNCHANGED result
        BY <2>5 DEF TypeOK
      <4>4. TypeOK'
        BY <2>1, <2>3, <4>2, <4>3 DEF TypeOK
      <4>5. QED
        BY <4>1, <4>4
  <2>6. QED
    BY <2>2, <2>4, <2>5
<1>6. CASE Post(p)
  <2>1. UNCHANGED <<source, host, artifacts, hosts, made, late, home, started,
                    agents, listVars, merr, connectVars, result>>
    BY <1>6 DEF Post
  <2>2. ops' \in Seq(Operations) /\ Len(ops') <= MaxOps /\ op' \in [Creates -> 0..MaxOps]
    <3>1. /\ ops' \in Seq(Operations) /\ Len(ops') = Len(ops) + 1
          /\ Len(ops') <= MaxOps /\ Len(ops) \in Nat
      BY <1>6, TakeUpType, RequestType DEF Post
    <3>2. op' = [op EXCEPT ![p] = Len(ops) + 1]
      BY <1>6 DEF Post
    <3>3. Len(ops) + 1 \in 0..MaxOps
      BY <3>1
    <3>4. QED
      BY <3>1, <3>2, <3>3 DEF TypeOK
  <2>3. PICK to \in {"uploadFiles", "wait"} : pc' = [pc EXCEPT ![p] = to]
    BY <1>6 DEF Post
  <2>4. tries' \in [Creates -> 0..RetryAttempts]
    BY <1>6 DEF Post, TypeOK
  <2>5. pc[p] \in Calling
    BY <1>6 DEF Post, Kind, Calling
  <2>6. QED
    BY <1>1, <1>2, <2>1, <2>2, <2>3, <2>4, <2>5
       DEF TypeOK, CreateAt, Locations, Calling
<1>7. CASE UploadFiles(p)
  <2>1. UNCHANGED <<source, host, tries, op, hosts, made, late, home, started,
                    agents, listVars, merr, connectVars, result>>
        /\ pc[p] = "uploadFiles" /\ pc' = [pc EXCEPT ![p] = "start"]
        /\ artifacts' = [artifacts EXCEPT ![p] = op[p]]
    BY <1>7 DEF UploadFiles
  <2>2. ops' \in Seq(Operations) /\ Len(ops') <= MaxOps
    <3>1. CASE op[p] \in DOMAIN ops
      BY <1>7, <3>1, OperationType DEF UploadFiles, TypeOK
    <3>2. CASE op[p] \notin DOMAIN ops
      <4> DEFINE ended == [ops[op[p]] EXCEPT !.state = "done"]
      <4>1. ops' = [ops EXCEPT ![op[p]] = ended]
        BY <1>7 DEF UploadFiles
      <4> HIDE DEF ended
      <4>2. ops' = ops
        BY <3>2, <4>1, EditOutside DEF TypeOK
      <4>3. QED
        BY <4>2 DEF TypeOK
    <3>3. QED
      BY <3>1, <3>2
  <2>3. QED
    BY <1>1, <1>2, <2>1, <2>2 DEF TypeOK, CreateAt, Locations, Calling
<1>8. CASE Wait(p)
  <2>1. UNCHANGED <<source, host, op, hostVars, agents, listVars, merr, conn,
                    reported>>
        /\ pc[p] = "wait" /\ tries' = [tries EXCEPT ![p] = 0]
    BY <1>8 DEF Wait
  <2> tries' \in [Creates -> 0..RetryAttempts]
    BY <2>1 DEF TypeOK
  <2>2. CASE artifacts' = [artifacts EXCEPT ![p] = op[p]] /\ Go(p, "start")
             /\ UNCHANGED <<work, result>>
    <3>1. CreatesInv'
      BY <1>1, <1>2, <2>1, <2>2 DEF TypeOK, CreateAt, Calling
    <3>2. pc' \in [Procs -> Locations] /\ artifacts' \in [Creates -> 0..MaxOps]
      BY <1>2, <2>2 DEF TypeOK, Locations
    <3>3. UNCHANGED <<source, host, op, hostVars, agents, listVars, merr, work, conn,
                      reported, result>>
      BY <2>1, <2>2
    <3>4. TypeOK'
      BY <3>2, <3>3 DEF TypeOK
    <3>5. QED
      BY <3>1, <3>4
  <2>3. CASE Connecting(p, {d \in Devices : started[d] = op[p]})
             /\ UNCHANGED <<artifacts, result>>
    <3>1. CreatesInv'
      BY <1>1, <1>2, <2>1, <2>3 DEF Connecting, TypeOK, CreateAt, Calling
    <3>2. pc' \in [Procs -> Locations] /\ work' \in [Procs -> SUBSET Devices]
      BY <1>2, <2>3 DEF Connecting, TypeOK, Locations
    <3>3. UNCHANGED <<source, host, artifacts, op, hostVars, agents, listVars, merr,
                      conn, reported, result>>
      BY <2>1, <2>3
    <3>4. TypeOK'
      BY <3>2, <3>3 DEF TypeOK
    <3>5. QED
      BY <3>1, <3>4
  <2>4. CASE Return(p, "error") /\ UNCHANGED <<artifacts, work>>
    <3>1. CreatesInv'
      BY <1>1, <1>2, <2>1, <2>4 DEF TypeOK, CreateAt, Calling
    <3>2. pc' \in [Procs -> Locations]
            /\ result' \in [Procs -> {"none", "ok", "error"}]
      BY <1>2, <2>4 DEF TypeOK, Locations
    <3>3. UNCHANGED <<source, host, artifacts, op, hostVars, agents, listVars, merr,
                      work, conn, reported>>
      BY <2>1, <2>4
    <3>4. TypeOK'
      BY <3>2, <3>3 DEF TypeOK
    <3>5. QED
      BY <3>1, <3>4
  <2>5. QED
    BY <1>8, <2>2, <2>3, <2>4 DEF Wait
<1>9. QED
  BY <1>3, <1>4, <1>5, <1>6, <1>7, <1>8 DEF Call

LEMMA ConnectTypes ==
    ASSUME TypeOK, CreatesInv, NEW p \in Connects,
           \/ StartConnect(p) \/ List(p)
           \/ \E h \in Hosts : ListCVDs(p, h)
    PROVE  TypeOK' /\ CreatesInv'
<1> USE DeviceCommandsAssumption
    DEF DeviceCommandsAssumption, Procs, createVars, hostVars, listVars, connectVars,
        Go, Return
<1>1. UNCHANGED <<createVars, hostVars, agents, conn, reported>>
  BY DEF StartConnect, List, ListHosts, ListConnections, Collect, Choose, Connecting,
         ListCVDs
<1>2. p \in Procs /\ p \notin Creates
  OBVIOUS
<1>3. ASSUME NEW to \in Locations, pc' = [pc EXCEPT ![p] = to] PROVE CreatesInv'
  BY <1>1, <1>2, <1>3 DEF CreatesInv, CreateAt, TypeOK
<1>4. CASE StartConnect(p)
  <2>1. UNCHANGED <<listVars, merr>>
    BY <1>4 DEF StartConnect
  <2>2. CASE Return(p, "error") /\ UNCHANGED work
    BY <1>1, <1>2, <1>3, <2>1, <2>2 DEF TypeOK, Locations
  <2>3. ASSUME NEW devices \in SUBSET Devices, Connecting(p, devices), UNCHANGED result
        PROVE  TypeOK' /\ CreatesInv'
    BY <1>1, <1>2, <1>3, <2>1, <2>3 DEF Connecting, TypeOK, Locations
  <2>4. CASE Go(p, "listHosts") /\ UNCHANGED <<work, result>>
    BY <1>1, <1>2, <1>3, <2>1, <2>4 DEF TypeOK, Locations
  <2>5. QED
    BY <1>4, <2>2, <2>3, <2>4 DEF StartConnect, On
<1>5. CASE ListHosts(p)
  <2>1. UNCHANGED <<found, listed, statuses, merr, work>>
    BY <1>5 DEF ListHosts
  <2>2. lister' \in [Connects -> [Hosts -> {"none", "asking", "found", "failed", "ended"}]]
    <3>1. CASE lister' = [lister EXCEPT ![p] =
                            [h \in Hosts |-> IF h \in hosts THEN "asking" ELSE "none"]]
      BY <3>1 DEF TypeOK
    <3>2. CASE UNCHANGED lister
      BY <3>2 DEF TypeOK
    <3>3. QED
      BY <1>5, <3>1, <3>2 DEF ListHosts
  <2>3. steady' \in [Connects -> SUBSET Devices]
    <3>1. CASE steady' = [steady EXCEPT ![p] = Running \ agents]
      BY <3>1 DEF TypeOK, Running
    <3>2. CASE UNCHANGED steady
      BY <3>2 DEF TypeOK
    <3>3. QED
      BY <1>5, <3>1, <3>2 DEF ListHosts
  <2>4. CASE Go(p, "statuses") /\ UNCHANGED result
    BY <1>1, <1>2, <1>3, <2>1, <2>2, <2>3, <2>4 DEF TypeOK, Locations
  <2>5. CASE Return(p, "error")
    BY <1>1, <1>2, <1>3, <2>1, <2>2, <2>3, <2>5 DEF TypeOK, Locations
  <2>6. QED
    BY <1>5, <2>4, <2>5 DEF ListHosts
<1>6. CASE ListConnections(p)
  <2>1. UNCHANGED <<lister, found, listed, steady, work, result>>
        /\ Go(p, "collect")
    BY <1>6 DEF ListConnections
  <2>2. statuses' \in [Connects -> SUBSET Devices] /\ merr' \in [Procs -> BOOLEAN]
    BY <1>6 DEF ListConnections, TypeOK
  <2>3. pc' \in [Procs -> Locations]
    BY <1>2, <2>1 DEF TypeOK, Locations
  <2>4. CreatesInv'
    BY <1>3, <2>1 DEF Locations
  <2>5. QED
    BY <1>1, <2>1, <2>2, <2>3, <2>4 DEF TypeOK
<1>7. CASE Collect(p)
  <2>1. UNCHANGED <<pc, found, statuses, steady, work, result>>
    BY <1>7 DEF Collect
  <2>2. PICK h \in Hosts :
          /\ lister' = [lister EXCEPT ![p][h] = "ended"]
          /\ listed' = [listed EXCEPT ![p] = @ \cup found[p][h]]
          /\ merr' = [merr EXCEPT ![p] = @ \/ lister[p][h] = "failed"]
    <3>1. Min(Uncollected(p)) \in Hosts
      BY <1>7, MinIn DEF Collect, Uncollected
    <3>2. QED
      BY <1>7, <3>1 DEF Collect
  <2>3. CreatesInv'
    BY <1>1, <2>1 DEF CreatesInv, CreateAt
  <2>4. /\ lister' \in [Connects -> [Hosts -> {"none", "asking", "found", "failed", "ended"}]]
        /\ listed' \in [Connects -> SUBSET Devices]
        /\ merr' \in [Procs -> BOOLEAN]
    BY <1>2, <2>2 DEF TypeOK
  <2>5. QED
    BY <1>1, <2>1, <2>3, <2>4 DEF TypeOK
<1>8. CASE Choose(p)
  <2>1. UNCHANGED merr
    BY <1>8 DEF Choose
  <2>2. listVars' \in [Connects -> [Hosts -> {"none", "asking", "found", "failed", "ended"}]]
                      \X [Connects -> [Hosts -> SUBSET Devices]]
                      \X [Connects -> SUBSET Devices]
                      \X [Connects -> SUBSET Devices]
                      \X [Connects -> SUBSET Devices]
    BY <1>8 DEF Choose, TypeOK
  <2>3. CASE Return(p, "error") /\ UNCHANGED work
    BY <1>1, <1>2, <1>3, <2>1, <2>2, <2>3 DEF TypeOK, Locations
  <2>4. ASSUME NEW devices \in SUBSET Devices, Connecting(p, devices), UNCHANGED result
        PROVE  TypeOK' /\ CreatesInv'
    BY <1>1, <1>2, <1>3, <2>1, <2>2, <2>4 DEF Connecting, TypeOK, Locations
  <2>5. listed[p] \ statuses[p] \in SUBSET Devices
    BY DEF TypeOK
  <2>6. QED
    BY <1>8, <2>3, <2>4, <2>5 DEF Choose
<1>9. ASSUME NEW h \in Hosts, ListCVDs(p, h) PROVE TypeOK' /\ CreatesInv'
  <2>1. UNCHANGED <<pc, listed, statuses, merr, steady, work, result>>
    BY <1>9 DEF ListCVDs
  <2>2. lister' \in [Connects -> [Hosts -> {"none", "asking", "found", "failed", "ended"}]]
    <3>1. PICK x \in {"found", "failed"} : lister' = [lister EXCEPT ![p][h] = x]
      BY <1>9 DEF ListCVDs
    <3>2. QED
      BY <3>1 DEF TypeOK
  <2>3. found' \in [Connects -> [Hosts -> SUBSET Devices]]
    <3>1. CASE found' = [found EXCEPT ![p][h] = On(h)]
      BY <3>1 DEF TypeOK, On
    <3>2. CASE UNCHANGED found
      BY <3>2 DEF TypeOK
    <3>3. QED
      BY <1>9, <3>1, <3>2 DEF ListCVDs
  <2>4. CreatesInv'
    BY <1>1, <2>1 DEF CreatesInv, CreateAt
  <2>5. QED
    BY <1>1, <2>1, <2>2, <2>3, <2>4 DEF TypeOK
<1>10. QED
  BY <1>4, <1>5, <1>6, <1>7, <1>8, <1>9 DEF List

LEMMA MinUnreported ==
    ASSUME TypeOK, NEW p \in Procs, Unreported(p) # {}
    PROVE  Min(Unreported(p)) \in Unreported(p) /\ Min(Unreported(p)) \in work[p]
<1>1. Unreported(p) \in SUBSET work[p] /\ work[p] \in SUBSET Devices
  BY DEF Unreported, TypeOK
<1>2. Unreported(p) \in SUBSET Nat
  BY <1>1, DeviceCommandsAssumption DEF DeviceCommandsAssumption
<1>3. QED
  BY <1>1, <1>2, MinIn

LEMMA ConnectionTypes ==
    ASSUME TypeOK, CreatesInv, NEW p \in Procs,
           Connect(p) \/ \E d \in Devices : AgentAnswers(p, d)
    PROVE  TypeOK' /\ CreatesInv'
<1> USE DeviceCommandsAssumption
    DEF DeviceCommandsAssumption, Procs, createVars, hostVars, listVars, connectVars,
        Go, Return
<1>1. UNCHANGED <<createVars, hostVars, lister, found, listed, statuses, work>>
  BY DEF Connect, StartAgent, Report, Finish, AgentAnswers
<1>2. UNCHANGED pc => CreatesInv'
  BY <1>1 DEF CreatesInv, CreateAt
<1>3. CASE StartAgent(p)
  <2>1. UNCHANGED <<pc, agents, steady, merr, reported, result>>
    BY <1>3 DEF StartAgent
  <2>2. PICK now \in SUBSET Devices :
          conn' = [conn EXCEPT ![p] =
                      [d \in Devices |-> IF d \in now THEN "starting" ELSE @[d]]]
    <3>1. \A d \in work[p] : d \in Devices
      BY DEF TypeOK
    <3>2. QED
      BY <1>3, <3>1 DEF StartAgent
  <2>3. conn' \in [Procs -> [Devices -> {"none", "starting", "status", "error"}]]
    BY <2>2 DEF TypeOK
  <2>4. QED
    BY <1>1, <1>2, <2>1, <2>3 DEF TypeOK
<1>4. CASE Report(p)
  <2>1. UNCHANGED <<pc, agents, steady, conn, result>>
    BY <1>4 DEF Report
  <2>2. PICK d \in Devices, what \in {"status", "error"} :
          /\ reported' = [reported EXCEPT ![p][d] = what]
          /\ merr' = [merr EXCEPT ![p] = @ \/ what = "error"]
    <3>1. Min(Unreported(p)) \in Devices
      <4>1. Min(Unreported(p)) \in work[p]
        BY <1>4, MinUnreported DEF Report
      <4>2. QED
        BY <4>1 DEF TypeOK
    <3>2. QED
      BY <1>4, <3>1 DEF Report, Received
  <2>3. QED
    BY <1>1, <1>2, <2>1, <2>2 DEF TypeOK
<1>5. CASE Finish(p)
  <2>1. UNCHANGED <<agents, steady, merr, conn, reported>>
        /\ \E what \in {"ok", "error"} : Return(p, what)
    BY <1>5 DEF Finish
  <2>2. CreatesInv'
    BY <1>1, <1>5, <2>1 DEF Finish, CreatesInv, CreateAt, Calling, TypeOK
  <2>3. pc' \in [Procs -> Locations] /\ result' \in [Procs -> {"none", "ok", "error"}]
    BY <2>1 DEF TypeOK, Locations
  <2>4. QED
    BY <1>1, <2>1, <2>2, <2>3 DEF TypeOK
<1>6. ASSUME NEW d \in Devices, AgentAnswers(p, d) PROVE TypeOK' /\ CreatesInv'
  <2>1. UNCHANGED <<pc, merr, reported, result>>
    BY <1>6 DEF AgentAnswers
  <2>2. agents' \subseteq Devices /\ steady' \in [Connects -> SUBSET Devices]
    <3>1. CASE agents' = agents \cup {d} /\ steady' = [k \in Connects |-> steady[k] \ {d}]
      BY <3>1 DEF TypeOK
    <3>2. CASE UNCHANGED <<agents, steady>>
      BY <3>2 DEF TypeOK
    <3>3. QED
      BY <1>6, <3>1, <3>2 DEF AgentAnswers
  <2>3. PICK what \in {"status", "error"} : conn' = [conn EXCEPT ![p][d] = what]
    BY <1>6 DEF AgentAnswers
  <2>4. QED
    BY <1>1, <1>2, <2>1, <2>2, <2>3 DEF TypeOK
<1>7. QED
  BY <1>3, <1>4, <1>5, <1>6 DEF Connect

LEMMA HostTypes ==
    ASSUME TypeOK, CreatesInv,
           \/ TakeUpLate
           \/ \E o \in DOMAIN ops : OperationEnds(o)
           \/ \E h \in hosts \cap Doomed : HostGoes(h)
    PROVE  TypeOK' /\ CreatesInv'
<1> USE DeviceCommandsAssumption
    DEF DeviceCommandsAssumption, Procs, createVars, hostVars, listVars, connectVars
<1>1. UNCHANGED <<pc, createVars, made, agents, lister, found, listed, statuses,
                  merr, connectVars, result>>
  BY DEF TakeUpLate, OperationEnds, HostGoes
<1>2. CreatesInv'
  BY <1>1 DEF CreatesInv, CreateAt
<1>3. CASE TakeUpLate
  <2>1. PICK r \in late : TakeUp(r) /\ late' = late \ {r}
    BY <1>3 DEF TakeUpLate
  <2>2. ops' \in Seq(Operations) /\ Len(ops') <= MaxOps
    BY <2>1, TakeUpType DEF TypeOK
  <2>3. UNCHANGED <<hosts, home, started, steady>>
    BY <1>3 DEF TakeUpLate
  <2>4. QED
    BY <1>1, <1>2, <2>1, <2>2, <2>3 DEF TypeOK
<1>4. ASSUME NEW o \in DOMAIN ops, OperationEnds(o) PROVE TypeOK' /\ CreatesInv'
  <2>1. UNCHANGED <<hosts, late, steady>>
    BY <1>4 DEF OperationEnds
  <2>2. ops' \in Seq(Operations) /\ Len(ops') <= MaxOps
    BY <1>4, OperationType DEF OperationEnds, TypeOK
  <2>3. home' \in [Devices -> Hosts \cup {0}] /\ started' \in [Devices -> 0..MaxOps]
    <3>1. CASE UNCHANGED <<home, started>>
      BY <3>1 DEF TypeOK
    <3>2. ASSUME NEW group,
                 home' = [d \in Devices |-> IF d \in group THEN ops[o].host ELSE home[d]],
                 started' = [d \in Devices |-> IF d \in group THEN o ELSE started[d]]
          PROVE  home' \in [Devices -> Hosts \cup {0}]
                 /\ started' \in [Devices -> 0..MaxOps]
      <4>1. o \in 0..MaxOps /\ ops[o].host \in Hosts
        BY <1>4 DEF OperationEnds, TypeOK
      <4>2. QED
        BY <3>2, <4>1 DEF TypeOK
    <3>3. QED
      BY <1>4, <3>1, <3>2 DEF OperationEnds
  <2>4. QED
    BY <1>1, <1>2, <2>1, <2>2, <2>3 DEF TypeOK
<1>5. ASSUME NEW h \in hosts, HostGoes(h) PROVE TypeOK' /\ CreatesInv'
  <2>1. UNCHANGED <<ops, late, started>> /\ hosts' \subseteq made
    BY <1>5 DEF HostGoes, TypeOK
  <2>2. home' \in [Devices -> Hosts \cup {0}]
    BY <1>5 DEF HostGoes, TypeOK
  <2>3. steady' \in [Connects -> SUBSET Devices]
    BY <1>5 DEF HostGoes, TypeOK
  <2>4. QED
    BY <1>1, <1>2, <2>1, <2>2, <2>3 DEF TypeOK
<1>6. QED
  BY <1>3, <1>4, <1>5

LEMMA TypeInductive ==
    ASSUME TypeOK, CreatesInv, [Next]_vars
    PROVE  TypeOK' /\ CreatesInv'
<1>1. CASE UNCHANGED vars
  BY <1>1 DEF vars, createVars, hostVars, listVars, connectVars, TypeOK, CreatesInv,
              CreateAt
<1>2. QED
  BY <1>1, CreateTypes, ConnectTypes, ConnectionTypes, HostTypes DEF Next

LEMMA TypeInvariant == Spec => [](TypeOK /\ CreatesInv)
<1>1. Init => TypeOK /\ CreatesInv
  <2> USE DeviceCommandsAssumption DEF DeviceCommandsAssumption, Procs
  <2> SUFFICES ASSUME Init PROVE TypeOK /\ CreatesInv
    OBVIOUS
  <2>1. CreatesInv
    BY DEF Init, CreatesInv, CreateAt, Calling
  <2>2. ops \in Seq(Operations) /\ Len(ops) <= MaxOps
    BY DEF Init
  <2>3. home \in [Devices -> Hosts \cup {0}] /\ started \in [Devices -> 0..MaxOps]
    <3>1. \A d \in DOMAIN FirstDevices : FirstDevices[d] \in Hosts
      OBVIOUS
    <3>2. home = [d \in Devices |->
                     IF d \in DOMAIN FirstDevices THEN FirstDevices[d] ELSE 0]
      BY DEF Init
    <3>3. started = [d \in Devices |-> 0] /\ 0 \in 0..MaxOps
      BY DEF Init
    <3>4. QED
      BY <3>1, <3>2, <3>3, Zenon
  <2>4. QED
    BY <2>1, <2>2, <2>3 DEF Init, TypeOK, Locations
<1>2. TypeOK /\ CreatesInv /\ [Next]_vars => TypeOK' /\ CreatesInv'
  BY TypeInductive
<1>3. QED
  BY <1>1, <1>2, PTL DEF Spec

(* Type correctness: every variable keeps its type, for any commands,       *)
(* hosts, devices and failures; no request is repeated more than            *)
(* RetryAttempts times, and every create command has the host its calls     *)
(* need.                                                                    *)
THEOREM Typing == Spec => []TypeOK
BY TypeInvariant, PTL

-----------------------------------------------------------------------------
(* The operations of the hosts *)

(* An operation stays what it was asked to be, and done once it is. *)
OpsKept ==
    /\ DOMAIN ops \subseteq DOMAIN ops'
    /\ \A o \in DOMAIN ops :
          /\ ops'[o].by = ops[o].by /\ ops'[o].kind = ops[o].kind
          /\ ops'[o].host = ops[o].host /\ ops'[o].from = ops[o].from
          /\ ops[o].state = "done" => ops'[o].state = "done"

LEMMA TakeUpKeeps ==
    ASSUME TypeOK, NEW r \in Requests, TakeUp(r)
    PROVE  /\ OpsKept
           /\ Len(ops) + 1 \in DOMAIN ops'
           /\ DOMAIN ops' = DOMAIN ops \cup {Len(ops) + 1}
           /\ Len(ops) + 1 \notin DOMAIN ops
           /\ \A o \in DOMAIN ops : ops'[o] = ops[o]
           /\ ops'[Len(ops) + 1] =
                 [by |-> r.by, kind |-> r.kind, host |-> r.host,
                  from |-> r.from, state |-> "running"]
<1> DEFINE o == [by |-> r.by, kind |-> r.kind, host |-> r.host,
                 from |-> r.from, state |-> "running"]
<1>1. o \in Operations
  BY DEF Requests, Operations
<1>2. ops' = Append(ops, o) /\ ops \in Seq(Operations)
  BY DEF TakeUp, TypeOK
<1> HIDE DEF o
<1>3. /\ DOMAIN ops' = DOMAIN ops \cup {Len(ops) + 1}
      /\ Len(ops) + 1 \notin DOMAIN ops
      /\ ops'[Len(ops) + 1] = o
      /\ \A i \in DOMAIN ops : ops'[i] = ops[i]
  BY <1>1, <1>2
<1>4. QED
  BY <1>3 DEF OpsKept, o

LEMMA EndingKeeps ==
    ASSUME TypeOK, NEW o \in DOMAIN ops, NEW s \in {"done", "failed"},
           ops[o].state = "done" => s = "done",
           ops' = [ops EXCEPT ![o].state = s]
    PROVE  /\ OpsKept
           /\ DOMAIN ops' = DOMAIN ops
           /\ ops'[o].state = s
           /\ \A i \in DOMAIN ops : i # o => ops'[i] = ops[i]
<1>1. DOMAIN ops' = DOMAIN ops /\ \A i \in DOMAIN ops : i # o => ops'[i] = ops[i]
  BY DEF TypeOK
<1>2. ops[o] \in Operations
  BY DEF TypeOK
<1>3. ops'[o] = [ops[o] EXCEPT !.state = s]
  BY DEF TypeOK
<1>4. /\ ops'[o].by = ops[o].by /\ ops'[o].kind = ops[o].kind
      /\ ops'[o].host = ops[o].host /\ ops'[o].from = ops[o].from
      /\ ops'[o].state = s
  BY <1>2, <1>3 DEF Operations
<1>5. QED
  BY <1>1, <1>4 DEF OpsKept

(* The operation a command waits for is its own. *)
OwnsOperation(p) ==
    /\ op[p] \in DOMAIN ops
    /\ ops[op[p]].by = p /\ ops[op[p]].host = host[p]
    /\ pc[p] = "uploadFiles" => ops[op[p]].kind = "upload"

OwnInv == \A p \in Creates : pc[p] \in {"uploadFiles", "wait"} => OwnsOperation(p)

LEMMA UnchangedKeeps ==
    ASSUME UNCHANGED ops
    PROVE  OpsKept
BY DEF OpsKept

(* The steps that change the operations: a request is taken up, at once or  *)
(* late, or an operation ends.                                              *)
LEMMA OperationSteps ==
    ASSUME TypeOK, CreatesInv, OwnInv, [Next]_vars
    PROVE  \/ UNCHANGED ops
           \/ \E p \in Creates : Post(p)
           \/ TakeUpLate
           \/ \E p \in Creates : UploadFiles(p)
           \/ \E o \in DOMAIN ops : OperationEnds(o)
BY DEF Next, vars, hostVars, StartCreate, Call, Unanswered, CreateHost, Wait,
       StartConnect, List, ListHosts, ListConnections, Collect, Choose, ListCVDs,
       Connect, StartAgent, Report, Finish, AgentAnswers, HostGoes

LEMMA HistoryKept ==
    ASSUME TypeOK, CreatesInv, OwnInv, [Next]_vars
    PROVE  OpsKept
<1>1. ASSUME NEW p \in Creates, Post(p) PROVE OpsKept
  BY <1>1, RequestType, TakeUpKeeps DEF Post
<1>2. CASE TakeUpLate
  <2>1. PICK r \in Requests : TakeUp(r)
    BY <1>2 DEF TakeUpLate, TypeOK
  <2>2. QED
    BY <2>1, TakeUpKeeps
<1>3. ASSUME NEW p \in Creates, UploadFiles(p) PROVE OpsKept
  <2>1. op[p] \in DOMAIN ops
    BY <1>3 DEF UploadFiles, OwnInv, OwnsOperation
  <2>2. QED
    BY <1>3, <2>1, EndingKeeps DEF UploadFiles
<1>4. ASSUME NEW o \in DOMAIN ops, OperationEnds(o) PROVE OpsKept
  BY <1>4, EndingKeeps DEF OperationEnds
<1>5. QED
  BY <1>1, <1>2, <1>3, <1>4, OperationSteps, UnchangedKeeps

-----------------------------------------------------------------------------
(* What create starts from *)

(* A create command moves by its own steps only. *)
Rests(p) ==
    /\ pc'[p] = pc[p] /\ source'[p] = source[p] /\ host'[p] = host[p]
    /\ tries'[p] = tries[p] /\ artifacts'[p] = artifacts[p] /\ op'[p] = op[p]
    /\ work'[p] = work[p]

Concludes(p) ==
    /\ pc[p] = "connect" /\ pc'[p] = "done"
    /\ source'[p] = source[p] /\ host'[p] = host[p]
    /\ tries'[p] = tries[p] /\ artifacts'[p] = artifacts[p] /\ op'[p] = op[p]
    /\ work'[p] = work[p]

LEMMA CreateSteps ==
    ASSUME TypeOK, [Next]_vars, NEW p \in Creates
    PROVE  StartCreate(p) \/ Call(p) \/ Concludes(p) \/ Rests(p)
<1> USE DeviceCommandsAssumption DEF DeviceCommandsAssumption, Procs, Go, Return,
        createVars, hostVars, listVars, connectVars, Rests, TypeOK
<1>1. ASSUME NEW q \in Creates, q # p, StartCreate(q) PROVE Rests(p)
  BY <1>1 DEF StartCreate
<1>2. ASSUME NEW q \in Creates, q # p, Call(q) PROVE Rests(p)
  <2>1. CASE Unanswered(q)
    BY <1>2, <2>1 DEF Unanswered
  <2>2. CASE CreateHost(q)
    BY <1>2, <2>2 DEF CreateHost
  <2>3. CASE Post(q)
    BY <1>2, <2>3 DEF Post
  <2>4. CASE UploadFiles(q)
    BY <1>2, <2>4 DEF UploadFiles
  <2>5. CASE Wait(q)
    BY <1>2, <2>5 DEF Wait, Connecting
  <2>6. QED
    BY <1>2, <2>1, <2>2, <2>3, <2>4, <2>5 DEF Call
<1>3. ASSUME NEW k \in Connects, StartConnect(k) \/ List(k) PROVE Rests(p)
  <2>1. k # p
    OBVIOUS
  <2>2. CASE StartConnect(k)
    BY <2>1, <2>2 DEF StartConnect, Connecting
  <2>3. CASE ListHosts(k) \/ ListConnections(k) \/ Collect(k)
    BY <2>1, <2>3 DEF ListHosts, ListConnections, Collect
  <2>4. CASE Choose(k)
    BY <2>1, <2>4 DEF Choose, Connecting
  <2>5. QED
    BY <1>3, <2>2, <2>3, <2>4 DEF List
<1>4. ASSUME NEW k \in Connects, NEW h \in Hosts, ListCVDs(k, h) PROVE Rests(p)
  BY <1>4 DEF ListCVDs
<1>5. ASSUME NEW q \in Procs, Connect(q) PROVE Rests(p) \/ Concludes(p)
  <2>1. CASE StartAgent(q) \/ Report(q)
    BY <2>1 DEF StartAgent, Report
  <2>2. CASE Finish(q)
    BY <2>2 DEF Finish, Concludes
  <2>3. QED
    BY <1>5, <2>1, <2>2 DEF Connect
<1>6. ASSUME NEW q \in Procs, NEW d \in Devices, AgentAnswers(q, d) PROVE Rests(p)
  BY <1>6 DEF AgentAnswers
<1>7. CASE TakeUpLate
  BY <1>7 DEF TakeUpLate
<1>8. ASSUME NEW o \in DOMAIN ops, OperationEnds(o) PROVE Rests(p)
  BY <1>8 DEF OperationEnds
<1>9. ASSUME NEW h \in hosts, HostGoes(h) PROVE Rests(p)
  BY <1>9 DEF HostGoes
<1>10. CASE UNCHANGED vars
  BY <1>10 DEF vars
<1>11. QED
  BY <1>1, <1>2, <1>3, <1>4, <1>5, <1>6, <1>7, <1>8, <1>9, <1>10 DEF Next

LEMMA OwnInductive ==
    ASSUME TypeOK, CreatesInv, OwnInv, [Next]_vars
    PROVE  OwnInv'
<1>1. SUFFICES ASSUME NEW p \in Creates, pc'[p] \in {"uploadFiles", "wait"}
               PROVE  OwnsOperation(p)'
  BY DEF OwnInv
<1> USE DEF Go, Return, createVars, hostVars
<1>2. OpsKept
  BY HistoryKept
<1>3. CASE Rests(p)
  BY <1>1, <1>2, <1>3 DEF Rests, OwnInv, OwnsOperation, OpsKept
<1>4. CASE Concludes(p)
  BY <1>1, <1>4 DEF Concludes
<1>5. CASE StartCreate(p)
  BY <1>1, <1>5 DEF StartCreate, FirstCall, TypeOK, Procs
<1>6. CASE Call(p)
  <2>1. CASE Unanswered(p)
    <3>1. pc'[p] = pc[p] /\ UNCHANGED <<host, op, ops>>
      BY <1>1, <2>1 DEF Unanswered, TypeOK, Procs
    <3>2. QED
      BY <1>1, <3>1 DEF OwnInv, OwnsOperation
  <2>2. CASE CreateHost(p)
    BY <1>1, <2>2 DEF CreateHost, FirstCall, TypeOK, Procs, CreatesInv, CreateAt
  <2>3. CASE Post(p)
    <3>1. op'[p] = Len(ops) + 1 /\ UNCHANGED host
      BY <2>3 DEF Post, TypeOK
    <3>2. /\ Len(ops) + 1 \in DOMAIN ops'
          /\ ops'[Len(ops) + 1].by = p
          /\ ops'[Len(ops) + 1].host = host[p]
          /\ ops'[Len(ops) + 1].kind = Kind[pc[p]]
      <4>1. Request(p) \in Requests /\ TakeUp(Request(p))
        BY <2>3, RequestType DEF Post
      <4>2. /\ Len(ops) + 1 \in DOMAIN ops'
            /\ ops'[Len(ops) + 1] =
                  [by |-> Request(p).by, kind |-> Request(p).kind,
                   host |-> Request(p).host, from |-> Request(p).from,
                   state |-> "running"]
        BY <4>1, TakeUpKeeps
      <4>3. QED
        BY <4>2 DEF Request
    <3>3. pc'[p] = "uploadFiles" => Kind[pc[p]] = "upload"
      BY <2>3 DEF Post, TypeOK, Procs, Kind
    <3>4. QED
      BY <3>1, <3>2, <3>3 DEF OwnsOperation
  <2>4. CASE UploadFiles(p)
    BY <1>1, <2>4 DEF UploadFiles, TypeOK, Procs
  <2>5. CASE Wait(p)
    BY <1>1, <2>5 DEF Wait, Connecting, TypeOK, Procs
  <2>6. QED
    BY <1>6, <2>1, <2>2, <2>3, <2>4, <2>5 DEF Call
<1>7. QED
  BY <1>3, <1>4, <1>5, <1>6, CreateSteps

(* A request that is late is one a command has just made, and a new         *)
(* operation is one of these requests.                                      *)
LEMMA LateGrows ==
    ASSUME [Next]_vars, NEW r \in late', r \notin late
    PROVE  \E p \in Creates : /\ pc[p] \in DOMAIN Kind /\ r = Request(p)
                              /\ Unanswered(p)
BY DEF Next, vars, hostVars, StartCreate, Call, Unanswered, CreateHost, Wait, Post,
       UploadFiles, StartConnect, List, ListHosts, ListConnections, Collect, Choose,
       ListCVDs, Connect, StartAgent, Report, Finish, AgentAnswers, HostGoes,
       TakeUpLate, OperationEnds

LEMMA OperationsGrow ==
    ASSUME TypeOK, CreatesInv, OwnInv, [Next]_vars,
           NEW o \in DOMAIN ops', o \notin DOMAIN ops
    PROVE  \E r \in Requests :
              /\ \/ r \in late /\ late' = late \ {r} /\ TakeUpLate
                 \/ \E p \in Creates :
                       pc[p] \in DOMAIN Kind /\ r = Request(p) /\ Post(p)
              /\ ops'[o].kind = r.kind /\ ops'[o].from = r.from
              /\ ops'[o].by = r.by /\ ops'[o].host = r.host
              /\ ops'[o].state = "running"
              /\ DOMAIN ops' = DOMAIN ops \cup {o}
              /\ \A i \in DOMAIN ops : ops'[i] = ops[i]
<1> DEFINE Taken(r) ==
              /\ ops'[o].kind = r.kind /\ ops'[o].from = r.from
              /\ ops'[o].by = r.by /\ ops'[o].host = r.host
              /\ ops'[o].state = "running"
              /\ DOMAIN ops' = DOMAIN ops \cup {o}
              /\ \A i \in DOMAIN ops : ops'[i] = ops[i]
<1>1. ASSUME NEW r \in Requests, TakeUp(r) PROVE Taken(r)
  <2>1. o = Len(ops) + 1
    BY <1>1, TakeUpKeeps
  <2>2. ops'[o] = [by |-> r.by, kind |-> r.kind, host |-> r.host,
                   from |-> r.from, state |-> "running"]
    BY <1>1, <2>1, TakeUpKeeps
  <2>3. DOMAIN ops' = DOMAIN ops \cup {o} /\ \A i \in DOMAIN ops : ops'[i] = ops[i]
    BY <1>1, <2>1, TakeUpKeeps
  <2>4. QED
    BY <2>2, <2>3
<1>2. ASSUME NEW p \in Creates, Post(p)
      PROVE  Request(p) \in Requests /\ Taken(Request(p)) /\ pc[p] \in DOMAIN Kind
  BY <1>1, <1>2, RequestType DEF Post
<1>3. CASE TakeUpLate
  <2>1. PICK r \in late : TakeUp(r) /\ late' = late \ {r}
    BY <1>3 DEF TakeUpLate
  <2>2. r \in Requests
    BY DEF TypeOK
  <2>3. QED
    BY <1>1, <1>3, <2>1, <2>2
<1>4. ASSUME NEW p \in Creates, UploadFiles(p) PROVE DOMAIN ops' = DOMAIN ops
  <2>1. op[p] \in DOMAIN ops
    BY <1>4 DEF UploadFiles, OwnInv, OwnsOperation
  <2>2. QED
    BY <1>4, <2>1, EndingKeeps DEF UploadFiles
<1>5. ASSUME NEW i \in DOMAIN ops, OperationEnds(i) PROVE DOMAIN ops' = DOMAIN ops
  BY <1>5, EndingKeeps DEF OperationEnds
<1>6. QED
  <2>1. CASE \E p \in Creates : Post(p)
    BY <1>2, <2>1
  <2>2. ~TakeUpLate /\ ~(\E p \in Creates : Post(p)) => DOMAIN ops' = DOMAIN ops
    BY <1>4, <1>5, OperationSteps
  <2>3. QED
    BY <1>3, <2>1, <2>2

(* The artifacts a request or an operation starts devices from are there    *)
(* and whole, unless the configuration names others.                        *)
Brought(from, by, on) ==
    IF from = 0
    THEN source[by] = "config"
    ELSE /\ from \in DOMAIN ops
         /\ ops[from].kind # "devices" /\ ops[from].state = "done"
         /\ ops[from].by = by /\ ops[from].host = on

ArtifactsAt(p) ==
    /\ pc[p] = "start" => Brought(artifacts[p], p, host[p])
    /\ pc[p] \in {"idle", "createHost"} => artifacts[p] = 0

ArtifactsInv ==
    /\ \A p \in Creates : ArtifactsAt(p)
    /\ \A r \in late : r.kind = "devices" => Brought(r.from, r.by, r.host)
    /\ \A o \in DOMAIN ops :
          ops[o].kind = "devices" => Brought(ops[o].from, ops[o].by, ops[o].host)

(* The source of a command is settled as it begins. *)
LEMMA SourceKept ==
    ASSUME TypeOK, CreatesInv, [Next]_vars, NEW p \in Creates, source[p] # "none"
    PROVE  source'[p] = source[p]
<1>1. pc[p] # "idle"
  BY DEF CreatesInv, CreateAt
<1>2. CASE Call(p)
  BY <1>2 DEF Call, Unanswered, CreateHost, Post, UploadFiles, Wait
<1>3. QED
  BY <1>1, <1>2, CreateSteps DEF StartCreate, Concludes, Rests

LEMMA BroughtKept ==
    ASSUME TypeOK, CreatesInv, OwnInv, [Next]_vars
    PROVE  \A from, on : \A by \in Creates :
              Brought(from, by, on) => Brought(from, by, on)'
<1> SUFFICES ASSUME NEW from, NEW on, NEW by \in Creates, Brought(from, by, on)
             PROVE  Brought(from, by, on)'
  OBVIOUS
<1>1. CASE from = 0
  BY <1>1, SourceKept DEF Brought
<1>2. CASE from # 0
  BY <1>2, HistoryKept DEF Brought, OpsKept
<1>3. QED
  BY <1>1, <1>2

(* The devices a command asks for it asks for with its artifacts. *)
LEMMA RequestBrought ==
    ASSUME TypeOK, CreatesInv, ArtifactsInv, NEW p \in Creates,
           pc[p] \in DOMAIN Kind, Request(p).kind = "devices"
    PROVE  Brought(Request(p).from, Request(p).by, Request(p).host)
<1>1. pc[p] = "start"
  BY DEF Request, Kind
<1>2. QED
  BY <1>1 DEF Request, ArtifactsInv, ArtifactsAt

LEMMA ArtifactsAtInductive ==
    ASSUME TypeOK, CreatesInv, OwnInv, ArtifactsInv, [Next]_vars, NEW p \in Creates
    PROVE  ArtifactsAt(p)'
<1> USE DEF Go, Return, createVars, hostVars
<1>1. ArtifactsAt(p) /\ p \in Procs /\ CreateAt(p)
  BY DEF ArtifactsInv, Procs, CreatesInv
<1>2. CASE Rests(p)
  BY <1>1, <1>2, BroughtKept DEF ArtifactsAt, Rests, Brought
<1>3. CASE Concludes(p)
  BY <1>3 DEF Concludes, ArtifactsAt
<1>4. CASE StartCreate(p)
  <2>1. pc[p] = "idle" /\ artifacts'[p] = 0
    BY <1>1, <1>4 DEF StartCreate, ArtifactsAt
  <2>2. pc'[p] = "start" => source'[p] = "config"
    BY <1>1, <1>4 DEF StartCreate, FirstCall, TypeOK
  <2>3. QED
    BY <2>1, <2>2 DEF ArtifactsAt, Brought
<1>5. CASE Unanswered(p)
  BY <1>1, <1>5 DEF Unanswered, TypeOK, ArtifactsAt, Brought, Kind
<1>6. CASE CreateHost(p)
  <2>1. pc[p] = "createHost" /\ artifacts'[p] = 0 /\ source' = source
    BY <1>1, <1>6 DEF CreateHost, ArtifactsAt
  <2>2. pc'[p] = "start" => source[p] = "config"
    BY <1>1, <1>6 DEF CreateHost, FirstCall, TypeOK, CreateAt
  <2>3. QED
    BY <2>1, <2>2 DEF ArtifactsAt, Brought
<1>7. CASE Post(p)
  BY <1>1, <1>7 DEF Post, TypeOK, ArtifactsAt
<1>8. CASE UploadFiles(p)
  <2>1. pc'[p] = "start" /\ artifacts'[p] = op[p] /\ UNCHANGED host
    BY <1>1, <1>8 DEF UploadFiles, TypeOK
  <2>2. OwnsOperation(p) /\ ops[op[p]].kind = "upload" /\ op[p] # 0
    BY <1>8 DEF UploadFiles, OwnInv, OwnsOperation, TypeOK
  <2>3. ops'[op[p]].state = "done"
    BY <1>8, <2>2, EndingKeeps DEF UploadFiles, OwnsOperation
  <2>4. QED
    BY <2>1, <2>2, <2>3, HistoryKept DEF ArtifactsAt, Brought, OwnsOperation, OpsKept
<1>9. CASE Wait(p)
  <2>1. CASE pc'[p] = "start"
    <3>1. /\ ops[op[p]].state = "done" /\ ops[op[p]].kind = "fetch"
          /\ artifacts'[p] = op[p] /\ UNCHANGED <<host, ops>>
      BY <1>1, <1>9, <2>1 DEF Wait, Connecting, TypeOK
    <3>2. OwnsOperation(p) /\ op[p] # 0
      BY <1>9 DEF Wait, OwnInv, OwnsOperation, TypeOK
    <3>3. QED
      BY <2>1, <3>1, <3>2 DEF ArtifactsAt, Brought, OwnsOperation
  <2>2. CASE pc'[p] # "start"
    BY <1>1, <1>9, <2>2 DEF Wait, Connecting, TypeOK, ArtifactsAt
  <2>3. QED
    BY <2>1, <2>2
<1>10. QED
  BY <1>2, <1>3, <1>4, <1>5, <1>6, <1>7, <1>8, <1>9, CreateSteps DEF Call

LEMMA ArtifactsInductive ==
    ASSUME TypeOK, CreatesInv, OwnInv, ArtifactsInv, [Next]_vars
    PROVE  ArtifactsInv'
<1>1. \A p \in Creates : ArtifactsAt(p)'
  BY ArtifactsAtInductive
<1>2. ASSUME NEW r \in late', r.kind = "devices" PROVE Brought(r.from, r.by, r.host)'
  <2>1. r \in Requests /\ r.by \in Creates /\ Brought(r.from, r.by, r.host)
    <3>1. CASE r \in late
      BY <1>2, <3>1 DEF ArtifactsInv, TypeOK, Requests
    <3>2. CASE r \notin late
      <4>1. PICK p \in Creates : pc[p] \in DOMAIN Kind /\ r = Request(p)
        BY <1>2, <3>2, LateGrows
      <4>2. QED
        BY <1>2, <4>1, RequestBrought, RequestType DEF Requests
    <3>3. QED
      BY <3>1, <3>2
  <2>2. QED
    BY <2>1, BroughtKept
<1>3. ASSUME NEW o \in DOMAIN ops', ops'[o].kind = "devices"
      PROVE  Brought(ops[o].from, ops[o].by, ops[o].host)'
  <2>1. CASE o \in DOMAIN ops
    <3>1. /\ ops'[o].kind = ops[o].kind /\ ops'[o].from = ops[o].from
          /\ ops'[o].by = ops[o].by /\ ops'[o].host = ops[o].host
      BY <2>1, HistoryKept DEF OpsKept
    <3>2. ops[o] \in Operations
      BY <2>1 DEF TypeOK
    <3>3. Brought(ops[o].from, ops[o].by, ops[o].host) /\ ops[o].by \in Creates
      BY <1>3, <2>1, <3>1, <3>2 DEF ArtifactsInv, Operations
    <3>4. QED
      BY <3>1, <3>3, BroughtKept DEF Brought
  <2>2. CASE o \notin DOMAIN ops
    <3>1. PICK r \in Requests :
            /\ r \in late \/ \E p \in Creates : pc[p] \in DOMAIN Kind /\ r = Request(p)
            /\ ops'[o].kind = r.kind /\ ops'[o].from = r.from
            /\ ops'[o].by = r.by /\ ops'[o].host = r.host
      BY <1>3, <2>2, OperationsGrow
    <3>2. Brought(r.from, r.by, r.host) /\ r.by \in Creates
      BY <1>3, <3>1, RequestBrought DEF ArtifactsInv, Requests
    <3>3. QED
      BY <3>1, <3>2, BroughtKept DEF Brought
  <2>3. QED
    BY <2>1, <2>2
<1>4. QED
  BY <1>1, <1>2, <1>3 DEF ArtifactsInv

-----------------------------------------------------------------------------
(* How many groups create starts *)

Groups(p)     == {o \in DOMAIN ops : ops[o].by = p /\ ops[o].kind = "devices"}
LateStarts(p) == {r \in late : r.by = p /\ r.kind = "devices"}
Starts(p)     == Cardinality(Groups(p)) + Cardinality(LateStarts(p))

(* How many starts a command can have asked for: one with each try. *)
StartsSent(p) ==
    IF pc[p] = "start" THEN tries[p]
    ELSE IF \/ pc[p] \in {"connect", "done"}
            \/ pc[p] = "wait" /\ ops[op[p]].kind = "devices"
         THEN RetryAttempts + 1
         ELSE 0

StartsInv ==
    /\ IsFiniteSet(late)
    /\ \A p \in Creates : Starts(p) <= StartsSent(p)

LEMMA StartsFinite ==
    ASSUME TypeOK, IsFiniteSet(late)
    PROVE  \A p : /\ IsFiniteSet(Groups(p)) /\ IsFiniteSet(LateStarts(p))
                  /\ Cardinality(Groups(p)) \in Nat /\ Cardinality(LateStarts(p)) \in Nat
<1> SUFFICES ASSUME NEW p
             PROVE  /\ IsFiniteSet(Groups(p)) /\ IsFiniteSet(LateStarts(p))
                    /\ Cardinality(Groups(p)) \in Nat
                    /\ Cardinality(LateStarts(p)) \in Nat
  OBVIOUS
<1>1. IsFiniteSet(Groups(p))
  <2>1. Len(ops) \in Nat /\ Groups(p) \in SUBSET (1..Len(ops))
    BY DEF Groups, TypeOK
  <2>2. IsFiniteSet(1..Len(ops))
    BY <2>1, FS_Interval
  <2>3. QED
    BY <2>1, <2>2, FS_Subset
<1>2. IsFiniteSet(LateStarts(p))
  BY FS_Subset DEF LateStarts
<1>3. QED
  BY <1>1, <1>2, FS_CardinalityType

(* A step leaves the starts of a command as they are, or the command is     *)
(* asking for devices and there is one more of them.                        *)
LEMMA StartsCounted ==
    ASSUME TypeOK, CreatesInv, OwnInv, IsFiniteSet(late), [Next]_vars, NEW p \in Creates
    PROVE  /\ IsFiniteSet(late')
           /\ \/ Starts(p)' <= Starts(p)
              \/ /\ Starts(p)' <= Starts(p) + 1
                 /\ pc[p] = "start" /\ (Post(p) \/ Unanswered(p))
<1>1. /\ IsFiniteSet(Groups(p)) /\ IsFiniteSet(LateStarts(p))
      /\ Cardinality(Groups(p)) \in Nat /\ Cardinality(LateStarts(p)) \in Nat
  BY StartsFinite
<1>2. ASSUME UNCHANGED late, Groups(p)' = Groups(p)
      PROVE  IsFiniteSet(late') /\ Starts(p)' <= Starts(p)
  BY <1>1, <1>2 DEF Starts, LateStarts
<1>3. ASSUME DOMAIN ops' = DOMAIN ops PROVE Groups(p)' = Groups(p)
  BY <1>3, HistoryKept DEF Groups, OpsKept
<1>4. ASSUME NEW q \in Creates, Unanswered(q), ~UNCHANGED late
      PROVE  /\ IsFiniteSet(late')
             /\ \/ Starts(p)' <= Starts(p)
                \/ Starts(p)' <= Starts(p) + 1 /\ pc[p] = "start" /\ Unanswered(p)
  <2>1. late' = late \cup {Request(q)} /\ UNCHANGED ops /\ pc[q] \in DOMAIN Kind
    BY <1>4 DEF Unanswered
  <2>2. IsFiniteSet(late') /\ Groups(p)' = Groups(p)
    BY <2>1, FS_AddElement DEF Groups
  <2>3. CASE q = p /\ Request(q).kind = "devices"
    <3>1. LateStarts(p)' = LateStarts(p) \cup {Request(q)}
      BY <2>1, <2>3 DEF LateStarts, Request
    <3>2. Cardinality(LateStarts(p)') <= Cardinality(LateStarts(p)) + 1
          /\ Cardinality(LateStarts(p)') \in Nat
      <4>1. Cardinality(LateStarts(p) \cup {Request(q)}) =
               IF Request(q) \in LateStarts(p) THEN Cardinality(LateStarts(p))
               ELSE Cardinality(LateStarts(p)) + 1
        BY <1>1, FS_AddElement
      <4>2. QED
        BY <1>1, <3>1, <4>1
    <3>3. pc[p] = "start"
      BY <2>1, <2>3 DEF Request, Kind
    <3>4. QED
      BY <1>1, <1>4, <2>2, <2>3, <3>2, <3>3 DEF Starts
  <2>4. CASE ~(q = p /\ Request(q).kind = "devices")
    <3>1. LateStarts(p)' = LateStarts(p)
      BY <2>1, <2>4 DEF LateStarts, Request
    <3>2. QED
      BY <1>1, <2>2, <3>1 DEF Starts
  <2>5. QED
    BY <2>3, <2>4
<1>5. ASSUME NEW o \in DOMAIN ops', o \notin DOMAIN ops
      PROVE  /\ IsFiniteSet(late')
             /\ \/ Starts(p)' <= Starts(p)
                \/ Starts(p)' <= Starts(p) + 1 /\ pc[p] = "start" /\ Post(p)
  <2>1. PICK r \in Requests :
          /\ \/ r \in late /\ late' = late \ {r} /\ TakeUpLate
             \/ \E q \in Creates : pc[q] \in DOMAIN Kind /\ r = Request(q) /\ Post(q)
          /\ ops'[o].kind = r.kind /\ ops'[o].by = r.by
          /\ DOMAIN ops' = DOMAIN ops \cup {o}
          /\ \A i \in DOMAIN ops : ops'[i] = ops[i]
    BY <1>5, OperationsGrow
  <2>2. CASE ~(r.by = p /\ r.kind = "devices")
    <3>1. Groups(p)' = Groups(p)
      BY <1>5, <2>1, <2>2 DEF Groups
    <3>2. late' = late \/ late' = late \ {r}
      BY <2>1 DEF Post
    <3>3. LateStarts(p)' = LateStarts(p) /\ IsFiniteSet(late')
      BY <2>2, <3>2, FS_RemoveElement DEF LateStarts
    <3>4. QED
      BY <1>1, <3>1, <3>3 DEF Starts
  <2>3. CASE r.by = p /\ r.kind = "devices"
    <3>1. Groups(p)' = Groups(p) \cup {o} /\ o \notin Groups(p)
      BY <1>5, <2>1, <2>3 DEF Groups
    <3>2. Cardinality(Groups(p)') = Cardinality(Groups(p)) + 1
      BY <1>1, <3>1, FS_AddElement
    <3>3. CASE r \in late /\ late' = late \ {r}
      <4>1. LateStarts(p)' = LateStarts(p) \ {r} /\ r \in LateStarts(p)
        BY <2>3, <3>3 DEF LateStarts
      <4>2. Cardinality(LateStarts(p)') = Cardinality(LateStarts(p)) - 1
        BY <1>1, <4>1, FS_RemoveElement
      <4>3. QED
        BY <1>1, <3>2, <3>3, <4>2, FS_RemoveElement DEF Starts
    <3>4. ASSUME NEW q \in Creates, pc[q] \in DOMAIN Kind, r = Request(q), Post(q)
          PROVE  /\ IsFiniteSet(late')
                 /\ Starts(p)' <= Starts(p) + 1 /\ pc[p] = "start" /\ Post(p)
      <4>1. q = p /\ pc[q] = "start"
        BY <2>3, <3>4 DEF Request, Kind
      <4>2. UNCHANGED late
        BY <3>4 DEF Post
      <4>3. Cardinality(LateStarts(p)') = Cardinality(LateStarts(p))
        BY <4>2 DEF LateStarts
      <4>4. QED
        BY <1>1, <3>2, <3>4, <4>1, <4>2, <4>3 DEF Starts
    <3>5. QED
      BY <2>1, <3>3, <3>4
  <2>4. QED
    BY <2>2, <2>3
<1>6. CASE DOMAIN ops' = DOMAIN ops
  <2>1. CASE UNCHANGED late
    BY <1>2, <1>3, <1>6, <2>1
  <2>2. CASE ~UNCHANGED late /\ \E q \in Creates : Unanswered(q)
    BY <1>4, <2>2
  <2>3. CASE ~UNCHANGED late /\ ~\E q \in Creates : Unanswered(q)
    <3>1. TakeUpLate
      BY <2>3 DEF Next, vars, hostVars, StartCreate, Call, CreateHost, Wait, Post,
             UploadFiles, StartConnect, List, ListHosts, ListConnections, Collect,
             Choose, ListCVDs, Connect, StartAgent, Report, Finish, AgentAnswers,
             HostGoes, OperationEnds
    <3>2. PICK r \in Requests : TakeUp(r)
      BY <3>1 DEF TakeUpLate, TypeOK
    <3>3. QED
      BY <1>6, <3>2, TakeUpKeeps
  <2>4. QED
    BY <2>1, <2>2, <2>3
<1>7. CASE DOMAIN ops' # DOMAIN ops
  <2>1. \E o \in DOMAIN ops' : o \notin DOMAIN ops
    BY <1>7, HistoryKept DEF OpsKept
  <2>2. QED
    BY <1>5, <2>1
<1>8. QED
  BY <1>6, <1>7

LEMMA StartsSentGrows ==
    ASSUME TypeOK, CreatesInv, OwnInv, [Next]_vars, NEW p \in Creates
    PROVE  /\ StartsSent(p) \in 0 .. RetryAttempts + 1
           /\ StartsSent(p)' >= StartsSent(p)
           /\ pc[p] = "start" /\ (Post(p) \/ Unanswered(p))
                 => StartsSent(p)' >= StartsSent(p) + 1
<1> USE DeviceCommandsAssumption DEF DeviceCommandsAssumption, Go, Return
<1>1. StartsSent(p) \in 0 .. RetryAttempts + 1 /\ tries[p] \in 0..RetryAttempts
  BY DEF StartsSent, TypeOK
<1>2. tries'[p] \in 0..RetryAttempts /\ StartsSent(p)' \in 0 .. RetryAttempts + 1
  <2>1. TypeOK'
    BY TypeInductive
  <2>2. tries'[p] \in 0..RetryAttempts
    BY <2>1 DEF TypeOK
  <2>3. QED
    BY <2>2, DeviceCommandsAssumption DEF StartsSent, DeviceCommandsAssumption
<1>3. p \in Procs /\ CreateAt(p)
  BY DEF Procs, CreatesInv
<1>4. CASE Rests(p)
  <2>1. pc[p] = "wait" => ops'[op[p]].kind = ops[op[p]].kind
    BY HistoryKept DEF OwnInv, OwnsOperation, OpsKept
  <2>2. ~(pc[p] = "start" /\ (Post(p) \/ Unanswered(p)))
    BY <1>1, <1>3, <1>4 DEF Rests, Post, Unanswered, TypeOK
  <2>3. QED
    BY <1>1, <1>4, <2>1, <2>2 DEF Rests, StartsSent
<1>5. CASE Concludes(p)
  BY <1>1, <1>5 DEF Concludes, StartsSent, Post, Unanswered
<1>6. CASE StartCreate(p) \/ CreateHost(p) \/ UploadFiles(p)
  <2>1. pc[p] \in {"idle", "createHost", "uploadFiles"}
    BY <1>6 DEF StartCreate, CreateHost, UploadFiles
  <2>2. QED
    BY <1>2, <2>1 DEF StartsSent, Post, Unanswered, Kind
<1>7. CASE Unanswered(p)
  <2>1. UNCHANGED <<ops, op>>
    BY <1>7 DEF Unanswered, hostVars, createVars
  <2>2. CASE UNCHANGED pc /\ tries' = [tries EXCEPT ![p] = @ + 1]
    BY <1>1, <1>7, <2>1, <2>2 DEF StartsSent, TypeOK, Unanswered, Post, Kind
  <2>3. CASE pc'[p] = "done"
    BY <1>1, <2>3 DEF StartsSent
  <2>4. QED
    BY <1>3, <1>7, <2>2, <2>3 DEF Unanswered, TypeOK
<1>8. CASE Post(p)
  <2>1. CASE pc[p] = "start"
    <3>1. pc'[p] = "wait" /\ op'[p] = Len(ops) + 1
      BY <1>3, <1>8, <2>1 DEF Post, TypeOK
    <3>2. ops'[Len(ops) + 1].kind = Request(p).kind
      <4>1. Request(p) \in Requests /\ TakeUp(Request(p))
        BY <1>8, RequestType DEF Post
      <4>2. ops'[Len(ops) + 1] =
              [by |-> Request(p).by, kind |-> Request(p).kind,
               host |-> Request(p).host, from |-> Request(p).from,
               state |-> "running"]
        BY <4>1, TakeUpKeeps
      <4>3. QED
        BY <4>2
    <3>3. StartsSent(p)' = RetryAttempts + 1
      BY <2>1, <3>1, <3>2 DEF StartsSent, Request, Kind
    <3>4. QED
      BY <1>1, <2>1, <3>3 DEF StartsSent
  <2>2. CASE pc[p] # "start"
    BY <1>2, <1>8, <2>2 DEF StartsSent, Post, Kind
  <2>3. QED
    BY <2>1, <2>2
<1>9. CASE Wait(p)
  <2>1. pc[p] = "wait" /\ UNCHANGED <<ops, op>>
        /\ (pc'[p] \in {"connect", "done"} \/ ops[op[p]].kind = "fetch")
    BY <1>3, <1>9 DEF Wait, Connecting, TypeOK, hostVars
  <2>2. QED
    BY <1>1, <1>2, <2>1 DEF StartsSent
<1>10. QED
  BY <1>4, <1>5, <1>6, <1>7, <1>8, <1>9, CreateSteps DEF Call

LEMMA LateFinite ==
    ASSUME IsFiniteSet(late), [Next]_vars
    PROVE  IsFiniteSet(late')
<1>1. \/ late' = late
      \/ \E r : late' = late \cup {r}
      \/ \E r : late' = late \ {r}
  BY DEF Next, vars, hostVars, StartCreate, Call, Unanswered, CreateHost, Wait, Post,
         UploadFiles, StartConnect, List, ListHosts, ListConnections, Collect, Choose,
         ListCVDs, Connect, StartAgent, Report, Finish, AgentAnswers, HostGoes,
         TakeUpLate, OperationEnds
<1>2. QED
  BY <1>1, FS_AddElement, FS_RemoveElement

LEMMA StartsInductive ==
    ASSUME TypeOK, CreatesInv, OwnInv, StartsInv, [Next]_vars
    PROVE  StartsInv'
<1>1. IsFiniteSet(late)
  BY DEF StartsInv
<1>2. ASSUME NEW p \in Creates PROVE Starts(p)' <= StartsSent(p)' /\ IsFiniteSet(late')
  <2>1. Starts(p) <= StartsSent(p) /\ Starts(p) \in Nat
    BY <1>1, StartsFinite DEF StartsInv, Starts
  <2>2. IsFiniteSet(late')
    BY <1>1, StartsCounted
  <2>3. Starts(p)' \in Nat
    <3>1. Len(ops') \in Nat /\ Groups(p)' \in SUBSET (1..Len(ops'))
      BY TypeInductive DEF Groups, TypeOK
    <3>2. IsFiniteSet(Groups(p)')
      <4>1. IsFiniteSet(1..Len(ops'))
        BY <3>1, FS_Interval
      <4>2. QED
        BY <3>1, <4>1, FS_Subset
    <3>3. LateStarts(p)' \in SUBSET late'
      BY DEF LateStarts
    <3>4. IsFiniteSet(LateStarts(p)')
      BY <2>2, <3>3, FS_Subset
    <3>5. QED
      BY <3>2, <3>4, FS_CardinalityType DEF Starts
  <2>4. StartsSent(p)' \in 0 .. RetryAttempts + 1
    <3>1. TypeOK'
      BY TypeInductive
    <3>2. tries'[p] \in 0..RetryAttempts
      BY <3>1 DEF TypeOK
    <3>3. QED
      BY <3>2, DeviceCommandsAssumption DEF StartsSent, DeviceCommandsAssumption
  <2>5. QED
    BY <1>1, <2>1, <2>2, <2>3, <2>4, StartsCounted, StartsSentGrows,
       DeviceCommandsAssumption DEF DeviceCommandsAssumption
<1>3. QED
  BY <1>2, LateFinite DEF StartsInv

-----------------------------------------------------------------------------
(* The group create connects to *)

StartedBy(o) == {d \in Devices : started[d] = o}

(* An operation that is done has started its devices, and no other has      *)
(* any; a command connects to the devices of one of its own.                *)
WholeInv ==
    /\ \A d \in Devices : started[d] \in 0..Len(ops)
    /\ \A o \in DOMAIN ops :
          IF ops[o].kind = "devices" /\ ops[o].state = "done"
          THEN Cardinality(StartedBy(o)) = NumInstances
          ELSE StartedBy(o) = {}
    /\ \A p \in Creates :
          work[p] # {} => \E o \in Groups(p) :
              ops[o].state = "done" /\ work[p] = StartedBy(o)

(* Devices are started by the end of their operation, which alone makes it  *)
(* done.                                                                    *)
LEMMA StartedSteps ==
    ASSUME [Next]_vars, ~UNCHANGED started
    PROVE  \E o \in DOMAIN ops : OperationEnds(o)
BY DEF Next, vars, hostVars, StartCreate, Call, Unanswered, CreateHost, Wait, Post,
       UploadFiles, StartConnect, List, ListHosts, ListConnections, Collect, Choose,
       ListCVDs, Connect, StartAgent, Report, Finish, AgentAnswers, HostGoes,
       TakeUpLate

LEMMA DoneByEnding ==
    ASSUME TypeOK, CreatesInv, OwnInv, WholeInv, [Next]_vars, UNCHANGED started,
           NEW o \in DOMAIN ops, ops[o].kind = "devices"
    PROVE  ops'[o].state = "done" <=> ops[o].state = "done"
<1>1. ASSUME NEW r \in Requests, TakeUp(r) PROVE ops'[o] = ops[o]
  BY <1>1, TakeUpKeeps
<1>2. ASSUME NEW p \in Creates, Post(p) PROVE ops'[o] = ops[o]
  BY <1>1, <1>2, RequestType DEF Post
<1>3. CASE TakeUpLate
  BY <1>1, <1>3 DEF TakeUpLate, TypeOK
<1>4. ASSUME NEW p \in Creates, UploadFiles(p) PROVE ops'[o] = ops[o]
  <2>1. op[p] \in DOMAIN ops /\ op[p] # o
    BY <1>4 DEF UploadFiles, OwnInv, OwnsOperation
  <2>2. QED
    BY <1>4, <2>1, EndingKeeps DEF UploadFiles
<1>5. ASSUME NEW e \in DOMAIN ops, OperationEnds(e)
      PROVE  ops'[o].state = "done" <=> ops[o].state = "done"
  <2>1. ops[e].state = "running"
    BY <1>5 DEF OperationEnds
  <2>2. CASE ops' = [ops EXCEPT ![e].state = "failed"]
    BY <2>1, <2>2, EndingKeeps
  <2>3. CASE ops' = [ops EXCEPT ![e].state = "done"] /\ ops[e].kind = "fetch"
    BY <2>1, <2>3, EndingKeeps
  <2>4. ASSUME ops' = [ops EXCEPT ![e].state = "done"], NEW group \in SUBSET Devices,
               \A d \in group : started[d] = 0,
               Cardinality(group) = NumInstances,
               started' = [d \in Devices |-> IF d \in group THEN e ELSE started[d]]
        PROVE  FALSE
    <3>1. group # {}
      BY <2>4, FS_EmptySet, DeviceCommandsAssumption DEF DeviceCommandsAssumption
    <3>2. PICK d \in group : TRUE
      BY <3>1
    <3>3. e # 0
      BY DEF TypeOK
    <3>4. started'[d] = e /\ started[d] = 0
      BY <2>4, <3>2
    <3>5. QED
      BY <3>3, <3>4
  <2>5. QED
    <3> DEFINE free  == {d \in Devices \ DOMAIN FirstDevices : started[d] = 0}
               group == {d \in free : Cardinality({x \in free : x <= d}) <= NumInstances}
    <3>1. CASE /\ ops' = [ops EXCEPT ![e].state = "done"]
               /\ Cardinality(group) = NumInstances
               /\ started' = [d \in Devices |-> IF d \in group THEN e ELSE started[d]]
      <4>1. group \in SUBSET Devices /\ \A d \in group : started[d] = 0
        OBVIOUS
      <4> HIDE DEF group
      <4>2. QED
        BY <2>4, <3>1, <4>1
    <3>2. QED
      BY <1>5, <2>2, <2>3, <3>1 DEF OperationEnds
<1>6. QED
  BY <1>2, <1>3, <1>4, <1>5, OperationSteps

(* What an operation has started, it has started for good. *)
LEMMA StartedKept ==
    ASSUME TypeOK, CreatesInv, OwnInv, WholeInv, [Next]_vars
    PROVE  /\ \A d \in Devices : started'[d] \in 0..Len(ops')
           /\ \A o \in DOMAIN ops :
                 ops[o].kind = "devices" /\ ops[o].state = "done"
                    => StartedBy(o)' = StartedBy(o)
           /\ \A o \in DOMAIN ops' :
                 IF ops'[o].kind = "devices" /\ ops'[o].state = "done"
                 THEN Cardinality(StartedBy(o)') = NumInstances
                 ELSE StartedBy(o)' = {}
<1> DEFINE Whole(o) == IF ops[o].kind = "devices" /\ ops[o].state = "done"
                       THEN Cardinality(StartedBy(o)) = NumInstances
                       ELSE StartedBy(o) = {}
<1>1. ops \in Seq(Operations) /\ ops' \in Seq(Operations) /\ DOMAIN ops \subseteq DOMAIN ops'
  BY TypeInductive, HistoryKept DEF TypeOK, OpsKept
<1>2. Len(ops) \in Nat /\ Len(ops') \in Nat /\ Len(ops) <= Len(ops')
      /\ DOMAIN ops = 1..Len(ops) /\ DOMAIN ops' = 1..Len(ops')
  BY <1>1
<1>3. CASE UNCHANGED started
  <2>1. \A o : StartedBy(o)' = StartedBy(o)
    BY <1>3 DEF StartedBy
  <2>2. \A d \in Devices : started'[d] \in 0..Len(ops')
    BY <1>2, <1>3 DEF WholeInv
  <2>3. ASSUME NEW o \in DOMAIN ops' PROVE Whole(o)'
    <3>1. CASE o \notin DOMAIN ops
      <4>1. ops'[o].state = "running"
        BY <2>3, <3>1, OperationsGrow
      <4>2. StartedBy(o) = {}
        BY <1>2, <2>3, <3>1 DEF StartedBy, WholeInv
      <4>3. QED
        BY <2>1, <4>1, <4>2
    <3>2. CASE o \in DOMAIN ops
      <4>1. Whole(o)
        BY <3>2 DEF WholeInv
      <4>2. ops'[o].kind = ops[o].kind
        BY <3>2, HistoryKept DEF OpsKept
      <4>3. ops[o].kind = "devices" =>
               (ops'[o].state = "done" <=> ops[o].state = "done")
        BY <1>3, <3>2, DoneByEnding
      <4>4. QED
        BY <2>1, <4>1, <4>2, <4>3
    <3>3. QED
      BY <3>1, <3>2
  <2>4. QED
    BY <2>1, <2>2, <2>3
<1>4. CASE ~UNCHANGED started
  <2>1. PICK e \in DOMAIN ops : OperationEnds(e)
    BY <1>4, StartedSteps
  <2>2. PICK group \in SUBSET {d \in Devices : started[d] = 0} :
          /\ Cardinality(group) = NumInstances
          /\ started' = [d \in Devices |-> IF d \in group THEN e ELSE started[d]]
          /\ ops' = [ops EXCEPT ![e].state = "done"]
          /\ ops[e].kind = "devices" /\ ops[e].state = "running"
    BY <1>4, <2>1 DEF OperationEnds
  <2>3. /\ DOMAIN ops' = DOMAIN ops /\ ops'[e].state = "done"
        /\ ops'[e].kind = "devices"
        /\ \A i \in DOMAIN ops : i # e => ops'[i] = ops[i]
    BY <2>2, EndingKeeps DEF OpsKept
  <2>4. StartedBy(e) = {} /\ e # 0 /\ e \in 0..Len(ops')
    BY <1>2, <2>2, <2>3 DEF WholeInv
  <2>5. StartedBy(e)' = group
    BY <2>2, <2>4 DEF StartedBy
  <2>6. \A o \in DOMAIN ops : o # e => StartedBy(o)' = StartedBy(o)
    BY <1>2, <2>2 DEF StartedBy
  <2>7. \A d \in Devices : started'[d] \in 0..Len(ops')
    BY <1>2, <2>2, <2>4 DEF WholeInv
  <2>8. ASSUME NEW o \in DOMAIN ops' PROVE Whole(o)'
    <3>1. CASE o = e
      BY <2>2, <2>3, <2>5, <3>1
    <3>2. CASE o # e
      BY <2>3, <2>6, <3>2 DEF WholeInv
    <3>3. QED
      BY <3>1, <3>2
  <2>9. QED
    BY <2>2, <2>6, <2>7, <2>8
<1>5. QED
  BY <1>3, <1>4

LEMMA WholeInductive ==
    ASSUME TypeOK, CreatesInv, OwnInv, WholeInv, [Next]_vars
    PROVE  WholeInv'
<1>1. ASSUME NEW p \in Creates, work'[p] # {}
      PROVE  \E o \in Groups(p)' : ops'[o].state = "done" /\ work'[p] = StartedBy(o)'
  <2>1. CASE work'[p] = work[p]
    <3>1. PICK o \in Groups(p) : ops[o].state = "done" /\ work[p] = StartedBy(o)
      BY <1>1, <2>1 DEF WholeInv
    <3>2. o \in Groups(p)' /\ ops'[o].state = "done" /\ StartedBy(o)' = StartedBy(o)
      BY <3>1, HistoryKept, StartedKept DEF Groups, OpsKept
    <3>3. QED
      BY <2>1, <3>1, <3>2
  <2>2. CASE work'[p] # work[p]
    <3>1. Wait(p)
      BY <2>2, CreateSteps DEF Rests, Concludes, Call, StartCreate, Unanswered,
             CreateHost, Post, UploadFiles, connectVars
    <3>2. /\ ops[op[p]].state = "done" /\ ops[op[p]].kind = "devices"
          /\ work'[p] = StartedBy(op[p]) /\ UNCHANGED <<ops, op, started>>
      BY <2>2, <3>1 DEF Wait, Connecting, StartedBy, TypeOK, Procs, hostVars
    <3>3. op[p] \in Groups(p)
      BY <3>1, <3>2 DEF Wait, OwnInv, OwnsOperation, Groups
    <3>4. QED
      BY <3>2, <3>3 DEF Groups, StartedBy
  <2>3. QED
    BY <2>1, <2>2
<1>2. QED
  BY <1>1, StartedKept DEF WholeInv

(* What create starts and connects to is its own and whole: devices are     *)
(* started from complete artifacts, although a start may be carried out     *)
(* late or twice; create connects to one whole group that it started; and   *)
(* RetryAttempts more groups is the most retries can leave.  For any number *)
(* of commands, devices and retries.                                        *)
THEOREM GroupsAreOwn == Spec => []GroupsOwn
<1> DEFINE Inv == OwnInv /\ ArtifactsInv /\ StartsInv /\ WholeInv
<1>1. Init => Inv
  <2> SUFFICES ASSUME Init PROVE Inv
    OBVIOUS
  <2> USE DeviceCommandsAssumption DEF DeviceCommandsAssumption, Procs
  <2>1. OwnInv /\ ArtifactsInv
    BY DEF Init, OwnInv, ArtifactsInv, ArtifactsAt
  <2>2. \A p \in Creates : Groups(p) = {} /\ LateStarts(p) = {} /\ StartsSent(p) = 0
    BY DEF Init, Groups, LateStarts, StartsSent
  <2>3. StartsInv
    <3>1. IsFiniteSet({}) /\ Cardinality({}) = 0
      BY FS_EmptySet
    <3>2. \A p \in Creates : Starts(p) = 0
      BY <2>2, <3>1 DEF Starts
    <3>3. late = {}
      BY DEF Init
    <3>4. QED
      BY <2>2, <3>1, <3>2, <3>3 DEF StartsInv
  <2>4. WholeInv
    BY DEF Init, WholeInv
  <2>5. QED
    BY <2>1, <2>3, <2>4
<1>2. TypeOK /\ CreatesInv /\ Inv /\ [Next]_vars => Inv'
  BY OwnInductive, ArtifactsInductive, StartsInductive, WholeInductive
<1>3. TypeOK /\ Inv => GroupsOwn
  <2> SUFFICES ASSUME TypeOK, Inv PROVE GroupsOwn
    OBVIOUS
  <2>1. FromComplete
    BY DEF FromComplete, ArtifactsInv, Brought
  <2>2. ASSUME NEW p \in Creates
        PROVE  /\ work[p] # {} =>
                    /\ Cardinality(work[p]) = NumInstances
                    /\ \E o \in Groups(p) : work[p] = StartedBy(o)
               /\ Cardinality(Groups(p)) <= RetryAttempts + 1
    <3>1. Cardinality(Groups(p)) <= RetryAttempts + 1
      <4>1. /\ Cardinality(Groups(p)) \in Nat /\ Cardinality(LateStarts(p)) \in Nat
            /\ Starts(p) <= StartsSent(p)
        BY StartsFinite DEF StartsInv
      <4>2. StartsSent(p) \in 0 .. RetryAttempts + 1
        BY DeviceCommandsAssumption DEF StartsSent, TypeOK, DeviceCommandsAssumption
      <4>3. QED
        BY <4>1, <4>2, DeviceCommandsAssumption DEF Starts, DeviceCommandsAssumption
    <3>2. QED
      BY <3>1 DEF WholeInv, Groups
  <2>3. QED
    BY <2>1, <2>2 DEF GroupsOwn, OneGroup, Groups, StartedBy
<1>4. QED
  BY <1>1, <1>2, <1>3, TypeInvariant, PTL DEF Spec

-----------------------------------------------------------------------------
(* What a command reports *)

(* A command connects only to the devices it chose, reports of each what    *)
(* its agent answered, and has an error to return exactly when one of them  *)
(* failed.                                                                  *)
ReportAt(p) ==
    /\ work[p] # {} => pc[p] \in {"connect", "done"}
    /\ pc[p] \notin {"collect", "connect", "done"} => ~merr[p]
    /\ \A d \in Devices :
          /\ conn[p][d] # "none" => d \in work[p]
          /\ reported[p][d] # "nothing" => conn[p][d] = reported[p][d]
    /\ pc[p] = "connect" => (merr[p] <=> \E d \in work[p] : reported[p][d] = "error")
    /\ pc[p] = "done" /\ work[p] # {} =>
          /\ Unreported(p) = {}
          /\ result[p] = "ok" <=> \A d \in work[p] : reported[p][d] = "status"

ReportInv == \A p \in Procs : ReportAt(p)

SameReport(q) ==
    /\ pc'[q] = pc[q] /\ work'[q] = work[q] /\ merr'[q] = merr[q]
    /\ conn'[q] = conn[q] /\ reported'[q] = reported[q] /\ result'[q] = result[q]

LEMMA ReportFrame ==
    ASSUME ReportInv, NEW p \in Procs, \A q \in Procs \ {p} : SameReport(q),
           ReportAt(p)'
    PROVE  ReportInv'
BY DEF ReportInv, ReportAt, SameReport, Unreported

(* Before it connects a command has asked no agent; then it ends with an    *)
(* error, or comes to its devices without one.                              *)
Prepares(p) ==
    /\ pc[p] \notin {"connect", "done"}
    /\ conn'[p] = conn[p] /\ reported'[p] = reported[p]
    /\ \/ /\ pc'[p] \notin {"connect", "done"} /\ work'[p] = work[p]
          /\ pc'[p] = "collect" \/ (pc[p] # "collect" /\ merr'[p] = merr[p])
       \/ pc'[p] = "done" /\ work'[p] = work[p]
       \/ /\ pc'[p] = "connect" /\ merr'[p] = merr[p]
          /\ pc[p] # "collect" \/ ~merr[p]

LEMMA ReportBefore ==
    ASSUME TypeOK, TypeOK', ReportInv, NEW p \in Procs, Prepares(p),
           \A q \in Procs \ {p} : SameReport(q)
    PROVE  ReportInv'
<1>1. work[p] = {} /\ \A d \in Devices : conn[p][d] = "none" /\ reported[p][d] = "nothing"
  <2>1. work[p] = {}
    BY DEF ReportInv, ReportAt, Prepares
  <2>2. \A d \in Devices : conn[p][d] = "none"
    BY <2>1 DEF ReportInv, ReportAt
  <2>3. \A d \in Devices : reported[p][d] \in {"nothing", "status", "error"}
    BY DEF TypeOK
  <2>4. QED
    BY <2>1, <2>2, <2>3 DEF ReportInv, ReportAt
<1>2. merr[p] => pc[p] = "collect"
  BY DEF ReportInv, ReportAt, Prepares
<1>3. work'[p] \in SUBSET Devices
  BY DEF TypeOK
<1>4. ReportAt(p)'
  BY <1>1, <1>2, <1>3 DEF Prepares, ReportAt
<1>5. QED
  BY <1>4, ReportFrame

LEMMA CreateReports ==
    ASSUME TypeOK, CreatesInv, ReportInv, NEW p \in Creates,
           StartCreate(p) \/ Call(p)
    PROVE  ReportInv'
<1> USE DEF Procs, Go, Return, connectVars, listVars
<1>1. TypeOK'
  BY CreateTypes
<1>2. \A q \in Procs \ {p} : SameReport(q)
  <2>1. CASE StartCreate(p)
    BY <2>1 DEF StartCreate, SameReport, TypeOK
  <2>2. CASE Unanswered(p)
    BY <2>2 DEF Unanswered, SameReport, TypeOK
  <2>3. CASE CreateHost(p)
    BY <2>3 DEF CreateHost, SameReport, TypeOK
  <2>4. CASE Post(p)
    BY <2>4 DEF Post, SameReport, TypeOK
  <2>5. CASE UploadFiles(p)
    BY <2>5 DEF UploadFiles, SameReport, TypeOK
  <2>6. CASE Wait(p)
    BY <2>6 DEF Wait, Connecting, SameReport, TypeOK
  <2>7. QED
    BY <2>1, <2>2, <2>3, <2>4, <2>5, <2>6 DEF Call
<1>3. Prepares(p)
  <2>1. CASE StartCreate(p)
    BY <2>1 DEF StartCreate, FirstCall, Prepares, TypeOK
  <2>2. CASE Unanswered(p)
    BY <2>2 DEF Unanswered, Kind, Prepares, TypeOK
  <2>3. CASE CreateHost(p)
    BY <2>3 DEF CreateHost, FirstCall, Prepares, TypeOK, CreatesInv, CreateAt
  <2>4. CASE Post(p)
    BY <2>4 DEF Post, Kind, Prepares, TypeOK
  <2>5. CASE UploadFiles(p)
    BY <2>5 DEF UploadFiles, Prepares, TypeOK
  <2>6. CASE Wait(p)
    BY <2>6 DEF Wait, Connecting, Prepares, TypeOK
  <2>7. QED
    BY <2>1, <2>2, <2>3, <2>4, <2>5, <2>6 DEF Call
<1>4. QED
  BY <1>1, <1>2, <1>3, ReportBefore

LEMMA ConnectReports ==
    ASSUME TypeOK, TypeOK', ReportInv, NEW p \in Connects, StartConnect(p) \/ List(p)
    PROVE  ReportInv'
<1> USE DEF Procs, Go, Return, connectVars, Connecting
<1>1. \A q \in Procs \ {p} : SameReport(q)
  <2>1. CASE StartConnect(p)
    BY <2>1 DEF StartConnect, SameReport, TypeOK
  <2>2. CASE ListHosts(p)
    BY <2>2 DEF ListHosts, SameReport, TypeOK
  <2>3. CASE ListConnections(p)
    BY <2>3 DEF ListConnections, SameReport, TypeOK
  <2>4. CASE Collect(p)
    BY <2>4 DEF Collect, SameReport, TypeOK
  <2>5. CASE Choose(p)
    BY <2>5 DEF Choose, SameReport, TypeOK
  <2>6. QED
    BY <2>1, <2>2, <2>3, <2>4, <2>5 DEF List
<1>2. Prepares(p)
  <2>1. CASE StartConnect(p)
    BY <2>1 DEF StartConnect, Prepares, TypeOK
  <2>2. CASE ListHosts(p)
    BY <2>2 DEF ListHosts, Prepares, TypeOK
  <2>3. CASE ListConnections(p)
    BY <2>3 DEF ListConnections, Prepares, TypeOK
  <2>4. CASE Collect(p)
    BY <2>4 DEF Collect, Prepares, TypeOK
  <2>5. CASE Choose(p)
    BY <2>5 DEF Choose, Prepares, TypeOK
  <2>6. QED
    BY <2>1, <2>2, <2>3, <2>4, <2>5 DEF List
<1>3. QED
  BY <1>1, <1>2, ReportBefore

LEMMA ConnectionReports ==
    ASSUME TypeOK, TypeOK', ReportInv, NEW p \in Procs,
           Connect(p) \/ \E d \in Devices : AgentAnswers(p, d)
    PROVE  ReportInv'
<1> USE DEF Go, Return
<1>1. ReportAt(p)
  BY DEF ReportInv
<1>2. CASE StartAgent(p)
  <2>1. UNCHANGED <<pc, merr, work, reported, result>>
    BY <1>2 DEF StartAgent
  <2>2. PICK now \in SUBSET {d \in work[p] : conn[p][d] = "none"} :
          conn' = [conn EXCEPT ![p] =
                      [d \in Devices |-> IF d \in now THEN "starting" ELSE @[d]]]
    BY <1>2 DEF StartAgent
  <2>3. \A q \in Procs \ {p} : SameReport(q)
    BY <2>1, <2>2 DEF SameReport, TypeOK
  <2>4. \A d \in Devices :
          conn'[p][d] = IF d \in now THEN "starting" ELSE conn[p][d]
    BY <2>2 DEF TypeOK
  <2>5. \A d \in now : d \in Devices => reported[p][d] = "nothing"
    <3>1. \A d \in Devices : reported[p][d] \in {"nothing", "status", "error"}
      BY DEF TypeOK
    <3>2. QED
      BY <1>1, <3>1 DEF ReportAt
  <2>6. \A d \in Devices :
          /\ conn'[p][d] # "none" => d \in work'[p]
          /\ reported'[p][d] # "nothing" => conn'[p][d] = reported'[p][d]
    BY <1>1, <2>1, <2>4, <2>5 DEF ReportAt
  <2>7. ReportAt(p)'
    BY <1>1, <2>1, <2>6 DEF ReportAt, Unreported
  <2>8. QED
    BY <2>3, <2>7, ReportFrame
<1>3. CASE Report(p)
  <2>1. UNCHANGED <<pc, work, conn, result>> /\ pc[p] = "connect"
    BY <1>3 DEF Report
  <2>2. PICK d \in work[p], what \in {"status", "error"} :
          /\ conn[p][d] = what
          /\ reported[p][d] = "nothing"
          /\ reported' = [reported EXCEPT ![p][d] = what]
          /\ merr' = [merr EXCEPT ![p] = @ \/ what = "error"]
    <3>1. Min(Unreported(p)) \in work[p] /\ reported[p][Min(Unreported(p))] = "nothing"
      BY <1>3, MinUnreported DEF Report, Unreported
    <3>2. QED
      BY <1>3, <3>1 DEF Report, Received
  <2>3. \A q \in Procs \ {p} : SameReport(q)
    BY <2>1, <2>2 DEF SameReport, TypeOK
  <2>4. d \in Devices /\ merr'[p] = (merr[p] \/ what = "error")
        /\ \A x \in Devices :
              reported'[p][x] = IF x = d THEN what ELSE reported[p][x]
    BY <2>2 DEF TypeOK
  <2>5. merr'[p] <=> \E x \in work'[p] : reported'[p][x] = "error"
    <3>1. merr[p] <=> \E x \in work[p] : reported[p][x] = "error"
      BY <1>1, <2>1 DEF ReportAt
    <3>2. \A x \in work[p] : x \in Devices
      BY DEF TypeOK
    <3>3. QED
      BY <2>1, <2>2, <2>4, <3>1, <3>2
  <2>6. ReportAt(p)'
    BY <1>1, <2>1, <2>2, <2>4, <2>5 DEF ReportAt
  <2>7. QED
    BY <2>3, <2>6, ReportFrame
<1>4. CASE Finish(p)
  <2>1. /\ UNCHANGED <<merr, work, conn, reported>> /\ pc[p] = "connect"
        /\ pc' = [pc EXCEPT ![p] = "done"]
        /\ result' = [result EXCEPT ![p] = IF merr[p] THEN "error" ELSE "ok"]
        /\ Unreported(p) = {}
    BY <1>4 DEF Finish, connectVars
  <2>2. \A q \in Procs \ {p} : SameReport(q)
    BY <2>1 DEF SameReport, TypeOK
  <2>3. pc'[p] = "done" /\ (result'[p] = "ok" <=> ~merr[p])
    BY <2>1 DEF TypeOK
  <2>4. ~merr[p] <=> \A d \in work[p] : reported[p][d] = "status"
    <3>1. \A d \in work[p] : reported[p][d] \in {"status", "error"}
      BY <2>1 DEF Unreported, TypeOK
    <3>2. merr[p] <=> \E d \in work[p] : reported[p][d] = "error"
      BY <1>1, <2>1 DEF ReportAt
    <3>3. QED
      BY <3>1, <3>2
  <2>5. ReportAt(p)'
    BY <1>1, <2>1, <2>3, <2>4 DEF ReportAt, Unreported
  <2>6. QED
    BY <2>2, <2>5, ReportFrame
<1>5. ASSUME NEW d \in Devices, AgentAnswers(p, d) PROVE ReportInv'
  <2>1. UNCHANGED <<pc, merr, work, reported, result>> /\ conn[p][d] = "starting"
    BY <1>5 DEF AgentAnswers
  <2>2. PICK what \in {"status", "error"} : conn' = [conn EXCEPT ![p][d] = what]
    BY <1>5 DEF AgentAnswers
  <2>3. \A q \in Procs \ {p} : SameReport(q)
    BY <2>1, <2>2 DEF SameReport, TypeOK
  <2>4. \A x \in Devices : conn'[p][x] = IF x = d THEN what ELSE conn[p][x]
    BY <2>2 DEF TypeOK
  <2>5. reported[p][d] = "nothing" /\ d \in work[p]
    <3>1. reported[p][d] \in {"nothing", "status", "error"}
      BY DEF TypeOK
    <3>2. QED
      BY <1>1, <2>1, <3>1 DEF ReportAt
  <2>6. ReportAt(p)'
    BY <1>1, <2>1, <2>4, <2>5 DEF ReportAt, Unreported
  <2>7. QED
    BY <2>3, <2>6, ReportFrame
<1>6. QED
  BY <1>2, <1>3, <1>4, <1>5 DEF Connect

LEMMA ReportInductive ==
    ASSUME TypeOK, CreatesInv, ReportInv, [Next]_vars
    PROVE  ReportInv'
<1>1. TypeOK'
  BY TypeInductive
<1>2. ASSUME UNCHANGED <<pc, work, conn, reported, result, merr>> PROVE ReportInv'
  BY <1>2 DEF ReportInv, ReportAt, Unreported
<1>3. ASSUME NEW p \in Connects, NEW h \in Hosts, ListCVDs(p, h) PROVE ReportInv'
  BY <1>2, <1>3 DEF ListCVDs, connectVars
<1>4. ASSUME TakeUpLate \/ \E o \in DOMAIN ops : OperationEnds(o)
      PROVE  ReportInv'
  BY <1>2, <1>4 DEF TakeUpLate, OperationEnds, connectVars
<1>5. ASSUME NEW h \in hosts, HostGoes(h) PROVE ReportInv'
  BY <1>2, <1>5 DEF HostGoes, connectVars
<1>6. CASE UNCHANGED vars
  BY <1>2, <1>6 DEF vars, connectVars
<1>7. QED
  BY <1>1, <1>3, <1>4, <1>5, <1>6, CreateReports, ConnectReports, ConnectionReports
     DEF Next

(* A command ends without an error exactly when every device it was to      *)
(* connect to gave a status: what the select takes of a goroutine's         *)
(* channels is what its agent answered, in whatever order the agents        *)
(* answer.  For any number of commands and devices.                         *)
THEOREM StatusesReported == Spec => []Reported
<1>1. Init => ReportInv
  BY DEF Init, ReportInv, ReportAt
<1>2. TypeOK /\ CreatesInv /\ ReportInv /\ [Next]_vars => ReportInv'
  BY ReportInductive
<1>3. TypeOK /\ ReportInv => Reported
  <2> SUFFICES ASSUME TypeOK, ReportInv, NEW p \in Procs, pc[p] = "done", work[p] # {}
               PROVE  result[p] = "ok" <=> \A d \in work[p] : conn[p][d] = "status"
    BY DEF Reported
  <2>1. \A d \in work[p] : d \in Devices /\ reported[p][d] # "nothing"
    <3>1. \A d \in work[p] : d \in Devices
      BY DEF TypeOK
    <3>2. \A d \in work[p] : reported[p][d] # "nothing"
      BY DEF ReportInv, ReportAt, Unreported
    <3>3. QED
      BY <3>1, <3>2
  <2>2. \A d \in work[p] : conn[p][d] = reported[p][d]
    BY <2>1 DEF ReportInv, ReportAt
  <2>3. QED
    BY <2>2 DEF ReportInv, ReportAt
<1>4. QED
  BY <1>1, <1>2, <1>3, TypeInvariant, PTL DEF Spec

-----------------------------------------------------------------------------
(* What connect finds *)

(* A device runs on a host that is up, and none runs before it was started. *)
HomeInv ==
    /\ \A d \in Devices : home[d] # 0 => home[d] \in hosts
    /\ \A d \in Devices \ DOMAIN FirstDevices : started[d] = 0 => home[d] = 0

(* A device that has run without a connection ever since the hosts were     *)
(* listed is still to be found, by the goroutine of its host, or found, or  *)
(* the error is kept.                                                       *)
Awaited(p, d) ==
    /\ d \notin agents /\ home[d] \in hosts
    /\ pc[p] = "statuses" => lister[p][home[d]] = "asking"
    /\ pc[p] = "collect" =>
          /\ d \notin statuses[p]
          /\ \/ lister[p][home[d]] \in {"asking", "failed"}
             \/ lister[p][home[d]] = "found" /\ d \in found[p][home[d]]
             \/ lister[p][home[d]] = "ended" /\ (d \in listed[p] \/ merr[p])

SteadyAt(p) ==
    pc[p] \in {"statuses", "collect"} => \A d \in steady[p] : Awaited(p, d)

SteadyInv == \A p \in Connects : SteadyAt(p)

(* What the end of an operation does to the devices: those it starts had no *)
(* host.                                                                    *)
LEMMA EndingStarts ==
    ASSUME TypeOK, HomeInv, NEW o \in DOMAIN ops, OperationEnds(o)
    PROVE  \/ UNCHANGED <<home, started>>
           \/ \E group \in SUBSET (Devices \ DOMAIN FirstDevices) :
                /\ \A d \in group : home[d] = 0
                /\ ops[o].host \in hosts /\ o # 0
                /\ home' = [d \in Devices |->
                              IF d \in group THEN ops[o].host ELSE home[d]]
                /\ started' = [d \in Devices |-> IF d \in group THEN o ELSE started[d]]
<1> DEFINE free  == {d \in Devices \ DOMAIN FirstDevices : started[d] = 0}
           group == {d \in free : Cardinality({x \in free : x <= d}) <= NumInstances}
<1>1. o # 0
  BY DEF TypeOK
<1>2. ops[o].host \in hosts
  BY DEF OperationEnds
<1>3. group \in SUBSET (Devices \ DOMAIN FirstDevices) /\ \A d \in group : home[d] = 0
  BY DEF HomeInv
<1>4. \/ UNCHANGED <<home, started>>
      \/ /\ home' = [d \in Devices |-> IF d \in group THEN ops[o].host ELSE home[d]]
         /\ started' = [d \in Devices |-> IF d \in group THEN o ELSE started[d]]
  BY DEF OperationEnds
<1> HIDE DEF group
<1>5. QED
  BY <1>1, <1>2, <1>3, <1>4

(* Devices come by the end of an operation and go with their host. *)
LEMMA HomeSteps ==
    ASSUME [Next]_vars
    PROVE  \/ UNCHANGED <<home, started>> /\ hosts \subseteq hosts'
           \/ \E o \in DOMAIN ops : OperationEnds(o)
           \/ \E h \in hosts : HostGoes(h)
<1> DEFINE Stays == UNCHANGED <<home, started>> /\ hosts \subseteq hosts'
<1>1. ASSUME NEW p \in Creates, StartCreate(p) \/ Call(p) PROVE Stays
  BY <1>1 DEF StartCreate, Call, Unanswered, CreateHost, Wait, Post, UploadFiles,
              hostVars
<1>2. ASSUME NEW p \in Connects, StartConnect(p) \/ List(p) PROVE Stays
  BY <1>2 DEF StartConnect, List, ListHosts, ListConnections, Collect, Choose, hostVars
<1>3. ASSUME NEW p \in Connects, NEW h \in Hosts, ListCVDs(p, h) PROVE Stays
  BY <1>3 DEF ListCVDs, hostVars
<1>4. ASSUME NEW p \in Procs, Connect(p) PROVE Stays
  BY <1>4 DEF Connect, StartAgent, Report, Finish, hostVars
<1>5. ASSUME NEW p \in Procs, NEW d \in Devices, AgentAnswers(p, d) PROVE Stays
  BY <1>5 DEF AgentAnswers, hostVars
<1>6. ASSUME TakeUpLate \/ UNCHANGED vars PROVE Stays
  BY <1>6 DEF TakeUpLate, vars, hostVars
<1> HIDE DEF Stays
<1>7. Stays \/ (\E o \in DOMAIN ops : OperationEnds(o)) \/ \E h \in hosts : HostGoes(h)
  BY <1>1, <1>2, <1>3, <1>4, <1>5, <1>6 DEF Next
<1>8. QED
  BY <1>7 DEF Stays

LEMMA HomeInductive ==
    ASSUME TypeOK, HomeInv, [Next]_vars
    PROVE  HomeInv'
<1>1. CASE UNCHANGED <<home, started>> /\ hosts \subseteq hosts'
  BY <1>1 DEF HomeInv
<1>2. ASSUME NEW o \in DOMAIN ops, OperationEnds(o) PROVE HomeInv'
  <2>1. UNCHANGED hosts
    BY <1>2 DEF OperationEnds
  <2>2. CASE UNCHANGED <<home, started>>
    BY <2>1, <2>2 DEF HomeInv
  <2>3. ASSUME NEW group \in SUBSET (Devices \ DOMAIN FirstDevices),
               ops[o].host \in hosts, o # 0,
               home' = [d \in Devices |-> IF d \in group THEN ops[o].host ELSE home[d]],
               started' = [d \in Devices |-> IF d \in group THEN o ELSE started[d]]
        PROVE  HomeInv'
    BY <2>1, <2>3 DEF HomeInv
  <2>4. QED
    BY <1>2, <2>2, <2>3, EndingStarts
<1>3. ASSUME NEW h \in hosts, HostGoes(h) PROVE HomeInv'
  BY <1>3 DEF HostGoes, HomeInv
<1>4. QED
  BY <1>1, <1>2, <1>3, HomeSteps

(* A step of another command leaves what this one waits for.                *)
SameSearch(k) ==
    /\ pc'[k] = pc[k] /\ lister'[k] = lister[k] /\ found'[k] = found[k]
    /\ listed'[k] = listed[k] /\ statuses'[k] = statuses[k] /\ merr'[k] = merr[k]

LEMMA SteadyFrame ==
    ASSUME SteadyInv, NEW k \in Connects, SameSearch(k), steady'[k] \subseteq steady[k],
           \A d \in steady'[k] : /\ home'[d] = home[d]
                                 /\ home[d] \in hosts => home[d] \in hosts'
                                 /\ d \in agents' => d \in agents
    PROVE  SteadyAt(k)'
<1>1. SUFFICES ASSUME pc'[k] \in {"statuses", "collect"}, NEW d \in steady'[k]
               PROVE  Awaited(k, d)'
  BY DEF SteadyAt
<1>2. Awaited(k, d)
  BY <1>1 DEF SteadyInv, SteadyAt, SameSearch
<1>3. QED
  BY <1>1, <1>2 DEF Awaited, SameSearch

LEMMA SearchSteady ==
    ASSUME TypeOK, HomeInv, SteadyInv, NEW p \in Connects,
           \/ StartConnect(p) \/ List(p)
           \/ \E h \in Hosts : ListCVDs(p, h)
    PROVE  SteadyInv'
<1> USE DEF Procs, Go, Return, listVars, hostVars
<1>1. UNCHANGED <<home, hosts, agents>>
  BY DEF StartConnect, List, ListHosts, ListConnections, Collect, Choose, ListCVDs
<1>2. ASSUME NEW k \in Connects, k # p PROVE SameSearch(k) /\ steady'[k] = steady[k]
  <2>1. CASE StartConnect(p)
    BY <1>2, <2>1 DEF StartConnect, Connecting, SameSearch, TypeOK
  <2>2. CASE ListHosts(p)
    BY <1>2, <2>2 DEF ListHosts, SameSearch, TypeOK
  <2>3. CASE ListConnections(p)
    BY <1>2, <2>3 DEF ListConnections, SameSearch, TypeOK
  <2>4. CASE Collect(p)
    BY <1>2, <2>4 DEF Collect, SameSearch, TypeOK
  <2>5. CASE Choose(p)
    BY <1>2, <2>5 DEF Choose, Connecting, SameSearch, TypeOK
  <2>6. ASSUME NEW h \in Hosts, ListCVDs(p, h)
        PROVE  SameSearch(k) /\ steady'[k] = steady[k]
    BY <1>2, <2>6 DEF ListCVDs, SameSearch, TypeOK
  <2>7. QED
    BY <2>1, <2>2, <2>3, <2>4, <2>5, <2>6 DEF List
<1>3. \A k \in Connects \ {p} : SteadyAt(k)'
  BY <1>1, <1>2, SteadyFrame
<1>4. SteadyAt(p)'
  <2>1. CASE StartConnect(p)
    BY <2>1 DEF StartConnect, Connecting, SteadyAt, TypeOK
  <2>2. CASE ListHosts(p)
    <3>1. CASE pc'[p] = "statuses"
      <4>1. /\ lister'[p] = [h \in Hosts |-> IF h \in hosts THEN "asking" ELSE "none"]
            /\ steady'[p] = Running \ agents
        BY <2>2, <3>1 DEF ListHosts, TypeOK
      <4>2. \A d \in Running : home[d] \in hosts /\ home[d] \in Hosts
        BY DEF Running, HomeInv, TypeOK
      <4>3. QED
        BY <1>1, <3>1, <4>1, <4>2 DEF SteadyAt, Awaited
    <3>2. CASE pc'[p] = "done"
      BY <3>2 DEF SteadyAt
    <3>3. QED
      BY <2>2, <3>1, <3>2 DEF ListHosts, TypeOK
  <2>3. CASE ListConnections(p)
    <3>1. /\ statuses'[p] = agents /\ pc[p] = "statuses" /\ pc'[p] = "collect"
          /\ UNCHANGED <<lister, steady>>
      BY <2>3 DEF ListConnections, TypeOK
    <3>2. QED
      BY <1>1, <3>1 DEF SteadyInv, SteadyAt, Awaited
  <2>4. CASE Collect(p)
    <3>1. PICK h \in Hosts :
            /\ lister[p][h] \in {"found", "failed"}
            /\ lister' = [lister EXCEPT ![p][h] = "ended"]
            /\ listed' = [listed EXCEPT ![p] = @ \cup found[p][h]]
            /\ merr' = [merr EXCEPT ![p] = @ \/ lister[p][h] = "failed"]
      <4>1. Uncollected(p) \in SUBSET Nat /\ Uncollected(p) # {}
        BY <2>4, DeviceCommandsAssumption
           DEF Collect, Uncollected, DeviceCommandsAssumption
      <4>2. Min(Uncollected(p)) \in Uncollected(p)
        BY <4>1, MinIn
      <4>3. QED
        BY <2>4, <4>2 DEF Collect, Uncollected
    <3>2. UNCHANGED <<pc, found, statuses, steady>> /\ pc[p] = "collect"
      BY <2>4 DEF Collect
    <3>3. /\ listed'[p] = listed[p] \cup found[p][h]
          /\ merr'[p] = (merr[p] \/ lister[p][h] = "failed")
          /\ \A x \in Hosts : lister'[p][x] = IF x = h THEN "ended" ELSE lister[p][x]
      BY <3>1 DEF TypeOK
    <3>4. SUFFICES ASSUME NEW d \in steady[p] PROVE Awaited(p, d)'
      BY <3>2 DEF SteadyAt
    <3>5. Awaited(p, d) /\ home[d] \in Hosts
      BY <3>2 DEF SteadyInv, SteadyAt, Awaited, TypeOK
    <3>6. CASE home[d] = h
      BY <1>1, <3>1, <3>2, <3>3, <3>5, <3>6 DEF Awaited
    <3>7. CASE home[d] # h
      BY <1>1, <3>2, <3>3, <3>5, <3>7 DEF Awaited
    <3>8. QED
      BY <3>6, <3>7
  <2>5. CASE Choose(p)
    BY <2>5 DEF Choose, Connecting, SteadyAt, TypeOK
  <2>6. ASSUME NEW h \in Hosts, ListCVDs(p, h) PROVE SteadyAt(p)'
    <3>1. /\ UNCHANGED <<pc, listed, statuses, steady, merr>>
          /\ pc[p] = "collect" /\ lister[p][h] = "asking"
      BY <2>6 DEF ListCVDs
    <3>2. SUFFICES ASSUME NEW d \in steady[p] PROVE Awaited(p, d)'
      BY <3>1 DEF SteadyAt
    <3>3. Awaited(p, d) /\ home[d] \in Hosts /\ d \in Devices
      BY <3>1 DEF SteadyInv, SteadyAt, Awaited, TypeOK
    <3>4. CASE /\ lister' = [lister EXCEPT ![p][h] = "found"]
               /\ found' = [found EXCEPT ![p][h] = On(h)]
      <4>1. \A x \in Hosts :
              /\ lister'[p][x] = IF x = h THEN "found" ELSE lister[p][x]
              /\ found'[p][x] = IF x = h THEN On(h) ELSE found[p][x]
        BY <3>4 DEF TypeOK
      <4>2. QED
        BY <1>1, <3>1, <3>3, <4>1 DEF Awaited, On
    <3>5. CASE lister' = [lister EXCEPT ![p][h] = "failed"] /\ UNCHANGED found
      <4>1. \A x \in Hosts : lister'[p][x] = IF x = h THEN "failed" ELSE lister[p][x]
        BY <3>5 DEF TypeOK
      <4>2. QED
        BY <1>1, <3>1, <3>3, <3>5, <4>1 DEF Awaited
    <3>6. QED
      BY <2>6, <3>4, <3>5 DEF ListCVDs
  <2>7. QED
    BY <2>1, <2>2, <2>3, <2>4, <2>5, <2>6 DEF List
<1>5. QED
  BY <1>3, <1>4 DEF SteadyInv

LEMMA SteadyInductive ==
    ASSUME TypeOK, HomeInv, SteadyInv, [Next]_vars
    PROVE  SteadyInv'
<1> USE DeviceCommandsAssumption
    DEF DeviceCommandsAssumption, Procs, Go, Return, createVars, hostVars, listVars,
        connectVars
<1>1. ASSUME \A k \in Connects : SameSearch(k),
             UNCHANGED <<home, steady, agents>>, hosts \subseteq hosts'
      PROVE  SteadyInv'
  BY <1>1, SteadyFrame DEF SteadyInv
<1>2. ASSUME NEW p \in Creates, StartCreate(p) \/ Call(p) PROVE SteadyInv'
  <2>1. /\ UNCHANGED <<home, steady, agents, lister, found, listed, statuses, merr>>
        /\ hosts \subseteq hosts'
    BY <1>2 DEF StartCreate, Call, Unanswered, CreateHost, Post, UploadFiles, Wait
  <2>2. \A k \in Connects : pc'[k] = pc[k]
    <3>1. UNCHANGED pc \/ \E to : pc' = [pc EXCEPT ![p] = to]
      BY <1>2 DEF StartCreate, Call, Unanswered, CreateHost, Post, UploadFiles, Wait,
                  Connecting
    <3>2. QED
      BY <3>1 DEF TypeOK
  <2>3. QED
    BY <1>1, <2>1, <2>2 DEF SameSearch
<1>3. ASSUME NEW p \in Procs, Connect(p) PROVE SteadyInv'
  <2>1. /\ UNCHANGED <<home, hosts, steady, agents, lister, found, listed, statuses>>
        /\ pc[p] = "connect"
        /\ UNCHANGED pc \/ pc' = [pc EXCEPT ![p] = "done"]
        /\ UNCHANGED merr \/ \E b : merr' = [merr EXCEPT ![p] = b]
    BY <1>3 DEF Connect, StartAgent, Report, Finish
  <2>2. \A k \in Connects \ {p} : SameSearch(k)
    BY <2>1 DEF SameSearch, TypeOK
  <2>3. \A k \in Connects \ {p} : SteadyAt(k)'
    BY <2>1, <2>2, SteadyFrame
  <2>4. SteadyAt(p)'
    BY <2>1 DEF SteadyAt, TypeOK
  <2>5. QED
    BY <2>3, <2>4 DEF SteadyInv
<1>4. ASSUME NEW p \in Procs, NEW d \in Devices, AgentAnswers(p, d) PROVE SteadyInv'
  <2>1. /\ UNCHANGED <<home, hosts>> /\ \A k \in Connects : SameSearch(k)
    BY <1>4 DEF AgentAnswers, SameSearch
  <2>2. CASE agents' = agents \cup {d} /\ steady' = [k \in Connects |-> steady[k] \ {d}]
    BY <2>1, <2>2, SteadyFrame DEF SteadyInv
  <2>3. CASE UNCHANGED <<agents, steady>>
    BY <1>1, <2>1, <2>3
  <2>4. QED
    BY <1>4, <2>2, <2>3 DEF AgentAnswers
<1>5. CASE TakeUpLate
  BY <1>1, <1>5 DEF TakeUpLate, SameSearch
<1>6. ASSUME NEW o \in DOMAIN ops, OperationEnds(o) PROVE SteadyInv'
  <2>1. /\ UNCHANGED <<hosts, agents, steady>> /\ \A k \in Connects : SameSearch(k)
    BY <1>6 DEF OperationEnds, SameSearch
  <2>2. CASE UNCHANGED home
    BY <1>1, <2>1, <2>2
  <2>3. ASSUME NEW group \in SUBSET Devices, \A d \in group : home[d] = 0,
               home' = [d \in Devices |-> IF d \in group THEN ops[o].host ELSE home[d]]
        PROVE  SteadyInv'
    <3>1. ASSUME NEW k \in Connects PROVE SteadyAt(k)'
      <4>1. CASE pc[k] \in {"statuses", "collect"}
        <5>1. \A d \in steady[k] : d \in Devices /\ home[d] \in hosts
          BY <4>1 DEF SteadyInv, SteadyAt, Awaited, TypeOK
        <5>2. 0 \notin hosts
          BY DEF TypeOK
        <5>3. \A d \in steady[k] : home'[d] = home[d]
          BY <2>3, <5>1, <5>2
        <5>4. QED
          BY <2>1, <5>3, SteadyFrame
      <4>2. CASE pc[k] \notin {"statuses", "collect"}
        BY <2>1, <4>2 DEF SteadyAt, SameSearch
      <4>3. QED
        BY <4>1, <4>2
    <3>2. QED
      BY <3>1 DEF SteadyInv
  <2>4. QED
    BY <1>6, <2>2, <2>3, EndingStarts
<1>7. ASSUME NEW h \in hosts, HostGoes(h) PROVE SteadyInv'
  <2>1. /\ UNCHANGED agents /\ \A k \in Connects : SameSearch(k)
        /\ hosts' = hosts \ {h}
        /\ \A k \in Connects : steady'[k] = steady[k] \ On(h)
        /\ \A d \in Devices : home[d] # h => home'[d] = home[d]
    BY <1>7 DEF HostGoes, SameSearch
  <2>2. ASSUME NEW k \in Connects, NEW d \in steady'[k]
        PROVE  home'[d] = home[d] /\ (home[d] \in hosts => home[d] \in hosts')
    <3>1. d \in Devices /\ home[d] # h
      BY <2>1, <2>2 DEF On, TypeOK
    <3>2. QED
      BY <2>1, <3>1
  <2>3. QED
    BY <2>1, <2>2, SteadyFrame DEF SteadyInv
<1>8. CASE UNCHANGED vars
  BY <1>1, <1>8 DEF vars, SameSearch
<1>9. QED
  BY <1>2, <1>3, <1>4, <1>5, <1>6, <1>7, <1>8, SearchSteady DEF Next

(* connect without arguments finds every device that is up and not          *)
(* connected all the while, or ends with an error: a host's devices are     *)
(* asked for by its own goroutine, and no answer and no error is lost,      *)
(* whatever order the hosts answer in and whatever starts or goes           *)
(* meanwhile.  For any number of hosts, devices and commands.               *)
THEOREM AllFound == Spec => []Complete
<1>1. Init => HomeInv /\ SteadyInv
  <2> SUFFICES ASSUME Init PROVE HomeInv /\ SteadyInv
    OBVIOUS
  <2>1. HomeInv
    BY DeviceCommandsAssumption DEF Init, HomeInv, DeviceCommandsAssumption
  <2>2. SteadyInv
    BY DEF Init, SteadyInv, SteadyAt, Procs
  <2>3. QED
    BY <2>1, <2>2
<1>2. TypeOK /\ HomeInv /\ SteadyInv /\ [Next]_vars => (HomeInv /\ SteadyInv)'
  BY HomeInductive, SteadyInductive
<1>3. TypeOK /\ SteadyInv => Complete
  <2> SUFFICES ASSUME TypeOK, SteadyInv, NEW p \in Connects, pc[p] = "collect",
                      Uncollected(p) = {}, ~merr[p], NEW d \in steady[p]
               PROVE  d \in listed[p] /\ d \notin statuses[p]
    BY DEF Complete
  <2>1. Awaited(p, d) /\ home[d] \in Hosts
    BY DEF SteadyInv, SteadyAt, Awaited, TypeOK
  <2>2. lister[p][home[d]] \notin {"asking", "found", "failed"}
    BY <2>1 DEF Uncollected
  <2>3. QED
    BY <2>1, <2>2 DEF Awaited
<1>4. QED
  BY <1>1, <1>2, <1>3, TypeInvariant, PTL DEF Spec

=============================================================================
