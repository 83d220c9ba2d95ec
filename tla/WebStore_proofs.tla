----------------------------- MODULE WebStore_proofs -----------------------------
(***************************************************************************)
(* Theorems about WebStore, for any runtimes, hosts, operations and number *)
(* of clicks: every variable keeps its type, the store waits for exactly   *)
(* the operations that are under way or failed, it forgets no runtime by   *)
(* itself, what it shows is exact once all is answered, and a refresh      *)
(* always has an answer to wait for.                                       *)
(***************************************************************************)
EXTENDS WebStore, TLAPS

(* What TypeOK says of a request. *)
CallOK(c) == c \in Requests /\ c.about \cup c.found \subseteq HostsOf({c.alias})

LEMMA CallType ==
    ASSUME NEW from \in {"refresh", "register"}, NEW alias \in Aliases,
           NEW kind \in {"runtime", "hosts", "envs", "groups"},
           NEW about \in SUBSET HostsOf({alias})
    PROVE  CallOK(Call(from, alias, kind, about))
BY DEF CallOK, Call, Requests, HostsOf

(* A pair of a kind and a host is what it consists of. *)
LEMMA OperationPair ==
    ASSUME NEW o \in Operations
    PROVE  /\ o = <<o[1], o[2]>>
           /\ o[1] \in {"create", "delete", "env"} /\ o[2] \in Hosts
BY WebStoreAssumption DEF WebStoreAssumption

(* Requests of a refresh or a registration are followed by requests. *)
LEMMA ListsOK ==
    ASSUME TypeOK, NEW c \in calls, NEW d \in Lists(c)
    PROVE  CallOK(d)
<1>1. CallOK(c)
  BY DEF TypeOK, CallOK
<1>2. PICK kind \in {"hosts", "envs"} : d = Call(c.from, c.alias, kind, {})
  BY DEF Lists
<1>3. /\ c.from \in {"refresh", "register"} /\ c.alias \in Aliases
      /\ kind \in {"runtime", "hosts", "envs", "groups"}
      /\ {} \in SUBSET HostsOf({c.alias})
  BY <1>1 DEF CallOK, Requests
<1>4. QED
  BY <1>2, <1>3, CallType

LEMMA AskedOK ==
    ASSUME storage \subseteq Aliases, NEW d \in Asked
    PROVE  CallOK(d)
<1>1. Settings \subseteq Aliases
  BY WebStoreAssumption DEF WebStoreAssumption, Settings
<1>2. PICK a \in Settings : d = Call("refresh", a, "runtime", {})
  BY DEF Asked
<1>3. QED
  BY <1>1, <1>2, CallType

(* The part of TypeOK that is not about requests. *)
StoreType ==
    /\ runtimes \subseteq Aliases /\ valid \subseteq runtimes
    /\ hosts \subseteq Hosts /\ envs \subseteq Hosts
    /\ status \in {"initializing", "refreshing", "registering", "register_error", "done"}
    /\ waits \subseteq Operations
    /\ storage \subseteq Aliases /\ dropped \subseteq Aliases
    /\ broken \in BOOLEAN /\ disturbed \in BOOLEAN
    /\ op \in [Operations ->
                 {"idle", "sent", "polling", "answered", "done", "failed", "stuck"}]
    /\ running \subseteq born /\ born \subseteq Hosts /\ groups \subseteq running
    /\ clicks \in 0..MaxClicks

LEMMA TypeParts == TypeOK <=> StoreType /\ \A c \in calls : CallOK(c)
BY DEF TypeOK, StoreType, CallOK

LEMMA TypePartsPrimed == TypeOK' <=> StoreType' /\ \A c \in calls' : CallOK(c)
BY DEF TypeOK, StoreType, CallOK

-----------------------------------------------------------------------------
(* Type correctness, one lemma for each source of steps *)

LEMMA FollowTypes ==
    ASSUME TypeOK, NEW over \in SUBSET calls, NEW more,
           \A d \in more : CallOK(d), Follow(over, more)
    PROVE  /\ \A d \in calls' : CallOK(d)
           /\ status' \in {"initializing", "refreshing", "registering", "register_error",
                           "done"}
           /\ UNCHANGED <<waits, storage, broken, op, servers, disturbed, dropped, clicks>>
BY DEF Follow, TypeOK, CallOK, servers

LEMMA GroupsAsked ==
    ASSUME TypeOK, NEW c \in calls,
           NEW d \in {Call(c.from, c.alias, "groups", {h}) : h \in c.found}
    PROVE  CallOK(d)
<1>1. CallOK(c)
  BY DEF TypeOK, CallOK
<1>2. PICK h \in c.found : d = Call(c.from, c.alias, "groups", {h})
  OBVIOUS
<1>3. /\ c.from \in {"refresh", "register"} /\ c.alias \in Aliases
      /\ {h} \in SUBSET HostsOf({c.alias})
  BY <1>1 DEF CallOK, Requests
<1>4. QED
  BY <1>2, <1>3, CallType

LEMMA LoadTypes ==
    ASSUME TypeOK, NEW c \in calls, Answer(c) \/ Deliver(c)
    PROVE  TypeOK'
<1>1. CallOK(c)
  BY DEF TypeOK, CallOK
<1>2. \A d \in Lists(c) : CallOK(d)
  BY ListsOK
<1>3. {c} \in SUBSET calls
  OBVIOUS
<1>4. c.found \subseteq Hosts /\ c.alias \in Aliases
  BY <1>1 DEF CallOK, Requests
<1>5. CASE Answer(c)
  <2>1. Truth(c) \subseteq HostsOf({c.alias})
    <3>1. c.kind \in {"hosts", "envs", "groups"} /\ c.about \subseteq HostsOf({c.alias})
      BY <1>1, <1>5 DEF CallOK, Answer, Requests
    <3>2. Truth(c) \in {running \cap HostsOf({c.alias}), groups \cap c.about}
      BY <3>1 DEF Truth
    <3>3. QED
      BY <3>1, <3>2
  <2>2. CallOK([c EXCEPT !.state = "ok", !.found = Truth(c)])
    <3> DEFINE d == [c EXCEPT !.state = "ok", !.found = Truth(c)]
    <3>1. /\ d.from = c.from /\ d.alias = c.alias /\ d.kind = c.kind /\ d.about = c.about
          /\ d.state = "ok" /\ d.found = Truth(c)
      BY <1>1 DEF CallOK, Requests
    <3>2. d \in Requests
      BY <1>1, <2>1 DEF CallOK, Requests, HostsOf
    <3>3. QED
      BY <1>1, <2>1, <3>1, <3>2 DEF CallOK
  <2>3. \A d \in calls' : CallOK(d)
    BY <1>5, <2>2 DEF Answer, TypeOK, CallOK
  <2>4. StoreType'
    BY <1>5 DEF Answer, TypeOK, StoreType, loaded, servers
  <2>5. QED
    BY <2>3, <2>4, TypePartsPrimed
<1>6. CASE LoadRuntime(c)
  <2>1. Follow({c}, Lists(c)) \/ Follow({c}, {})
    BY <1>6 DEF LoadRuntime
  <2>2. /\ \A d \in calls' : CallOK(d)
        /\ status' \in {"initializing", "refreshing", "registering", "register_error", "done"}
        /\ UNCHANGED <<waits, storage, broken, op, servers, disturbed, dropped, clicks>>
    BY <1>2, <1>3, <2>1, FollowTypes
  <2>3. /\ runtimes' = runtimes \cup {c.alias} /\ UNCHANGED <<hosts, envs>>
        /\ valid' = valid \cup {c.alias} \/ valid' = valid
    BY <1>6 DEF LoadRuntime
  <2>4. StoreType'
    BY <1>4, <2>2, <2>3 DEF TypeOK, StoreType, servers
  <2>5. QED
    BY <2>2, <2>4, TypePartsPrimed
<1>7. CASE RegisterEnds(c)
  <2>1. calls' = (calls \ {c}) \cup Lists(c) \/ calls' = calls \ {c}
    BY <1>7 DEF RegisterEnds
  <2>2. \A d \in calls' : CallOK(d)
    BY <1>2, <2>1 DEF TypeOK, CallOK
  <2>3. StoreType'
    BY <1>4, <1>7 DEF RegisterEnds, TypeOK, StoreType, servers
  <2>4. QED
    BY <2>2, <2>3, TypePartsPrimed
<1>8. CASE LoadHosts(c) \/ LoadGroups(c)
  <2>1. Follow({c}, {})
    BY <1>8 DEF LoadHosts, LoadGroups
  <2>2. /\ \A d \in calls' : CallOK(d)
        /\ status' \in {"initializing", "refreshing", "registering", "register_error", "done"}
        /\ UNCHANGED <<waits, storage, broken, op, servers, disturbed, dropped, clicks>>
    BY <1>3, <2>1, FollowTypes
  <2>3. hosts' \in {hosts, hosts \cup c.found} /\ envs' \in {envs, envs \cup c.found}
        /\ UNCHANGED <<runtimes, valid>>
    BY <1>8 DEF LoadHosts, LoadGroups
  <2>4. StoreType'
    BY <1>4, <2>2, <2>3 DEF TypeOK, StoreType, servers
  <2>5. QED
    BY <2>2, <2>4, TypePartsPrimed
<1>9. CASE LoadEnvs(c)
  <2>1. \/ Follow({c}, {Call(c.from, c.alias, "groups", {h}) : h \in c.found})
        \/ Follow({d \in From(c.from) : d.alias = c.alias}, {})
    BY <1>9 DEF LoadEnvs
  <2>2. \A d \in {Call(c.from, c.alias, "groups", {h}) : h \in c.found} : CallOK(d)
    BY GroupsAsked
  <2>3. {d \in From(c.from) : d.alias = c.alias} \in SUBSET calls
    BY DEF From
  <2>4. /\ \A d \in calls' : CallOK(d)
        /\ status' \in {"initializing", "refreshing", "registering", "register_error", "done"}
        /\ UNCHANGED <<waits, storage, broken, op, servers, disturbed, dropped, clicks>>
    <3>1. CASE Follow({c}, {Call(c.from, c.alias, "groups", {h}) : h \in c.found})
      BY <1>3, <2>2, <3>1, FollowTypes
    <3>2. CASE Follow({d \in From(c.from) : d.alias = c.alias}, {})
      BY <2>3, <3>2, FollowTypes
    <3>3. QED
      BY <2>1, <3>1, <3>2
  <2>5. StoreType'
    BY <1>9, <2>4 DEF LoadEnvs, TypeOK, StoreType, servers
  <2>6. QED
    BY <2>4, <2>5, TypePartsPrimed
<1>10. CASE LoadFails(c)
  <2>1. calls' \subseteq calls
    BY <1>10 DEF LoadFails
  <2>2. StoreType'
    BY <1>10 DEF LoadFails, TypeOK, StoreType, loaded, servers
  <2>3. QED
    BY <2>1, <2>2, TypePartsPrimed DEF TypeOK, CallOK
<1>11. QED
  BY <1>5, <1>6, <1>7, <1>8, <1>9, <1>10 DEF Deliver

LEMMA ClickTypes ==
    ASSUME TypeOK,
           \/ Refresh \/ Save
           \/ \E a \in Aliases : Register(a) \/ Unregister(a)
    PROVE  TypeOK'
<1>1. CASE Refresh
  <2>1. calls' = From("register") \cup Asked
    BY <1>1 DEF Refresh
  <2>2. \A d \in calls' : CallOK(d)
    BY <2>1, AskedOK DEF From, TypeOK, CallOK
  <2>3. clicks' \in 0..MaxClicks
    BY <1>1, WebStoreAssumption DEF WebStoreAssumption, Refresh, Click, TypeOK
  <2>4. disturbed' \in BOOLEAN
    BY <1>1 DEF Refresh
  <2>5. StoreType'
    BY <1>1, <2>3, <2>4 DEF Refresh, TypeOK, StoreType, servers
  <2>6. QED
    BY <2>2, <2>5, TypePartsPrimed
<1>2. CASE Save
  <2>1. StoreType'
    BY <1>2 DEF Save, TypeOK, StoreType, loaded, servers
  <2>2. QED
    BY <1>2, <2>1, TypePartsPrimed DEF Save, TypeOK, CallOK
<1>3. ASSUME NEW a \in Aliases, Register(a) PROVE TypeOK'
  <2>1. calls' \subseteq calls \cup {Call("register", a, "runtime", {})}
    BY <1>3 DEF Register
  <2>2. CallOK(Call("register", a, "runtime", {}))
    BY CallType
  <2>3. \A d \in calls' : CallOK(d)
    BY <2>1, <2>2 DEF TypeOK, CallOK
  <2>4. clicks' \in 0..MaxClicks
    BY <1>3, WebStoreAssumption DEF WebStoreAssumption, Register, Click, TypeOK
  <2>5. disturbed' \in BOOLEAN
    BY <1>3 DEF Register, TypeOK
  <2>6. status' \in {"registering", "register_error"}
    BY <1>3 DEF Register
  <2>7. StoreType'
    BY <1>3, <2>4, <2>5, <2>6 DEF Register, TypeOK, StoreType, servers
  <2>8. QED
    BY <2>3, <2>7, TypePartsPrimed
<1>4. ASSUME NEW a \in Aliases, Unregister(a) PROVE TypeOK'
  <2>1. \A d \in calls' : CallOK(d)
    BY <1>4 DEF Unregister, TypeOK, CallOK
  <2>2. clicks' \in 0..MaxClicks
    BY <1>4, WebStoreAssumption DEF WebStoreAssumption, Unregister, Click, TypeOK
  <2>3. disturbed' \in BOOLEAN
    BY <1>4 DEF Unregister, TypeOK
  <2>4. StoreType'
    BY <1>4, <2>2, <2>3 DEF Unregister, TypeOK, StoreType, servers
  <2>5. QED
    BY <2>1, <2>4, TypePartsPrimed
<1>5. QED
  BY <1>1, <1>2, <1>3, <1>4

(* Steps of operations move one of them on, and ask nothing.               *)
LEMMA OperationTypes ==
    ASSUME TypeOK, NEW o \in Operations, User(o) \/ Server(o) \/ Complete(o)
    PROVE  TypeOK'
<1>1. /\ o = <<o[1], o[2]>> /\ o[2] \in Hosts
  BY OperationPair
<1>2. CASE User(o)
  <2>1. Begin(o) /\ waits' \in {waits, waits \cup {o}}
    BY <1>1, <1>2 DEF User, CreateHost, CreateEnv, DeleteHost
  <2>2. op' \in [Operations ->
                    {"idle", "sent", "polling", "answered", "done", "failed", "stuck"}]
    BY <2>1 DEF Begin, TypeOK
  <2>3. disturbed' \in BOOLEAN
    BY <2>1 DEF Begin, TypeOK
  <2>4. StoreType' /\ UNCHANGED calls
    BY <2>1, <2>2, <2>3 DEF Begin, TypeOK, StoreType, loaded, servers
  <2>5. QED
    BY <2>4, TypePartsPrimed DEF TypeOK, CallOK
<1>3. CASE Server(o)
  <2>1. \E to \in {"polling", "answered", "failed", "stuck"} : op' = [op EXCEPT ![o] = to]
    BY <1>3 DEF Server, AcceptCreate, AcceptDelete, Reject, PollAnswered, PollFails
  <2>2. op' \in [Operations ->
                    {"idle", "sent", "polling", "answered", "done", "failed", "stuck"}]
    BY <2>1 DEF TypeOK
  <2>3. waits' \in {waits, waits \cup {o}} /\ disturbed' \in BOOLEAN
    BY <1>3 DEF Server, AcceptCreate, AcceptDelete, Reject, PollAnswered, PollFails, TypeOK
  <2>4. \/ UNCHANGED servers
        \/ /\ running' = running \ {o[2]} /\ groups' = groups \ {o[2]}
           /\ UNCHANGED born
    BY <1>3 DEF Server, AcceptCreate, AcceptDelete, Reject, PollAnswered, PollFails, servers
  <2>5. UNCHANGED <<loaded, storage, calls, broken, dropped, clicks>>
    BY <1>3 DEF Server, AcceptCreate, AcceptDelete, Reject, PollAnswered, PollFails
  <2>6. StoreType'
    BY <2>2, <2>3, <2>4, <2>5 DEF TypeOK, StoreType, loaded, servers
  <2>7. QED
    BY <2>5, <2>6, TypePartsPrimed DEF TypeOK, CallOK
<1>4. CASE Complete(o)
  <2>1. o[1] \in {"create", "delete", "env"}
    BY OperationPair
  <2>2. hosts' \subseteq Hosts /\ envs' \subseteq Hosts
    BY <1>1, <1>4, <2>1 DEF Complete, TypeOK
  <2>3. op' \in [Operations ->
                    {"idle", "sent", "polling", "answered", "done", "failed", "stuck"}]
    BY <1>4 DEF Complete, TypeOK
  <2>4. StoreType' /\ UNCHANGED calls
    BY <1>4, <2>2, <2>3 DEF Complete, TypeOK, StoreType, servers
  <2>5. QED
    BY <2>4, TypePartsPrimed DEF TypeOK, CallOK
<1>5. QED
  BY <1>2, <1>3, <1>4

LEMMA ServerTypes ==
    ASSUME TypeOK, NEW h \in Hosts, HostRuns(h) \/ GroupRuns(h)
    PROVE  TypeOK'
<1>1. /\ UNCHANGED <<loaded, waits, storage, calls, broken, op, dropped, clicks>>
      /\ disturbed' \in BOOLEAN
  BY DEF HostRuns, GroupRuns, TypeOK
<1>2. running' \subseteq born' /\ born' \subseteq Hosts /\ groups' \subseteq running'
  BY DEF HostRuns, GroupRuns, TypeOK
<1>3. StoreType'
  BY <1>1, <1>2 DEF TypeOK, StoreType, loaded
<1>4. QED
  BY <1>1, <1>3, TypePartsPrimed DEF TypeOK, CallOK

(* Every variable keeps its type, and requests are about hosts of the       *)
(* runtime they go to.                                                      *)
THEOREM Typing == Spec => []TypeOK
<1>1. Init => TypeOK
  <2> SUFFICES ASSUME Init PROVE TypeOK
    OBVIOUS
  <2>1. PICK s \in Starts : storage = s.storage /\ running = s.running /\ groups = s.groups
    BY DEF Init
  <2>2. storage \subseteq Aliases /\ groups \subseteq running /\ running \subseteq Hosts
    BY <2>1, WebStoreAssumption DEF WebStoreAssumption
  <2>3. \A d \in calls : CallOK(d)
    BY <2>2, AskedOK DEF Init
  <2>4. op \in [Operations ->
                   {"idle", "sent", "polling", "answered", "done", "failed", "stuck"}]
    BY DEF Init
  <2>5. 0 \in 0..MaxClicks
    BY WebStoreAssumption DEF WebStoreAssumption
  <2>6. StoreType
    BY <2>2, <2>4, <2>5 DEF Init, StoreType
  <2>7. QED
    BY <2>3, <2>6, TypeParts
<1>2. TypeOK /\ [Next]_vars => TypeOK'
  <2> SUFFICES ASSUME TypeOK, [Next]_vars PROVE TypeOK'
    OBVIOUS
  <2>1. CASE UNCHANGED vars
    <3>1. StoreType' /\ UNCHANGED calls
      BY <2>1 DEF vars, loaded, servers, TypeOK, StoreType
    <3>2. QED
      BY <3>1, TypePartsPrimed DEF TypeOK, CallOK
  <2>2. QED
    BY <2>1, LoadTypes, ClickTypes, OperationTypes, ServerTypes DEF Next
<1>3. QED
  BY <1>1, <1>2, PTL DEF Spec

-----------------------------------------------------------------------------
(* WaitsTracked *)

(* What is waited for of an operation depends on it and how far it is. *)
Awaited(o, at) ==
    \/ at \in {"polling", "answered", "stuck"}
    \/ at = "sent" /\ o[1] = "delete"

LEMMA WaitsByOperation == WaitsTracked <=> waits = {o \in Operations : Awaited(o, op[o])}
BY DEF WaitsTracked, Awaited

LEMMA WaitsInductive ==
    ASSUME TypeOK, WaitsTracked, [Next]_vars
    PROVE  WaitsTracked'
<1>1. ASSUME UNCHANGED <<waits, op>> PROVE WaitsTracked'
  BY <1>1 DEF WaitsTracked
<1>2. ASSUME NEW o \in Operations, NEW to,
             op' = [op EXCEPT ![o] = to],
             waits' = (IF Awaited(o, to) THEN waits \cup {o} ELSE waits \ {o})
      PROVE  WaitsTracked'
  <2>1. waits = {p \in Operations : Awaited(p, op[p])}
    BY WaitsByOperation
  <2>2. op'[o] = to /\ \A p \in Operations \ {o} : op'[p] = op[p]
    BY <1>2 DEF TypeOK
  <2>3. waits' = {p \in Operations : Awaited(p, op'[p])}
    BY <1>2, <2>1, <2>2
  <2>4. QED
    BY <2>3 DEF WaitsTracked, Awaited
<1>3. ASSUME NEW o \in Operations, User(o) PROVE WaitsTracked'
  <2>1. o = <<o[1], o[2]>>
    BY OperationPair
  <2>2. op' = [op EXCEPT ![o] = "sent"]
    BY <1>3, <2>1 DEF User, CreateHost, CreateEnv, DeleteHost, Begin
  <2>3. CASE o[1] = "delete"
    <3>1. waits' = waits \cup {o}
      BY <1>3, <2>1, <2>3 DEF User, DeleteHost
    <3>2. QED
      BY <1>2, <2>2, <2>3, <3>1 DEF Awaited
  <2>4. CASE o[1] # "delete"
    <3>1. waits' = waits /\ op[o] = "idle"
      BY <1>3, <2>1, <2>4 DEF User, CreateHost, CreateEnv
    <3>2. o \notin waits
      BY <2>4, <3>1, WaitsByOperation DEF Awaited
    <3>3. waits' = waits \ {o}
      BY <3>1, <3>2
    <3>4. QED
      BY <1>2, <2>2, <2>4, <3>3 DEF Awaited
  <2>5. QED
    BY <2>3, <2>4
<1>4. ASSUME NEW o \in Operations, Server(o) PROVE WaitsTracked'
  <2>1. CASE AcceptCreate(o)
    <3>1. op' = [op EXCEPT ![o] = "polling"] /\ waits' = waits \cup {o}
      BY <2>1 DEF AcceptCreate
    <3>2. QED
      BY <1>2, <3>1 DEF Awaited
  <2>2. CASE AcceptDelete(o) \/ PollAnswered(o)
    <3>1. /\ op' = [op EXCEPT ![o] = "answered"] /\ waits' = waits
          /\ Awaited(o, op[o])
      BY <2>2 DEF AcceptDelete, PollAnswered, Awaited
    <3>2. waits' = waits \cup {o}
      BY <3>1, WaitsByOperation
    <3>3. QED
      BY <1>2, <3>1, <3>2 DEF Awaited
  <2>3. CASE PollFails(o) \/ (Reject(o) /\ o[1] = "delete")
    <3>1. /\ op' = [op EXCEPT ![o] = "stuck"] /\ waits' = waits
          /\ Awaited(o, op[o])
      BY <2>3 DEF PollFails, Reject, Awaited
    <3>2. waits' = waits \cup {o}
      BY <3>1, WaitsByOperation
    <3>3. QED
      BY <1>2, <3>1, <3>2 DEF Awaited
  <2>4. CASE Reject(o) /\ o[1] # "delete"
    <3>1. /\ op' = [op EXCEPT ![o] = "failed"] /\ waits' = waits
          /\ ~Awaited(o, op[o])
      BY <2>4 DEF Reject, Awaited
    <3>2. waits' = waits \ {o}
      BY <3>1, WaitsByOperation
    <3>3. QED
      BY <1>2, <3>1, <3>2 DEF Awaited
  <2>5. QED
    BY <1>4, <2>1, <2>2, <2>3, <2>4 DEF Server
<1>5. ASSUME NEW o \in Operations, Complete(o) PROVE WaitsTracked'
  <2>1. op' = [op EXCEPT ![o] = "done"] /\ waits' = waits \ {o}
    BY <1>5 DEF Complete
  <2>2. QED
    BY <1>2, <2>1 DEF Awaited
<1>6. ASSUME NEW c \in calls, Answer(c) \/ Deliver(c) PROVE UNCHANGED <<waits, op>>
  BY <1>6 DEF Answer, Deliver, LoadRuntime, RegisterEnds, LoadHosts, LoadEnvs, LoadGroups,
              LoadFails, Follow
<1>7. CASE Refresh \/ Save \/ \E a \in Aliases : Register(a) \/ Unregister(a)
  BY <1>1, <1>7 DEF Refresh, Save, Register, Unregister
<1>8. CASE \E h \in Hosts : HostRuns(h) \/ GroupRuns(h)
  BY <1>1, <1>8 DEF HostRuns, GroupRuns
<1>9. CASE UNCHANGED vars
  BY <1>1, <1>9 DEF vars
<1>10. QED
  BY <1>1, <1>3, <1>4, <1>5, <1>6, <1>7, <1>8, <1>9 DEF Next

(* The store waits for exactly the operations under way or failed: the      *)
(* completion of a delete finds its wait, through every refresh.            *)
THEOREM WaitsAreTracked == Spec => []WaitsTracked
<1>1. Init => WaitsTracked
  BY DEF Init, WaitsTracked
<1>2. TypeOK /\ WaitsTracked /\ [Next]_vars => WaitsTracked'
  BY WaitsInductive
<1>3. QED
  BY <1>1, <1>2, Typing, PTL DEF Spec

-----------------------------------------------------------------------------
(* RuntimesKept *)

(* A stored runtime that the user did not unregister has been loaded, or is *)
(* yet to answer, or its refresh has failed; and a runtime whose hosts are  *)
(* asked for has been loaded, or was unregistered since.                    *)
StoredLoads ==
    \A a \in storage \ dropped :
       \/ a \in runtimes \/ broken
       \/ \E c \in From("refresh") : c.kind = "runtime" /\ c.alias = a

ListedLoaded ==
    \A c \in From("refresh") : c.kind # "runtime" => c.alias \in runtimes \cup dropped

KeptInv == StoredLoads /\ ListedLoaded

(* Requests end, and others follow, for runtimes that are loaded by then or *)
(* unregistered.                                                            *)
Passes(over, more) ==
    /\ calls' = (calls \ over) \cup more
    /\ storage' = storage /\ broken' = broken
    /\ runtimes \subseteq runtimes'
    /\ dropped' \subseteq dropped /\ dropped \subseteq dropped' \cup runtimes'
    /\ \A d \in over : d.from = "refresh" => d.alias \in runtimes' \cup dropped'
    /\ \A d \in more : d.from = "refresh" => d.alias \in runtimes' \cup dropped'

LEMMA KeptByRequests ==
    ASSUME KeptInv, NEW over, NEW more, Passes(over, more)
    PROVE  KeptInv'
<1> USE DEF Passes
<1>1. ASSUME NEW a \in storage \ dropped', a \notin runtimes', ~broken
      PROVE  \E c \in calls' : c.from = "refresh" /\ c.kind = "runtime" /\ c.alias = a
  <2>1. a \in storage \ dropped /\ a \notin runtimes
    BY <1>1
  <2>2. PICK c \in From("refresh") : c.kind = "runtime" /\ c.alias = a
    BY <1>1, <2>1 DEF KeptInv, StoredLoads
  <2>3. c \in calls /\ c.from = "refresh"
    BY DEF From
  <2>4. c \notin over
    BY <1>1, <2>2, <2>3
  <2>5. QED
    BY <2>2, <2>3, <2>4
<1>2. ASSUME NEW c \in calls', c.from = "refresh", c.kind # "runtime"
      PROVE  c.alias \in runtimes' \cup dropped'
  <2>1. CASE c \in more
    BY <1>2, <2>1
  <2>2. CASE c \in calls
    <3>1. c.alias \in runtimes \cup dropped
      BY <1>2, <2>2 DEF KeptInv, ListedLoaded, From
    <3>2. QED
      BY <3>1
  <2>3. QED
    BY <1>2, <2>1, <2>2
<1>3. QED
  BY <1>1, <1>2 DEF KeptInv, StoredLoads, ListedLoaded, From

(* A refresh asks every runtime of the list it starts from. *)
LEMMA AskedOfAll ==
    \A a \in Settings : \E d \in Asked : d.kind = "runtime" /\ d.alias = a
<1> SUFFICES ASSUME NEW a \in Settings
             PROVE  \E d \in Asked : d.kind = "runtime" /\ d.alias = a
  OBVIOUS
<1>1. Call("refresh", a, "runtime", {}) \in Asked
  BY DEF Asked
<1>2. /\ Call("refresh", a, "runtime", {}).kind = "runtime"
      /\ Call("refresh", a, "runtime", {}).alias = a
  BY DEF Call
<1>3. QED
  BY <1>1, <1>2

LEMMA KeptInductive ==
    ASSUME TypeOK, KeptInv, [Next]_vars
    PROVE  KeptInv'
<1>1. ASSUME UNCHANGED <<runtimes, storage, calls, broken, dropped>> PROVE KeptInv'
  BY <1>1 DEF KeptInv, StoredLoads, ListedLoaded, From
<1>2. ASSUME NEW c \in calls, Answer(c) PROVE KeptInv'
  <2> DEFINE d == [c EXCEPT !.state = "ok", !.found = Truth(c)]
  <2>1. /\ calls' = (calls \ {c}) \cup {d} /\ c.kind # "runtime"
        /\ d.from = c.from /\ d.alias = c.alias
    BY <1>2 DEF Answer, TypeOK, Requests
  <2>2. UNCHANGED <<runtimes, storage, broken, dropped>>
    BY <1>2 DEF Answer, loaded
  <2> HIDE DEF d
  <2>3. c.from = "refresh" => c.alias \in runtimes \cup dropped
    BY <2>1 DEF KeptInv, ListedLoaded, From
  <2>4. Passes({c}, {d})
    BY <2>1, <2>2, <2>3 DEF Passes
  <2>5. QED
    BY <2>4, KeptByRequests
<1>3. ASSUME NEW c \in calls, LoadRuntime(c) PROVE KeptInv'
  <2>1. PICK more \in {{}, Lists(c)} : Follow({c}, more)
    BY <1>3 DEF LoadRuntime
  <2>2. \A d \in more : d.alias = c.alias
    BY DEF Lists, Call
  <2>3. runtimes' = runtimes \cup {c.alias}
    BY <1>3 DEF LoadRuntime
  <2>4. /\ calls' = (calls \ {c}) \cup more
        /\ storage' = storage /\ broken' = broken /\ dropped' = dropped
    BY <2>1 DEF Follow
  <2>5. Passes({c}, more)
    BY <2>2, <2>3, <2>4 DEF Passes
  <2>6. QED
    BY <2>5, KeptByRequests
<1>4. ASSUME NEW c \in calls, RegisterEnds(c) PROVE KeptInv'
  <2>1. c.from = "register" /\ UNCHANGED <<storage, broken>>
    BY <1>4 DEF RegisterEnds
  <2>2. \A d \in Lists(c) : d.from = "register"
    BY <2>1 DEF Lists, Call
  <2>3. CASE runtimes' = runtimes /\ dropped' = dropped /\ calls' = calls \ {c}
    <3>1. Passes({c}, {})
      BY <2>1, <2>3 DEF Passes
    <3>2. QED
      BY <3>1, KeptByRequests
  <2>4. CASE /\ runtimes' = runtimes \cup {c.alias} /\ dropped' = dropped \ {c.alias}
             /\ calls' = (calls \ {c}) \cup Lists(c)
    <3>1. Passes({c}, Lists(c))
      BY <2>1, <2>2, <2>4 DEF Passes
    <3>2. QED
      BY <3>1, KeptByRequests
  <2>5. QED
    BY <1>4, <2>3, <2>4 DEF RegisterEnds
<1>5. ASSUME NEW c \in calls, LoadHosts(c) \/ LoadEnvs(c) \/ LoadGroups(c) PROVE KeptInv'
  <2>1. PICK over, more : /\ Follow(over, more)
                          /\ \A d \in over \cup more : d.from = c.from /\ d.alias = c.alias
    BY <1>5 DEF LoadHosts, LoadEnvs, LoadGroups, From, Call
  <2>2. c.kind # "runtime" /\ UNCHANGED runtimes
    BY <1>5 DEF LoadHosts, LoadEnvs, LoadGroups
  <2>3. c.from = "refresh" => c.alias \in runtimes \cup dropped
    BY <2>2 DEF KeptInv, ListedLoaded, From
  <2>4. Passes(over, more)
    BY <2>1, <2>2, <2>3 DEF Follow, Passes
  <2>5. QED
    BY <2>4, KeptByRequests
<1>6. ASSUME NEW c \in calls, LoadFails(c) PROVE KeptInv'
  <2>1. UNCHANGED <<runtimes, storage, dropped>>
    BY <1>6 DEF LoadFails, loaded
  <2>2. CASE c.from = "refresh"
    BY <1>6, <2>1, <2>2 DEF LoadFails, KeptInv, StoredLoads, ListedLoaded, From
  <2>3. CASE c.from # "refresh"
    BY <1>6, <2>1, <2>3 DEF LoadFails, KeptInv, StoredLoads, ListedLoaded, From
  <2>4. QED
    BY <2>2, <2>3
<1>7. CASE Refresh
  <2>1. From("refresh")' = Asked
    BY <1>7 DEF Refresh, From, Asked, Call
  <2>2. storage' \subseteq Settings
    BY <1>7 DEF Refresh, Settings
  <2>3. \A d \in Asked : d.kind = "runtime"
    BY DEF Asked, Call
  <2>4. \A a \in Settings : \E d \in Asked : d.kind = "runtime" /\ d.alias = a
    BY AskedOfAll
  <2>5. QED
    BY <2>1, <2>2, <2>3, <2>4 DEF KeptInv, StoredLoads, ListedLoaded
<1>8. CASE Save
  BY <1>8 DEF Save, loaded, KeptInv, StoredLoads, ListedLoaded, From
<1>9. ASSUME NEW a \in Aliases, Register(a) PROVE KeptInv'
  <2>1. UNCHANGED <<runtimes, storage, broken, dropped>>
    BY <1>9 DEF Register
  <2>2. CASE UNCHANGED calls
    BY <1>1, <2>1, <2>2
  <2>3. CASE calls' = calls \cup {Call("register", a, "runtime", {})}
    <3>1. \A d \in {Call("register", a, "runtime", {})} : d.from # "refresh"
      BY DEF Call
    <3>2. Passes({}, {Call("register", a, "runtime", {})})
      BY <2>1, <2>3, <3>1 DEF Passes
    <3>3. QED
      BY <3>2, KeptByRequests
  <2>4. QED
    BY <1>9, <2>2, <2>3 DEF Register
<1>10. ASSUME NEW a \in Aliases, Unregister(a) PROVE KeptInv'
  BY <1>10 DEF Unregister, KeptInv, StoredLoads, ListedLoaded, From
<1>11. ASSUME NEW o \in Operations, User(o) \/ Server(o) \/ Complete(o) PROVE KeptInv'
  <2>1. UNCHANGED <<runtimes, storage, calls, broken, dropped>>
    BY <1>11 DEF User, CreateHost, CreateEnv, DeleteHost, Begin, Server, AcceptCreate,
                 AcceptDelete, Reject, PollAnswered, PollFails, Complete, loaded
  <2>2. QED
    BY <1>1, <2>1
<1>12. CASE \E h \in Hosts : HostRuns(h) \/ GroupRuns(h)
  BY <1>1, <1>12 DEF HostRuns, GroupRuns, loaded
<1>13. CASE UNCHANGED vars
  BY <1>1, <1>13 DEF vars, loaded
<1>14. QED
  BY <1>2, <1>3, <1>4, <1>5, <1>6, <1>7, <1>8, <1>9, <1>10, <1>11, <1>12, <1>13
     DEF Next, Deliver

(* The list of runtimes is written by Save alone, in full unless a refresh  *)
(* is under way or has failed: no other interleaving forgets a runtime that *)
(* the user did not unregister.                                             *)
THEOREM RuntimesAreKept == Spec => RuntimesKept
<1>1. Init => KeptInv
  <2> SUFFICES ASSUME Init PROVE KeptInv
    OBVIOUS
  <2>1. From("refresh") = Asked /\ storage \subseteq Settings
    BY DEF Init, From, Asked, Call, Settings
  <2>2. \A d \in Asked : d.kind = "runtime"
    BY DEF Asked, Call
  <2>3. QED
    BY <2>1, <2>2, AskedOfAll DEF KeptInv, StoredLoads, ListedLoaded
<1>2. TypeOK /\ KeptInv /\ [Next]_vars => KeptInv'
  BY KeptInductive
<1>3. KeptInv /\ [Next]_vars =>
        [\A a \in storage \ dropped :
            a \in storage' \/ (status = "done" /\ (From("refresh") # {} \/ broken))]_vars
  <2> SUFFICES ASSUME KeptInv, Next, NEW a \in storage \ dropped
               PROVE  a \in storage' \/ (status = "done" /\ (From("refresh") # {} \/ broken))
    OBVIOUS
  <2>1. CASE Save
    BY <2>1 DEF Save, KeptInv, StoredLoads
  <2>2. CASE ~Save
    <3>1. ASSUME NEW c \in calls, Answer(c) \/ Deliver(c) PROVE UNCHANGED storage
      BY <3>1 DEF Answer, Deliver, LoadRuntime, RegisterEnds, LoadHosts, LoadEnvs, LoadGroups,
                  LoadFails, Follow
    <3>2. ASSUME NEW o \in Operations, User(o) \/ Server(o) \/ Complete(o)
          PROVE  UNCHANGED storage
      BY <3>2 DEF User, CreateHost, CreateEnv, DeleteHost, Begin, Server, AcceptCreate,
                  AcceptDelete, Reject, PollAnswered, PollFails, Complete
    <3>3. ASSUME NEW b \in Aliases, Register(b) \/ Unregister(b) PROVE UNCHANGED storage
      BY <3>3 DEF Register, Unregister
    <3>4. ASSUME NEW h \in Hosts, HostRuns(h) \/ GroupRuns(h) PROVE UNCHANGED storage
      BY <3>4 DEF HostRuns, GroupRuns
    <3>5. ASSUME Refresh PROVE UNCHANGED storage
      BY <3>5 DEF Refresh
    <3>6. QED
      BY <2>2, <3>1, <3>2, <3>3, <3>4, <3>5 DEF Next
  <2>3. QED
    BY <2>1, <2>2
<1>4. QED
  BY <1>1, <1>2, <1>3, Typing, PTL DEF Spec, RuntimesKept

-----------------------------------------------------------------------------
(* SettledExact *)

(* The page has a host or a group, or is about to by its operation. *)
Known(h)    == h \in hosts \/ <<"create", h>> \in InFlight
KnownEnv(h) == h \in envs \/ <<"env", h>> \in InFlight

(* A delete is not polled for; a host that was deleted is not there and      *)
(* never comes back; and a host whose creation was answered has been there. *)
ServersInv ==
    \A h \in Hosts :
       /\ <<"delete", h>> \in Operations =>
             /\ op[<<"delete", h>>] # "polling"
             /\ op[<<"delete", h>>] = "answered" => h \in born \ running
       /\ <<"create", h>> \in Operations /\ op[<<"create", h>>] = "answered" =>
             h \in born

(* Without a disturbance, operations under way are of different hosts, and  *)
(* lists are not loading during a delete;                                   *)
Apart ==
    /\ \A o \in InFlight : o[1] = "delete" => calls = {}
    /\ \A o, x \in InFlight : o[2] = x[2] => o = x

(* what an operation made is still there when its end is handled;           *)
Present ==
    \A h \in Hosts :
       /\ <<"create", h>> \in InFlight /\ h \in born => h \in running
       /\ <<"env", h>> \in InFlight /\ op[<<"env", h>>] = "answered" => h \in groups

(* the page shows what is there, but for a host that is being deleted, and  *)
(* what it does not show yet comes by an operation or a request;            *)
HostsShown ==
    \A h \in running \cap HostsOf(valid) :
        Known(h) \/ \E c \in calls : c.kind = "hosts" /\ c.alias = Home[h]
EnvsShown ==
    \A h \in groups \cap HostsOf(valid) :
        KnownEnv(h) \/ \E c \in calls : \/ c.kind = "envs" /\ c.alias = Home[h]
                                        \/ c.kind = "groups" /\ h \in c.about
Shown ==
    /\ \A h \in (hosts \ running) \cup (envs \ groups) : <<"delete", h>> \in InFlight
    /\ HostsShown /\ EnvsShown

(* and an answer that waits to be handled lists nothing that is gone, and   *)
(* misses only what the page is told of otherwise.                          *)
AnswerExact(c) ==
    /\ c.kind \in {"hosts", "envs"} =>
          /\ c.found \subseteq running
          /\ \A h \in running \cap HostsOf({c.alias}) : h \in c.found \/ Known(h)
    /\ c.kind = "envs" =>
          \A h \in groups \cap HostsOf({c.alias}) : h \in c.found \/ KnownEnv(h)
    /\ c.kind = "groups" =>
          /\ c.found \subseteq groups
          /\ \A h \in groups \cap c.about : h \in c.found \/ KnownEnv(h)

Answers == \A c \in calls : c.state = "ok" => AnswerExact(c)

Calm == Apart /\ Present /\ Shown /\ Answers

ExactInv == ServersInv /\ (~disturbed => Calm)

LEMMA InFlightMoves ==
    ASSUME TypeOK, NEW o \in Operations, NEW to, op' = [op EXCEPT ![o] = to]
    PROVE  InFlight' = IF to \in {"sent", "polling", "answered"}
                       THEN InFlight \cup {o} ELSE InFlight \ {o}
<1>1. op'[o] = to /\ \A x \in Operations \ {o} : op'[x] = op[x]
  BY DEF TypeOK
<1>2. QED
  BY <1>1 DEF InFlight

LEMMA ServersInductive ==
    ASSUME TypeOK, ServersInv, [Next]_vars
    PROVE  ServersInv'
<1>1. ASSUME UNCHANGED <<op, running, born>> PROVE ServersInv'
  BY <1>1 DEF ServersInv
<1>2. ASSUME NEW o \in Operations, NEW to,
             op' = [op EXCEPT ![o] = to], born' = born, running' \subseteq running,
             to = "polling" => o[1] # "delete",
             to = "answered" => \/ o[1] = "delete" /\ o[2] \in born \ running'
                                \/ o[1] = "create" /\ o[2] \in born
                                \/ o[1] = "env"
      PROVE  ServersInv'
  <2>1. op'[o] = to /\ \A x \in Operations \ {o} : op'[x] = op[x]
    BY <1>2 DEF TypeOK
  <2>2. QED
    BY <1>2, <2>1, OperationPair DEF ServersInv
<1>3. ASSUME NEW o \in Operations, User(o) PROVE ServersInv'
  <2>1. o = <<o[1], o[2]>>
    BY OperationPair
  <2>2. op' = [op EXCEPT ![o] = "sent"] /\ UNCHANGED <<running, born>>
    BY <1>3, <2>1 DEF User, CreateHost, CreateEnv, DeleteHost, Begin, servers
  <2>3. QED
    BY <1>2, <2>2
<1>4. ASSUME NEW o \in Operations, Server(o) PROVE ServersInv'
  <2>1. CASE AcceptCreate(o)
    BY <1>2, <2>1 DEF AcceptCreate, servers
  <2>2. CASE AcceptDelete(o)
    <3>1. /\ op' = [op EXCEPT ![o] = "answered"] /\ o[1] = "delete" /\ born' = born
          /\ running' = running \ {o[2]} /\ o[2] \in born
      BY <2>2 DEF AcceptDelete, TypeOK
    <3>2. QED
      BY <1>2, <3>1
  <2>3. CASE Reject(o)
    <3>1. /\ op' = [op EXCEPT ![o] = IF o[1] = "delete" THEN "stuck" ELSE "failed"]
          /\ born' = born /\ running' \subseteq running
      BY <2>3 DEF Reject
    <3>2. QED
      BY <1>2, <3>1
  <2>4. CASE PollAnswered(o)
    <3>1. /\ op' = [op EXCEPT ![o] = "answered"] /\ UNCHANGED <<running, born>>
          /\ op[o] = "polling"
          /\ o[2] \in (IF o[1] = "create" THEN born ELSE groups)
      BY <2>4 DEF PollAnswered, servers
    <3>2. o[1] # "delete" => o[1] \in {"create", "env"}
      BY OperationPair
    <3>3. CASE o[1] # "delete"
      BY <1>2, <3>1, <3>2, <3>3
    <3>4. CASE o[1] = "delete"
      <4>1. op[<<"delete", o[2]>>] # "polling" /\ o = <<"delete", o[2]>>
        BY <3>4, OperationPair DEF ServersInv
      <4>2. QED
        BY <3>1, <4>1
    <3>5. QED
      BY <3>3, <3>4
  <2>5. CASE PollFails(o)
    BY <1>2, <2>5 DEF PollFails, servers
  <2>6. QED
    BY <1>4, <2>1, <2>2, <2>3, <2>4, <2>5 DEF Server
<1>5. ASSUME NEW o \in Operations, Complete(o) PROVE ServersInv'
  BY <1>2, <1>5 DEF Complete, servers
<1>6. ASSUME NEW h \in Hosts, HostRuns(h) \/ GroupRuns(h) PROVE ServersInv'
  <2>1. /\ UNCHANGED op /\ born \subseteq born'
        /\ \A x \in born : x \in running' => x \in running
    BY <1>6 DEF HostRuns, GroupRuns
  <2>2. QED
    BY <2>1 DEF ServersInv
<1>7. ASSUME NEW c \in calls, Answer(c) \/ Deliver(c) PROVE ServersInv'
  BY <1>1, <1>7 DEF Answer, Deliver, LoadRuntime, RegisterEnds, LoadHosts, LoadEnvs,
                    LoadGroups, LoadFails, Follow, servers
<1>8. CASE Refresh \/ Save \/ \E a \in Aliases : Register(a) \/ Unregister(a)
  BY <1>1, <1>8 DEF Refresh, Save, Register, Unregister, servers
<1>9. CASE UNCHANGED vars
  BY <1>1, <1>9 DEF vars, servers
<1>10. QED
  BY <1>3, <1>4, <1>5, <1>6, <1>7, <1>8, <1>9 DEF Next

(* While lists are loading no delete is under way, and what a request loads *)
(* is there.                                                                *)
LEMMA AnswerKept ==
    ASSUME UNCHANGED <<op, servers>>, hosts \subseteq hosts', envs \subseteq envs',
           NEW c, AnswerExact(c)
    PROVE  AnswerExact(c)'
BY DEF AnswerExact, Known, KnownEnv, InFlight, servers

LEMMA RequestsCalm ==
    ASSUME Calm, UNCHANGED <<op, servers>>, calls # {},
           hosts \subseteq hosts', hosts' \subseteq hosts \cup running,
           envs \subseteq envs', envs' \subseteq envs \cup groups,
           \A d \in calls' \ calls : d.state = "ok" => AnswerExact(d),
           HostsShown', EnvsShown'
    PROVE  Calm'
<1>1. InFlight' = InFlight /\ UNCHANGED <<running, born, groups>>
  BY DEF InFlight, servers
<1>2. Apart'
  BY <1>1 DEF Calm, Apart
<1>3. Present'
  BY <1>1 DEF Calm, Present
<1>4. Shown'
  BY <1>1 DEF Calm, Shown
<1>5. ASSUME NEW c \in calls', c.state = "ok" PROVE AnswerExact(c)'
  <2>1. AnswerExact(c)
    BY <1>5 DEF Calm, Answers
  <2>2. QED
    BY <2>1, AnswerKept
<1>6. QED
  BY <1>2, <1>3, <1>4, <1>5 DEF Calm, Answers

LEMMA AnswerCalm ==
    ASSUME TypeOK, Calm, NEW c \in calls, Answer(c)
    PROVE  Calm'
<1> DEFINE d == [c EXCEPT !.state = "ok", !.found = Truth(c)]
<1>1. /\ d.kind = c.kind /\ d.alias = c.alias /\ d.about = c.about
      /\ d.found = Truth(c) /\ c.kind \in {"hosts", "envs", "groups"}
      /\ calls' = (calls \ {c}) \cup {d}
  BY DEF Answer, TypeOK, Requests
<1>2. UNCHANGED <<hosts, envs, valid, op, servers>>
  BY DEF Answer, loaded
<1> HIDE DEF d
<1>3. AnswerExact(d)
  <2>1. CASE c.kind \in {"hosts", "envs"}
    <3>1. d.found = running \cap HostsOf({d.alias})
      BY <1>1, <2>1 DEF Truth
    <3>2. QED
      BY <1>1, <2>1, <3>1 DEF AnswerExact, TypeOK
  <2>2. CASE c.kind = "groups"
    <3>1. d.found = groups \cap d.about
      BY <1>1, <2>2 DEF Truth
    <3>2. QED
      BY <1>1, <2>2, <3>1 DEF AnswerExact
  <2>3. QED
    BY <1>1, <2>1, <2>2
<1>4. InFlight' = InFlight /\ UNCHANGED <<running, groups>>
  BY <1>2 DEF InFlight, servers
<1>5. \A x \in calls : \E y \in calls' :
        y.kind = x.kind /\ y.alias = x.alias /\ y.about = x.about
  BY <1>1
<1>6. HostsShown'
  <2> SUFFICES ASSUME NEW h \in running, h \in HostsOf(valid), ~Known(h)
               PROVE  \E y \in calls' : y.kind = "hosts" /\ y.alias = Home[h]
    BY <1>2, <1>4 DEF HostsShown, Known
  <2>1. \E x \in calls : x.kind = "hosts" /\ x.alias = Home[h]
    BY DEF Calm, Shown, HostsShown
  <2>2. QED
    BY <1>5, <2>1
<1>7. EnvsShown'
  <2> SUFFICES ASSUME NEW h \in groups, h \in HostsOf(valid), ~KnownEnv(h)
               PROVE  \E y \in calls' : \/ y.kind = "envs" /\ y.alias = Home[h]
                                        \/ y.kind = "groups" /\ h \in y.about
    BY <1>2, <1>4 DEF EnvsShown, KnownEnv
  <2>1. PICK x \in calls : \/ x.kind = "envs" /\ x.alias = Home[h]
                           \/ x.kind = "groups" /\ h \in x.about
    BY DEF Calm, Shown, EnvsShown
  <2>2. PICK y \in calls' : y.kind = x.kind /\ y.alias = x.alias /\ y.about = x.about
    BY <1>5
  <2>3. QED
    BY <2>1, <2>2
<1>8. \A x \in calls' \ calls : x = d
  BY <1>1
<1>9. QED
  BY <1>2, <1>3, <1>6, <1>7, <1>8, RequestsCalm

(* A runtime that has answered is asked for its hosts.                      *)
LEMMA RuntimeCalm ==
    ASSUME TypeOK, Calm, NEW c \in calls, LoadRuntime(c) \/ RegisterEnds(c)
    PROVE  Calm'
<1>1. c.kind = "runtime" /\ UNCHANGED <<hosts, envs, op, servers>>
  BY DEF LoadRuntime, RegisterEnds, Follow
<1>2. \/ valid' = valid \cup {c.alias} /\ calls' = (calls \ {c}) \cup Lists(c)
      \/ valid' = valid /\ calls' = calls \ {c}
  BY DEF LoadRuntime, RegisterEnds, Follow
<1>3. \A d \in Lists(c) : d.state # "ok"
  BY DEF Lists, Call
<1>4. \A kind \in {"hosts", "envs"} : \E d \in Lists(c) : d.kind = kind /\ d.alias = c.alias
  <2>1. ASSUME NEW kind \in {"hosts", "envs"}
        PROVE  \E d \in Lists(c) : d.kind = kind /\ d.alias = c.alias
    <3>1. Call(c.from, c.alias, kind, {}) \in Lists(c)
      BY DEF Lists
    <3>2. Call(c.from, c.alias, kind, {}).kind = kind
          /\ Call(c.from, c.alias, kind, {}).alias = c.alias
      BY DEF Call
    <3>3. QED
      BY <3>1, <3>2
  <2>2. QED
    BY <2>1
<1>5. InFlight' = InFlight /\ UNCHANGED <<running, groups>>
  BY <1>1 DEF InFlight, servers
<1>6. \A x \in calls : x.kind # "runtime" => x \in calls'
  BY <1>1, <1>2
<1>7. ASSUME NEW h \in HostsOf(valid') \ HostsOf(valid), NEW kind \in {"hosts", "envs"}
      PROVE  \E d \in calls' : d.kind = kind /\ d.alias = Home[h]
  <2>1. Home[h] = c.alias /\ Lists(c) \subseteq calls'
    BY <1>2, <1>7 DEF HostsOf
  <2>2. QED
    BY <1>4, <2>1
<1>8. HostsShown'
  <2> SUFFICES ASSUME NEW h \in running, h \in HostsOf(valid')
               PROVE  Known(h) \/ \E d \in calls' : d.kind = "hosts" /\ d.alias = Home[h]
    BY <1>1, <1>5 DEF HostsShown, Known
  <2>1. CASE h \in HostsOf(valid)
    BY <1>6, <2>1 DEF Calm, Shown, HostsShown
  <2>2. QED
    BY <1>7, <2>1
<1>9. EnvsShown'
  <2> SUFFICES ASSUME NEW h \in groups, h \in HostsOf(valid')
               PROVE  KnownEnv(h) \/ \E d \in calls' : \/ d.kind = "envs" /\ d.alias = Home[h]
                                                       \/ d.kind = "groups" /\ h \in d.about
    BY <1>1, <1>5 DEF EnvsShown, KnownEnv
  <2>1. CASE h \in HostsOf(valid)
    BY <1>6, <2>1 DEF Calm, Shown, EnvsShown
  <2>2. QED
    BY <1>7, <2>1
<1>10. \A d \in calls' \ calls : d.state # "ok"
  BY <1>2, <1>3
<1>11. QED
  BY <1>1, <1>8, <1>9, <1>10, RequestsCalm

LEMMA ListCalm ==
    ASSUME TypeOK, Calm, NEW c \in calls, LoadHosts(c) \/ LoadEnvs(c) \/ LoadGroups(c)
    PROVE  Calm'
<1>1. /\ UNCHANGED <<valid, op, servers>>
      /\ c.state = "ok" /\ AnswerExact(c)
  BY DEF LoadHosts, LoadEnvs, LoadGroups, Follow, Calm, Answers
<1>2. InFlight' = InFlight /\ UNCHANGED <<running, groups>>
  BY <1>1 DEF InFlight, servers
<1>3. CASE LoadHosts(c)
  <2>1. /\ hosts' = hosts \cup c.found /\ UNCHANGED envs
        /\ calls' = calls \ {c} /\ c.kind = "hosts"
    BY <1>3 DEF LoadHosts, Follow
  <2>2. c.found \subseteq running
    BY <1>1, <2>1 DEF AnswerExact
  <2>3. HostsShown'
    BY <1>1, <1>2, <2>1 DEF Calm, Shown, HostsShown, Known, AnswerExact, HostsOf
  <2>4. EnvsShown'
    BY <1>1, <1>2, <2>1 DEF Calm, Shown, EnvsShown, KnownEnv
  <2>5. QED
    BY <1>1, <2>1, <2>2, <2>3, <2>4, RequestsCalm
<1>4. CASE LoadEnvs(c)
  <2>1. c.kind = "envs" /\ UNCHANGED <<hosts, envs>>
    BY <1>4 DEF LoadEnvs
  <2>2. ASSUME NEW h \in groups, Home[h] = c.alias, h \notin c.found PROVE KnownEnv(h)
    BY <1>1, <2>1, <2>2 DEF AnswerExact, HostsOf, TypeOK
  <2>3. CASE calls' = (calls \ {c}) \cup
                      {Call(c.from, c.alias, "groups", {h}) : h \in c.found}
    <3>1. \A d \in calls' \ calls : d.state # "ok"
      BY <2>3 DEF Call
    <3>2. ASSUME NEW h \in c.found PROVE \E d \in calls' : d.kind = "groups" /\ h \in d.about
      <4>1. Call(c.from, c.alias, "groups", {h}) \in calls'
        BY <2>3, <3>2
      <4>2. Call(c.from, c.alias, "groups", {h}).kind = "groups"
            /\ h \in Call(c.from, c.alias, "groups", {h}).about
        BY DEF Call
      <4>3. QED
        BY <4>1, <4>2
    <3>3. HostsShown'
      BY <1>1, <1>2, <2>1, <2>3 DEF Calm, Shown, HostsShown, Known
    <3>4. EnvsShown'
      <4> SUFFICES ASSUME NEW h \in groups, h \in HostsOf(valid), ~KnownEnv(h)
                   PROVE  \E d \in calls' : \/ d.kind = "envs" /\ d.alias = Home[h]
                                            \/ d.kind = "groups" /\ h \in d.about
        BY <1>1, <1>2, <2>1 DEF EnvsShown, KnownEnv
      <4>1. PICK d \in calls : \/ d.kind = "envs" /\ d.alias = Home[h]
                               \/ d.kind = "groups" /\ h \in d.about
        BY DEF Calm, Shown, EnvsShown
      <4>2. CASE d = c
        BY <2>1, <2>2, <3>2, <4>1, <4>2
      <4>3. CASE d # c
        BY <2>3, <4>1, <4>3
      <4>4. QED
        BY <4>2, <4>3
    <3>5. QED
      BY <1>1, <2>1, <3>1, <3>3, <3>4, RequestsCalm
  <2>4. CASE c.found = {} /\ calls' = calls \ {d \in From(c.from) : d.alias = c.alias}
    <3>1. HostsShown'
      <4> SUFFICES ASSUME NEW h \in running, h \in HostsOf(valid), ~Known(h)
                   PROVE  \E d \in calls' : d.kind = "hosts" /\ d.alias = Home[h]
        BY <1>1, <1>2, <2>1 DEF HostsShown, Known
      <4>1. PICK d \in calls : d.kind = "hosts" /\ d.alias = Home[h]
        BY DEF Calm, Shown, HostsShown
      <4>2. d.alias # c.alias
        BY <1>1, <2>1, <2>4, <4>1 DEF AnswerExact, HostsOf
      <4>3. QED
        BY <2>4, <4>1, <4>2
    <3>2. EnvsShown'
      <4> SUFFICES ASSUME NEW h \in groups, h \in HostsOf(valid), ~KnownEnv(h)
                   PROVE  \E d \in calls' : \/ d.kind = "envs" /\ d.alias = Home[h]
                                            \/ d.kind = "groups" /\ h \in d.about
        BY <1>1, <1>2, <2>1 DEF EnvsShown, KnownEnv
      <4>1. PICK d \in calls : \/ d.kind = "envs" /\ d.alias = Home[h]
                               \/ d.kind = "groups" /\ h \in d.about
        BY DEF Calm, Shown, EnvsShown
      <4>2. d.about \subseteq HostsOf({d.alias})
        BY DEF TypeOK
      <4>3. d.alias = Home[h]
        BY <4>1, <4>2 DEF HostsOf
      <4>4. d.alias # c.alias
        BY <2>2, <2>4, <4>3
      <4>5. QED
        BY <2>4, <4>1, <4>4
    <3>3. QED
      BY <1>1, <2>1, <2>4, <3>1, <3>2, RequestsCalm
  <2>5. QED
    BY <1>4, <2>3, <2>4 DEF LoadEnvs, Follow
<1>5. CASE LoadGroups(c)
  <2>1. /\ envs' = envs \cup c.found /\ UNCHANGED hosts
        /\ calls' = calls \ {c} /\ c.kind = "groups"
    BY <1>5 DEF LoadGroups, Follow
  <2>2. c.found \subseteq groups
    BY <1>1, <2>1 DEF AnswerExact
  <2>3. HostsShown'
    BY <1>1, <1>2, <2>1 DEF Calm, Shown, HostsShown, Known
  <2>4. EnvsShown'
    BY <1>1, <1>2, <2>1 DEF Calm, Shown, EnvsShown, KnownEnv, AnswerExact
  <2>5. QED
    BY <1>1, <2>1, <2>2, <2>3, <2>4, RequestsCalm
<1>6. QED
  BY <1>3, <1>4, <1>5

LEMMA ClickCalm ==
    ASSUME TypeOK, ~disturbed => Calm, ~disturbed',
           Refresh \/ \E a \in Aliases : Register(a) \/ Unregister(a)
    PROVE  Calm'
<1>1. CASE Refresh
  <2>1. /\ InFlight = {} /\ calls' = Asked /\ UNCHANGED <<op, servers>>
        /\ hosts' = {} /\ envs' = {} /\ valid' = {}
    BY <1>1 DEF Refresh
  <2>2. InFlight' = {}
    BY <2>1 DEF InFlight
  <2>3. \A d \in Asked : d.state # "ok"
    BY DEF Asked, Call
  <2>4. HostsOf({}) = {}
    BY DEF HostsOf
  <2>5. Apart' /\ Present'
    BY <2>2 DEF Apart, Present
  <2>6. Shown'
    BY <2>1, <2>4 DEF Shown, HostsShown, EnvsShown
  <2>7. Answers'
    BY <2>1, <2>3 DEF Answers
  <2>8. QED
    BY <2>5, <2>6, <2>7 DEF Calm
<1>2. ASSUME NEW a \in Aliases, Register(a) PROVE Calm'
  <2>1. /\ UNCHANGED <<valid, hosts, envs, op, servers>> /\ calls \subseteq calls'
        /\ \A d \in calls' \ calls : d.state # "ok"
    BY <1>2 DEF Register, Call
  <2>2. ~disturbed /\ (calls' = calls \/ \A o \in InFlight : o[1] # "delete")
    <3>1. CASE UNCHANGED <<calls, disturbed>>
      BY <3>1
    <3>2. CASE disturbed' = (disturbed \/ \E o \in InFlight : o[1] = "delete")
      BY <3>2, Zenon
    <3>3. QED
      BY <1>2, <3>1, <3>2 DEF Register
  <2>3. Calm
    BY <2>2
  <2>4. InFlight' = InFlight /\ UNCHANGED <<running, born, groups>>
    BY <2>1 DEF InFlight, servers
  <2>5. Apart' /\ Present'
    BY <2>1, <2>2, <2>3, <2>4 DEF Calm, Apart, Present
  <2>6. HostsShown' /\ EnvsShown'
    <3>1. HostsShown'
      BY <2>1, <2>3, <2>4 DEF Calm, Shown, HostsShown, Known
    <3>2. EnvsShown'
      BY <2>1, <2>3, <2>4 DEF Calm, Shown, EnvsShown, KnownEnv
    <3>3. QED
      BY <3>1, <3>2
  <2>7. Shown'
    BY <2>1, <2>3, <2>4, <2>6 DEF Calm, Shown
  <2>8. Answers'
    BY <2>1, <2>3, AnswerKept DEF Calm, Answers
  <2>9. QED
    BY <2>5, <2>7, <2>8 DEF Calm
<1>3. ASSUME NEW a \in Aliases, Unregister(a) PROVE Calm'
  <2>1. /\ ~disturbed /\ calls = {} /\ InFlight = {} /\ UNCHANGED <<calls, op, servers>>
        /\ valid' = valid \ {a}
        /\ hosts' = hosts \ HostsOf({a}) /\ envs' = envs \ HostsOf({a})
    BY <1>3 DEF Unregister, TypeOK
  <2>2. Calm
    BY <2>1
  <2>3. InFlight' = {} /\ UNCHANGED <<running, groups>>
    BY <2>1 DEF InFlight, servers
  <2>4. Apart' /\ Present'
    BY <2>3 DEF Apart, Present
  <2>5. hosts \subseteq running /\ envs \subseteq groups
    BY <2>1, <2>2 DEF Calm, Shown
  <2>6. running \cap HostsOf(valid) \subseteq hosts
    BY <2>1, <2>2 DEF Calm, Shown, HostsShown, Known
  <2>7. groups \cap HostsOf(valid) \subseteq envs
    BY <2>1, <2>2 DEF Calm, Shown, EnvsShown, KnownEnv
  <2>8. \A h \in HostsOf(valid') : h \in HostsOf(valid) /\ h \notin HostsOf({a})
    BY <2>1 DEF HostsOf
  <2>9. HostsShown' /\ EnvsShown'
    BY <2>1, <2>3, <2>6, <2>7, <2>8 DEF HostsShown, EnvsShown, Known, KnownEnv
  <2>10. Shown'
    BY <2>1, <2>3, <2>5, <2>9 DEF Shown
  <2>11. Answers'
    BY <2>1 DEF Answers
  <2>12. QED
    BY <2>4, <2>10, <2>11 DEF Calm
<1>4. QED
  BY <1>1, <1>2, <1>3

(* An operation that begins or goes on only makes more known.               *)
LEMMA GoingOnCalm ==
    ASSUME Calm, UNCHANGED <<hosts, envs, valid, calls, servers>>,
           InFlight \subseteq InFlight', Apart', Present'
    PROVE  Calm'
<1>1. UNCHANGED <<running, born, groups>>
  BY DEF servers
<1>2. HostsShown'
  BY <1>1 DEF Calm, Shown, HostsShown, Known
<1>3. EnvsShown'
  BY <1>1 DEF Calm, Shown, EnvsShown, KnownEnv
<1>4. Shown'
  BY <1>1, <1>2, <1>3 DEF Calm, Shown
<1>5. Answers'
  BY <1>1 DEF Calm, Answers, AnswerExact, Known, KnownEnv
<1>6. QED
  BY <1>4, <1>5 DEF Calm

LEMMA UserCalm ==
    ASSUME TypeOK, Calm, ~disturbed', NEW o \in Operations, User(o)
    PROVE  Calm'
<1>1. o = <<o[1], o[2]>> /\ o[2] \in Hosts
  BY OperationPair
<1>2. /\ Begin(o)
      /\ o[1] = "create" => o[2] \notin born
  BY <1>1 DEF User, CreateHost, CreateEnv, DeleteHost
<1>3. /\ UNCHANGED <<hosts, envs, valid, calls, servers>> /\ ~Overlaps(o)
      /\ op' = [op EXCEPT ![o] = "sent"]
  BY <1>2 DEF Begin, loaded
<1>4. InFlight' = InFlight \cup {o} /\ UNCHANGED <<running, born, groups>>
  BY <1>3, InFlightMoves DEF servers
<1>5. Apart'
  BY <1>3, <1>4 DEF Calm, Apart, Overlaps
<1>6. Present'
  <2>1. ASSUME NEW h \in Hosts, <<"create", h>> \in InFlight', h \in born PROVE h \in running
    <3>1. CASE <<"create", h>> = o
      BY <1>2, <2>1, <3>1
    <3>2. CASE <<"create", h>> # o
      BY <1>4, <2>1, <3>2 DEF Calm, Present
    <3>3. QED
      BY <3>1, <3>2
  <2>2. ASSUME NEW h \in Hosts, <<"env", h>> \in InFlight', op'[<<"env", h>>] = "answered"
        PROVE  h \in groups
    <3>1. <<"env", h>> \in Operations /\ op'[o] = "sent"
      BY <1>3, <2>2 DEF InFlight, TypeOK
    <3>2. <<"env", h>> # o /\ op[<<"env", h>>] = "answered"
      BY <1>3, <2>2, <3>1 DEF TypeOK
    <3>3. QED
      BY <1>4, <2>2, <3>2 DEF Calm, Present
  <2>3. QED
    BY <1>4, <2>1, <2>2 DEF Present
<1>7. QED
  BY <1>3, <1>4, <1>5, <1>6, GoingOnCalm

LEMMA ServerCalm ==
    ASSUME TypeOK, ServersInv, Calm, ~disturbed', NEW o \in Operations, Server(o)
    PROVE  Calm'
<1>1. /\ o = <<o[1], o[2]>> /\ o[2] \in Hosts
      /\ o[1] \in {"create", "delete", "env"}
  BY OperationPair
<1>2. CASE AcceptCreate(o) \/ PollAnswered(o)
  <2>1. /\ UNCHANGED <<hosts, envs, valid, calls, servers>> /\ o \in InFlight
    BY <1>2 DEF AcceptCreate, PollAnswered, loaded, InFlight
  <2>2. PICK to \in {"polling", "answered"} :
          /\ op' = [op EXCEPT ![o] = to]
          /\ to = "answered" => o[2] \in (IF o[1] = "create" THEN born ELSE groups)
    BY <1>2 DEF AcceptCreate, PollAnswered
  <2>3. InFlight' = InFlight /\ UNCHANGED <<running, born, groups>>
    <3>1. InFlight' = InFlight \cup {o}
      BY <2>2, InFlightMoves
    <3>2. QED
      BY <2>1, <3>1 DEF servers
  <2>4. Apart'
    BY <2>1, <2>3 DEF Calm, Apart
  <2>5. ASSUME NEW h \in Hosts, <<"env", h>> \in InFlight, op'[<<"env", h>>] = "answered"
        PROVE  h \in groups
    <3>1. CASE <<"env", h>> = o
      <4>1. to = "answered"
        BY <2>2, <2>5, <3>1 DEF TypeOK
      <4>2. QED
        BY <2>2, <3>1, <4>1
    <3>2. CASE <<"env", h>> # o
      <4>1. <<"env", h>> \in Operations
        BY <2>5 DEF InFlight
      <4>2. op[<<"env", h>>] = "answered"
        BY <2>2, <2>5, <3>2, <4>1 DEF TypeOK
      <4>3. QED
        BY <2>5, <4>2 DEF Calm, Present
    <3>3. QED
      BY <3>1, <3>2
  <2>6. Present'
    BY <2>3, <2>5 DEF Calm, Present
  <2>7. QED
    BY <2>1, <2>3, <2>4, <2>6, GoingOnCalm
<1>3. CASE AcceptDelete(o)
  <2>1. /\ UNCHANGED <<hosts, envs, valid, calls, born>> /\ o \in InFlight
        /\ o[1] = "delete" /\ op' = [op EXCEPT ![o] = "answered"]
        /\ running' = running \ {o[2]} /\ groups' = groups \ {o[2]}
    BY <1>3 DEF AcceptDelete, loaded, InFlight
  <2>2. InFlight' = InFlight /\ calls = {}
    <3>1. InFlight' = InFlight \cup {o}
      BY <2>1, InFlightMoves
    <3>2. QED
      BY <2>1, <3>1 DEF Calm, Apart
  <2>3. Apart'
    BY <2>1, <2>2 DEF Calm, Apart
  <2>4. \A kind \in {"create", "env"} : <<kind, o[2]>> \notin InFlight
    BY <1>1, <2>1 DEF Calm, Apart
  <2>5. ASSUME NEW h \in Hosts, <<"env", h>> \in InFlight, op'[<<"env", h>>] = "answered"
        PROVE  h \in groups'
    <3>1. <<"env", h>> \in Operations /\ <<"env", h>> # o /\ h # o[2]
      BY <2>1, <2>4, <2>5 DEF InFlight
    <3>2. op[<<"env", h>>] = "answered"
      BY <2>1, <2>5, <3>1 DEF TypeOK
    <3>3. QED
      BY <2>1, <2>5, <3>1, <3>2 DEF Calm, Present
  <2>6. ASSUME NEW h \in Hosts, <<"create", h>> \in InFlight, h \in born PROVE h \in running'
    <3>1. h # o[2]
      BY <2>4, <2>6
    <3>2. QED
      BY <2>1, <2>6, <3>1 DEF Calm, Present
  <2>7. Present'
    BY <2>1, <2>2, <2>5, <2>6 DEF Present
  <2>8. ASSUME NEW h \in (hosts \ running') \cup (envs \ groups')
        PROVE  <<"delete", h>> \in InFlight
    <3>1. CASE h = o[2]
      BY <1>1, <2>1, <3>1
    <3>2. CASE h # o[2]
      BY <2>1, <2>8, <3>2 DEF Calm, Shown
    <3>3. QED
      BY <3>1, <3>2
  <2>9. HostsShown'
    BY <2>1, <2>2 DEF Calm, Shown, HostsShown, Known
  <2>10. EnvsShown'
    BY <2>1, <2>2 DEF Calm, Shown, EnvsShown, KnownEnv
  <2>11. Shown'
    BY <2>1, <2>2, <2>8, <2>9, <2>10 DEF Shown
  <2>12. QED
    BY <2>1, <2>2, <2>3, <2>7, <2>11 DEF Calm, Answers
<1>4. CASE Reject(o) \/ PollFails(o)
  BY <1>4 DEF Reject, PollFails
<1>5. QED
  BY <1>2, <1>3, <1>4 DEF Server

(* The end of an operation shows what it made, which is there, and takes    *)
(* off what it deleted, which is not.                                       *)
LEMMA CompleteCalm ==
    ASSUME TypeOK, ServersInv, Calm, NEW o \in Operations, Complete(o)
    PROVE  Calm'
<1>1. /\ o = <<o[1], o[2]>> /\ o[2] \in Hosts
      /\ o[1] \in {"create", "delete", "env"}
  BY OperationPair
<1>2. /\ op[o] = "answered" /\ op' = [op EXCEPT ![o] = "done"] /\ o \in InFlight
      /\ UNCHANGED <<valid, calls, running, born, groups>>
  BY DEF Complete, servers, InFlight
<1>3. InFlight' = InFlight \ {o}
  BY <1>2, InFlightMoves
<1>4. Apart'
  BY <1>2, <1>3 DEF Calm, Apart
<1>5. Present'
  <2>1. ASSUME NEW h \in Hosts, <<"env", h>> \in InFlight', op'[<<"env", h>>] = "answered"
        PROVE  h \in groups
    <3>1. <<"env", h>> \in Operations /\ <<"env", h>> # o /\ <<"env", h>> \in InFlight
      BY <1>3, <2>1 DEF InFlight
    <3>2. op[<<"env", h>>] = "answered"
      BY <1>2, <2>1, <3>1 DEF TypeOK
    <3>3. QED
      BY <3>1, <3>2 DEF Calm, Present
  <2>2. QED
    BY <1>2, <1>3, <2>1 DEF Calm, Present
<1>6. CASE o[1] = "create"
  <2>1. hosts' = hosts \cup {o[2]} /\ envs' = envs
    BY <1>6 DEF Complete
  <2>2. o[2] \in running
    BY <1>1, <1>2, <1>6 DEF ServersInv, Calm, Present
  <2>3. \A h : /\ Known(h) => h \in hosts' \/ <<"create", h>> \in InFlight'
               /\ KnownEnv(h) => h \in envs' \/ <<"env", h>> \in InFlight'
               /\ <<"delete", h>> \in InFlight => <<"delete", h>> \in InFlight'
    BY <1>1, <1>3, <1>6, <2>1 DEF Known, KnownEnv
  <2>4. HostsShown'
    BY <1>2, <2>3 DEF Calm, Shown, HostsShown, Known
  <2>5. EnvsShown'
    BY <1>2, <2>3 DEF Calm, Shown, EnvsShown, KnownEnv
  <2>6. Shown'
    BY <1>2, <2>1, <2>2, <2>3, <2>4, <2>5 DEF Calm, Shown
  <2>7. Answers'
    BY <1>2, <2>3 DEF Calm, Answers, AnswerExact, Known, KnownEnv
  <2>8. QED
    BY <1>4, <1>5, <2>6, <2>7 DEF Calm
<1>7. CASE o[1] = "env"
  <2>1. hosts' = hosts /\ envs' = envs \cup {o[2]}
    BY <1>7 DEF Complete
  <2>2. o[2] \in groups
    BY <1>1, <1>2, <1>7 DEF Calm, Present
  <2>3. \A h : /\ Known(h) => h \in hosts' \/ <<"create", h>> \in InFlight'
               /\ KnownEnv(h) => h \in envs' \/ <<"env", h>> \in InFlight'
               /\ <<"delete", h>> \in InFlight => <<"delete", h>> \in InFlight'
    BY <1>1, <1>3, <1>7, <2>1 DEF Known, KnownEnv
  <2>4. HostsShown'
    BY <1>2, <2>3 DEF Calm, Shown, HostsShown, Known
  <2>5. EnvsShown'
    BY <1>2, <2>3 DEF Calm, Shown, EnvsShown, KnownEnv
  <2>6. Shown'
    BY <1>2, <2>1, <2>2, <2>3, <2>4, <2>5 DEF Calm, Shown
  <2>7. Answers'
    BY <1>2, <2>3 DEF Calm, Answers, AnswerExact, Known, KnownEnv
  <2>8. QED
    BY <1>4, <1>5, <2>6, <2>7 DEF Calm
<1>8. CASE o[1] = "delete"
  <2>1. hosts' = hosts \ {o[2]} /\ envs' = envs \ {o[2]} /\ calls = {}
    BY <1>2, <1>8 DEF Complete, Calm, Apart
  <2>2. o[2] \notin running /\ o[2] \notin groups
    BY <1>1, <1>2, <1>8 DEF ServersInv, TypeOK
  <2>3. \A h : h # o[2] =>
               /\ Known(h) => h \in hosts' \/ <<"create", h>> \in InFlight'
               /\ KnownEnv(h) => h \in envs' \/ <<"env", h>> \in InFlight'
               /\ <<"delete", h>> \in InFlight => <<"delete", h>> \in InFlight'
    BY <1>1, <1>3, <2>1 DEF Known, KnownEnv
  <2>4. HostsShown'
    BY <1>2, <2>1, <2>2, <2>3 DEF Calm, Shown, HostsShown, Known
  <2>5. EnvsShown'
    BY <1>2, <2>1, <2>2, <2>3 DEF Calm, Shown, EnvsShown, KnownEnv
  <2>6. Shown'
    BY <1>2, <2>1, <2>3, <2>4, <2>5 DEF Calm, Shown
  <2>7. QED
    BY <1>2, <1>4, <1>5, <2>1, <2>6 DEF Calm, Answers
<1>9. QED
  BY <1>1, <1>6, <1>7, <1>8

LEMMA RunsCalm ==
    ASSUME TypeOK, Calm, ~disturbed', NEW h \in Hosts, HostRuns(h) \/ GroupRuns(h)
    PROVE  Calm'
<1>1. UNCHANGED <<hosts, envs, valid, calls, op>> /\ InFlight' = InFlight
  BY DEF HostRuns, GroupRuns, loaded, InFlight
<1>2. Apart'
  BY <1>1 DEF Calm, Apart
<1>3. CASE HostRuns(h)
  <2>1. /\ running' = running \cup {h} /\ born' = born \cup {h} /\ groups' = groups
        /\ <<"create", h>> \in InFlight
    BY <1>3 DEF HostRuns, InFlight
  <2>2. Present'
    BY <1>1, <2>1 DEF Calm, Present
  <2>3. HostsShown'
    BY <1>1, <2>1 DEF Calm, Shown, HostsShown, Known
  <2>4. EnvsShown'
    BY <1>1, <2>1 DEF Calm, Shown, EnvsShown, KnownEnv
  <2>5. Shown'
    BY <1>1, <2>1, <2>3, <2>4 DEF Calm, Shown
  <2>6. Answers'
    BY <1>1, <2>1 DEF Calm, Answers, AnswerExact, Known, KnownEnv
  <2>7. QED
    BY <1>2, <2>2, <2>5, <2>6 DEF Calm
<1>4. CASE GroupRuns(h)
  <2>1. /\ groups' = groups \cup {h} /\ running' = running /\ born' = born
        /\ <<"env", h>> \in InFlight
    BY <1>4 DEF GroupRuns, InFlight
  <2>2. Present'
    BY <1>1, <2>1 DEF Calm, Present
  <2>3. HostsShown'
    BY <1>1, <2>1 DEF Calm, Shown, HostsShown, Known
  <2>4. EnvsShown'
    BY <1>1, <2>1 DEF Calm, Shown, EnvsShown, KnownEnv
  <2>5. Shown'
    BY <1>1, <2>1, <2>3, <2>4 DEF Calm, Shown
  <2>6. Answers'
    BY <1>1, <2>1 DEF Calm, Answers, AnswerExact, Known, KnownEnv
  <2>7. QED
    BY <1>2, <2>2, <2>5, <2>6 DEF Calm
<1>5. QED
  BY <1>3, <1>4

(* Only a refresh can end a disturbance. *)
LEMMA DisturbedStays ==
    ASSUME TypeOK, [Next]_vars, ~Refresh, ~disturbed'
    PROVE  ~disturbed
<1>1. ASSUME NEW c \in calls, Answer(c) \/ Deliver(c) PROVE ~disturbed
  BY <1>1 DEF Answer, Deliver, LoadRuntime, RegisterEnds, LoadHosts, LoadEnvs,
              LoadGroups, LoadFails, Follow
<1>2. ASSUME NEW o \in Operations, User(o) \/ Server(o) \/ Complete(o) PROVE ~disturbed
  BY <1>2 DEF User, CreateHost, CreateEnv, DeleteHost, Begin, Server, AcceptCreate,
              AcceptDelete, Reject, PollAnswered, PollFails, Complete, TypeOK
<1>3. CASE Save \/ \E a \in Aliases : Register(a) \/ Unregister(a)
  BY <1>3 DEF Save, Register, Unregister, TypeOK
<1>4. CASE \E h \in Hosts : HostRuns(h) \/ GroupRuns(h)
  BY <1>4 DEF HostRuns, GroupRuns, TypeOK
<1>5. CASE UNCHANGED vars
  BY <1>5 DEF vars
<1>6. QED
  BY <1>1, <1>2, <1>3, <1>4, <1>5 DEF Next

LEMMA ExactInductive ==
    ASSUME TypeOK, ExactInv, [Next]_vars
    PROVE  ExactInv'
<1>1. ServersInv /\ ServersInv'
  BY ServersInductive DEF ExactInv
<1>2. SUFFICES ASSUME ~disturbed' PROVE Calm'
  BY <1>1 DEF ExactInv
<1>3. CASE Refresh
  BY <1>2, <1>3, ClickCalm DEF ExactInv
<1>4. CASE ~Refresh
  <2>1. Calm
    BY <1>2, <1>4, DisturbedStays DEF ExactInv
  <2>2. ASSUME NEW c \in calls, Answer(c) \/ Deliver(c) PROVE Calm'
    <3>1. CASE LoadFails(c)
      BY <1>2, <3>1 DEF LoadFails
    <3>2. QED
      BY <2>1, <2>2, <3>1, AnswerCalm, RuntimeCalm, ListCalm DEF Deliver
  <2>3. ASSUME NEW o \in Operations, User(o) \/ Server(o) \/ Complete(o) PROVE Calm'
    BY <1>1, <1>2, <2>1, <2>3, UserCalm, ServerCalm, CompleteCalm
  <2>4. CASE \E a \in Aliases : Register(a) \/ Unregister(a)
    BY <1>2, <2>1, <2>4, ClickCalm
  <2>5. CASE Save \/ UNCHANGED vars
    <3>1. UNCHANGED <<hosts, envs, valid, calls, op, servers>> /\ InFlight' = InFlight
      BY <2>5 DEF Save, vars, loaded, InFlight
    <3>2. Apart' /\ Present'
      BY <2>1, <3>1 DEF Calm, Apart, Present, servers
    <3>3. QED
      BY <2>1, <3>1, <3>2, GoingOnCalm
  <2>6. CASE \E h \in Hosts : HostRuns(h) \/ GroupRuns(h)
    BY <1>2, <2>1, <2>6, RunsCalm
  <2>7. QED
    BY <1>4, <2>2, <2>3, <2>4, <2>5, <2>6 DEF Next
<1>5. QED
  BY <1>3, <1>4

(* Once loads and operations have ended, the page shows the hosts and       *)
(* environments that the servers it reached have, and no others, although   *)
(* the lists come late and in any order while hosts and environments are    *)
(* created.  For any runtimes, hosts and operations, and any number of      *)
(* refreshes.                                                               *)
THEOREM SettledIsExact == Spec => []SettledExact
<1>1. Init => ExactInv
  <2> SUFFICES ASSUME Init PROVE ExactInv
    OBVIOUS
  <2>1. InFlight = {}
    BY DEF Init, InFlight
  <2>2. HostsOf({}) = {}
    BY DEF HostsOf
  <2>3. \A d \in Asked : d.state # "ok"
    BY DEF Asked, Call
  <2>4. Calm
    BY <2>1, <2>2, <2>3
       DEF Init, Calm, Apart, Present, Shown, HostsShown, EnvsShown, Answers
  <2>5. ServersInv
    BY DEF Init, ServersInv
  <2>6. QED
    BY <2>4, <2>5 DEF ExactInv
<1>2. TypeOK /\ ExactInv /\ [Next]_vars => ExactInv'
  BY ExactInductive
<1>3. TypeOK /\ ExactInv => SettledExact
  <2> SUFFICES ASSUME TypeOK, ExactInv, calls = {}, InFlight = {}, ~disturbed
               PROVE  /\ hosts \subseteq running /\ envs \subseteq groups
                      /\ running \cap HostsOf(valid) \subseteq hosts
                      /\ groups \cap HostsOf(valid) \subseteq envs
    BY DEF SettledExact
  <2>1. Shown
    BY DEF ExactInv, Calm
  <2>2. hosts \subseteq running /\ envs \subseteq groups
    BY <2>1 DEF Shown
  <2>3. running \cap HostsOf(valid) \subseteq hosts
    BY <2>1 DEF Shown, HostsShown, Known
  <2>4. groups \cap HostsOf(valid) \subseteq envs
    BY <2>1 DEF Shown, EnvsShown, KnownEnv
  <2>5. QED
    BY <2>2, <2>3, <2>4
<1>4. QED
  BY <1>1, <1>2, <1>3, Typing, PTL DEF Spec

-----------------------------------------------------------------------------
(* What RefreshEnds rests on *)

(* As long as the page waits for a refresh, the refresh has requests to     *)
(* wait for: there is no way out of "refreshing" but their answers.         *)
RefreshAwaits ==
    status \in {"initializing", "refreshing"} /\ ~broken => From("refresh") # {}

(* Requests that end and are followed by others: either some of a refresh   *)
(* are left, or the status is set.                                          *)
LEMMA FollowAwaits ==
    ASSUME RefreshAwaits, NEW over, NEW more, Follow(over, more)
    PROVE  RefreshAwaits'
<1> SUFFICES ASSUME status' \in {"initializing", "refreshing"}, ~broken,
                    \A d \in calls' : d.from # "refresh"
             PROVE  FALSE
  BY DEF RefreshAwaits, Follow, From
<1>1. status' = status /\ ~\E c \in over : c.from = "refresh"
  BY DEF Follow
<1>2. From("refresh") # {}
  BY <1>1 DEF RefreshAwaits
<1>3. PICK c \in calls : c.from = "refresh"
  BY <1>2 DEF From
<1>4. c \in calls'
  BY <1>1, <1>3 DEF Follow
<1>5. QED
  BY <1>3, <1>4

LEMMA AwaitsInductive ==
    ASSUME TypeOK, RefreshAwaits, [Next]_vars
    PROVE  RefreshAwaits'
<1>1. ASSUME UNCHANGED <<status, broken>>,
             \A c \in calls : c.from = "refresh" => \E d \in calls' : d.from = "refresh"
      PROVE  RefreshAwaits'
  BY <1>1 DEF RefreshAwaits, From
<1>2. ASSUME NEW c \in calls, Answer(c) PROVE RefreshAwaits'
  <2> DEFINE d == [c EXCEPT !.state = "ok", !.found = Truth(c)]
  <2>1. d.from = c.from
    BY DEF TypeOK, Requests
  <2> HIDE DEF d
  <2>2. calls' = (calls \ {c}) \cup {d} /\ UNCHANGED <<status, broken>>
    BY <1>2 DEF Answer, loaded, d
  <2>3. QED
    BY <1>1, <2>1, <2>2
<1>3. ASSUME NEW c \in calls, LoadRuntime(c) \/ LoadHosts(c) \/ LoadEnvs(c) \/ LoadGroups(c)
      PROVE  RefreshAwaits'
  <2>1. \E over, more : Follow(over, more)
    BY <1>3 DEF LoadRuntime, LoadHosts, LoadEnvs, LoadGroups
  <2>2. QED
    BY <2>1, FollowAwaits
<1>4. ASSUME NEW c \in calls, RegisterEnds(c) PROVE RefreshAwaits'
  BY <1>4 DEF RegisterEnds, RefreshAwaits
<1>5. ASSUME NEW c \in calls, LoadFails(c) PROVE RefreshAwaits'
  <2>1. CASE c.from = "refresh"
    BY <1>5, <2>1 DEF LoadFails, RefreshAwaits
  <2>2. CASE c.from # "refresh"
    BY <1>1, <1>5, <2>2 DEF LoadFails, loaded
  <2>3. QED
    BY <2>1, <2>2
<1>6. CASE Refresh
  <2>1. PICK a \in Settings : TRUE
    BY DEF Settings
  <2>2. Call("refresh", a, "runtime", {}) \in calls'
    BY <1>6 DEF Refresh, Asked
  <2>3. QED
    BY <2>2 DEF RefreshAwaits, From, Call
<1>7. CASE Save
  BY <1>1, <1>7 DEF Save, loaded
<1>8. ASSUME NEW a \in Aliases, Register(a) PROVE RefreshAwaits'
  BY <1>8 DEF Register, RefreshAwaits
<1>9. ASSUME NEW a \in Aliases, Unregister(a) PROVE RefreshAwaits'
  BY <1>1, <1>9 DEF Unregister
<1>10. ASSUME NEW o \in Operations, User(o) \/ Server(o) \/ Complete(o) PROVE RefreshAwaits'
  <2>1. UNCHANGED <<status, calls, broken>>
    BY <1>10 DEF User, CreateHost, CreateEnv, DeleteHost, Begin, Server, AcceptCreate,
                 AcceptDelete, Reject, PollAnswered, PollFails, Complete, loaded
  <2>2. QED
    BY <1>1, <2>1
<1>11. CASE \E h \in Hosts : HostRuns(h) \/ GroupRuns(h)
  BY <1>1, <1>11 DEF HostRuns, GroupRuns, loaded
<1>12. CASE UNCHANGED vars
  BY <1>1, <1>12 DEF vars, loaded
<1>13. QED
  BY <1>2, <1>3, <1>4, <1>5, <1>6, <1>7, <1>8, <1>9, <1>10, <1>11, <1>12 DEF Next, Deliver

(* A page that shows "refreshing" is waiting for an answer, or a list of    *)
(* its refresh failed: no order of answers, clicks and registrations leaves *)
(* it waiting for nothing.                                                  *)
THEOREM RefreshIsAwaited == Spec => []RefreshAwaits
<1>1. Init => RefreshAwaits
  <2> SUFFICES ASSUME Init PROVE RefreshAwaits
    OBVIOUS
  <2>1. PICK a \in Settings : TRUE
    BY DEF Settings
  <2>2. Call("refresh", a, "runtime", {}) \in calls
    BY DEF Init, Asked
  <2>3. QED
    BY <2>2 DEF RefreshAwaits, From, Call
<1>2. TypeOK /\ RefreshAwaits /\ [Next]_vars => RefreshAwaits'
  BY AwaitsInductive
<1>3. QED
  BY <1>1, <1>2, Typing, PTL DEF Spec

=============================================================================
