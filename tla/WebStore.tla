-------------------------------- MODULE WebStore --------------------------------
(***************************************************************************)
(* The store of the web page and the services that fill it.  A refresh     *)
(* asks every runtime for its configuration and then twice for its hosts:  *)
(* for the hosts to show, and for those to ask for their groups.  Answers  *)
(* come in any order and may be stale when they do.  Meanwhile the user    *)
(* registers runtimes, creates and deletes hosts, and creates              *)
(* environments, and the store waits for each of these operations.         *)
(*                                                                         *)
(* A runtime is known by its alias and has one zone.  A host may have one  *)
(* group, which is known by its host.                                      *)
(***************************************************************************)
EXTENDS Naturals, FiniteSets

CONSTANTS
    Aliases,
    Default,      \* the alias in defaultRuntimeSettings
    Hosts,
    Home,         \* the runtime of each host
    Operations,   \* bound: what the user may do, pairs of a kind and a host
    Starts,       \* bound: what the browser and the servers have at first
    MaxClicks     \* bound: how often the user refreshes, registers or unregisters

ASSUME WebStoreAssumption ==
    /\ Default \in Aliases
    /\ Home \in [Hosts -> Aliases]
    /\ Operations \subseteq {"create", "delete", "env"} \X Hosts
    /\ \A s \in Starts : /\ s.storage \subseteq Aliases
                        /\ s.groups \subseteq s.running /\ s.running \subseteq Hosts
    /\ MaxClicks \in Nat

VARIABLES
    runtimes,  \* AppState: the aliases,
    valid,     \* those whose runtime answered,
    hosts,     \* the hosts,
    envs,      \* the hosts whose group is shown,
    status,    \* runtimesLoadStatus,
    waits,     \* and the operations waited for
    storage,   \* localStorage: the aliases
    calls,     \* the requests of refreshes and registrations
    broken,    \* whether the last refresh ended in an error
    op,        \* how far each operation is
    running,   \* the servers: the hosts that run,
    born,      \* those that ever did,
    groups,    \* and those with a group
    disturbed, \* history: whether the lists may be inexact, see SettledExact
    dropped,   \* history: the aliases that were unregistered
    clicks

loaded  == <<runtimes, valid, hosts, envs, status>>
servers == <<running, born, groups>>
vars == <<loaded, waits, storage, calls, broken, op, servers, disturbed, dropped, clicks>>

HostsOf(S) == {h \in Hosts : Home[h] \in S}

InFlight == {o \in Operations : op[o] \in {"sent", "polling", "answered"}}

-----------------------------------------------------------------------------
(* Requests of refreshes and registrations *)

Call(from, alias, kind, about) ==
    [from |-> from, alias |-> alias, kind |-> kind, about |-> about,
     state |-> "asked", found |-> {}]

From(who) == {c \in calls : c.from = who}

(* What a server has to list at the moment. *)
Truth(c) ==
    CASE c.kind \in {"hosts", "envs"} -> running \cap HostsOf({c.alias})
      [] c.kind = "groups" -> groups \cap c.about

(* A list is made before it comes.  A configuration is always the same, and *)
(* an error says nothing, so these are handled in the step they come.       *)
Answer(c) ==
    /\ c.kind # "runtime" /\ c.state = "asked" /\ c.about \subseteq running
    /\ calls' = (calls \ {c}) \cup {[c EXCEPT !.state = "ok", !.found = Truth(c)]}
    /\ UNCHANGED <<loaded, waits, storage, broken, op, servers, disturbed, dropped, clicks>>

(* Requests are over and followed by others.  A refresh is complete when it *)
(* has none left.                                                           *)
Follow(over, more) ==
    /\ calls' = (calls \ over) \cup more
    /\ status' = (IF /\ \E c \in over : c.from = "refresh"
                     /\ \A d \in calls' : d.from # "refresh"
                  THEN "done" ELSE status)
    /\ UNCHANGED <<waits, storage, broken, op, servers, disturbed, dropped, clicks>>

Lists(c) == {Call(c.from, c.alias, kind, {}) : kind \in {"hosts", "envs"}}

(* Mutant of LoadRuntime: the error is not caught. *)
LoadRuntimeUncaught(c) ==
    /\ c.kind = "runtime" /\ c.from = "refresh"
    /\ \/ /\ runtimes' = runtimes \cup {c.alias} /\ valid' = valid \cup {c.alias}
          /\ Follow({c}, Lists(c))
       \/ /\ calls' = calls \ From("refresh")
          /\ UNCHANGED <<runtimes, valid, status, waits, storage, broken, op, servers,
                         disturbed, dropped, clicks>>
    /\ UNCHANGED <<hosts, envs>>

(* refreshRuntime: runtime-load, and then loadHosts, which gives up on a    *)
(* runtime that did not answer.                                             *)
LoadRuntime(c) ==
    /\ c.kind = "runtime" /\ c.from = "refresh"
    /\ runtimes' = runtimes \cup {c.alias}
    /\ \/ valid' = valid \cup {c.alias} /\ Follow({c}, Lists(c))
       \/ Follow({c}, {}) /\ UNCHANGED valid
    /\ UNCHANGED <<hosts, envs>>

(* registerRuntime: runtime-register-complete, then loadHosts, or           *)
(* runtime-register-error.                                                  *)
RegisterEnds(c) ==
    /\ c.kind = "runtime" /\ c.from = "register"
    /\ \/ /\ runtimes' = runtimes \cup {c.alias}
          /\ valid' = valid \cup {c.alias}
          /\ status' = "done"
          /\ calls' = (calls \ {c}) \cup Lists(c)
          /\ dropped' = dropped \ {c.alias}
       \/ /\ status' = "register_error"
          /\ calls' = calls \ {c}
          /\ UNCHANGED <<runtimes, valid, dropped>>
    /\ UNCHANGED <<hosts, envs, waits, storage, broken, op, servers, disturbed, clicks>>

(* The first subscription of hostList$: host-load. *)
LoadHosts(c) ==
    /\ c.kind = "hosts" /\ c.state = "ok"
    /\ hosts' = hosts \cup c.found
    /\ Follow({c}, {})
    /\ UNCHANGED <<runtimes, valid, envs>>

(* Mutant of LoadEnvs: the hosts in the store are asked for groups. *)
LoadEnvsOfStore(c) ==
    /\ c.kind = "envs" /\ c.state = "ok"
    /\ Follow({c}, {Call(c.from, c.alias, "groups", {h}) : h \in hosts})
    /\ UNCHANGED <<runtimes, valid, hosts, envs>>

(* The second subscription: each host found is asked for its groups.  When  *)
(* there is none it ends without a value, and with it forkJoin, whether the *)
(* first has come or not;                                                   *)
LoadEnvs(c) ==
    /\ c.kind = "envs" /\ c.state = "ok"
    /\ \/ /\ c.found # {}
          /\ Follow({c}, {Call(c.from, c.alias, "groups", {h}) : h \in c.found})
       \/ /\ c.found = {}
          /\ Follow({d \in From(c.from) : d.alias = c.alias}, {})
    /\ UNCHANGED <<runtimes, valid, hosts, envs>>

(* env-load.                                                                *)
LoadGroups(c) ==
    /\ c.kind = "groups" /\ c.state = "ok"
    /\ envs' = envs \cup c.found
    /\ Follow({c}, {})
    /\ UNCHANGED <<runtimes, valid, hosts>>

(* An error in a list ends a whole refresh, or one registration's loadHosts. *)
LoadFails(c) ==
    /\ c.kind # "runtime" /\ c.state = "asked"
    /\ IF c.from = "refresh"
       THEN calls' = calls \ From("refresh") /\ broken' = TRUE
       ELSE calls' = {d \in calls : d.from = "refresh" \/ d.alias # c.alias} /\ UNCHANGED broken
    /\ disturbed' = TRUE
    /\ UNCHANGED <<loaded, waits, storage, op, servers, dropped, clicks>>

Deliver(c) ==
    \/ LoadRuntime(c) \/ RegisterEnds(c) \/ LoadHosts(c) \/ LoadEnvs(c) \/ LoadGroups(c)
    \/ LoadFails(c)

-----------------------------------------------------------------------------
(* What the user does with runtimes *)

Click == clicks < MaxClicks /\ clicks' = clicks + 1

Settings == IF storage = {} THEN {Default} ELSE storage

Asked == {Call("refresh", a, "runtime", {}) : a \in Settings}

(* Mutant of Refresh: the refresh before it goes on. *)
RefreshBesides ==
    /\ Click
    /\ calls' = calls \cup Asked
    /\ status' = "refreshing" /\ broken' = FALSE
    /\ runtimes' = {} /\ valid' = {} /\ hosts' = {} /\ envs' = {}
    /\ disturbed' = (From("register") # {} \/ InFlight # {})
    /\ UNCHANGED <<waits, storage, op, servers, dropped>>

(* Mutant of Refresh: it starts from the initial state. *)
RefreshAnew ==
    /\ Click
    /\ calls' = From("register") \cup Asked
    /\ status' = "refreshing" /\ broken' = FALSE /\ waits' = {}
    /\ runtimes' = {} /\ valid' = {} /\ hosts' = {} /\ envs' = {}
    /\ disturbed' = (From("register") # {} \/ InFlight # {})
    /\ UNCHANGED <<storage, op, servers, dropped>>

(* RefreshService.refresh: the subscription of the refresh before it ends,  *)
(* and refresh-start empties the lists.                                     *)
Refresh ==
    /\ Click
    /\ calls' = From("register") \cup Asked
    /\ status' = "refreshing" /\ broken' = FALSE
    /\ runtimes' = {} /\ valid' = {} /\ hosts' = {} /\ envs' = {}
    /\ disturbed' = (From("register") # {} \/ InFlight # {})
    /\ UNCHANGED <<waits, storage, op, servers, dropped>>

(* Mutant of Save: the status is not looked at. *)
SaveAlways ==
    /\ storage' = runtimes
    /\ UNCHANGED <<loaded, waits, calls, broken, op, servers, disturbed, dropped, clicks>>

(* RuntimeService.runtimes$: the list is saved when it is watched, which    *)
(* depends on the views that are open.                                      *)
Save ==
    /\ status = "done"
    /\ storage' = runtimes
    /\ UNCHANGED <<loaded, waits, calls, broken, op, servers, disturbed, dropped, clicks>>

(* registerRuntime up to its request; one at a time for each alias. *)
Register(a) ==
    /\ Click
    /\ \A c \in From("register") : c.alias # a
    /\ \/ a \in runtimes /\ status' = "register_error" /\ UNCHANGED <<calls, disturbed>>
       \/ /\ a \notin runtimes
          /\ status' = "registering"
          /\ calls' = calls \cup {Call("register", a, "runtime", {})}
          /\ disturbed' = (disturbed \/ \E o \in InFlight : o[1] = "delete")
    /\ UNCHANGED <<runtimes, valid, hosts, envs, waits, storage, broken, op, servers, dropped>>

(* unregisterRuntime *)
Unregister(a) ==
    /\ Click
    /\ a \in runtimes
    /\ runtimes' = runtimes \ {a}
    /\ valid' = valid \ {a}
    /\ hosts' = hosts \ HostsOf({a})
    /\ envs' = envs \ HostsOf({a})
    /\ dropped' = dropped \cup {a}
    /\ disturbed' = (disturbed \/ calls # {} \/ InFlight # {})
    /\ UNCHANGED <<status, waits, storage, calls, broken, op, servers>>

-----------------------------------------------------------------------------
(* Operations on hosts and environments *)

Overlaps(o) ==
    \/ o[1] = "delete" /\ calls # {}
    \/ \E other \in InFlight : other[2] = o[2] /\ other # o

Begin(o) ==
    /\ op' = [op EXCEPT ![o] = "sent"]
    /\ disturbed' = (disturbed \/ Overlaps(o))
    /\ UNCHANGED <<loaded, storage, calls, broken, servers, dropped, clicks>>

CreateHost(h) ==
    /\ op[<<"create", h>>] = "idle" /\ h \notin born /\ Home[h] \in valid
    /\ status = "done"
    /\ Begin(<<"create", h>>)
    /\ UNCHANGED waits

CreateEnv(h) ==
    /\ op[<<"env", h>>] = "idle" /\ h \notin groups /\ h \in hosts
    /\ Begin(<<"env", h>>)
    /\ UNCHANGED waits

(* A host is deleted on its own card or its group's, while they are shown   *)
(* as running: not twice at once.                                           *)
DeleteHost(h) ==
    /\ op[<<"delete", h>>] \in {"idle", "done"}
    /\ h \in hosts \cup envs /\ <<"delete", h>> \notin waits
    /\ Begin(<<"delete", h>>)
    /\ waits' = waits \cup {<<"delete", h>>}

(* The server accepts a create, which is waited for from then on, *)
AcceptCreate(o) ==
    /\ op[o] = "sent"
    /\ o[1] = "create" \/ (o[1] = "env" /\ o[2] \in running)
    /\ op' = [op EXCEPT ![o] = "polling"]
    /\ waits' = waits \cup {o}
    /\ UNCHANGED <<loaded, storage, calls, broken, servers, disturbed, dropped, clicks>>

(* or a delete, after which the host is not listed any more. *)
AcceptDelete(o) ==
    /\ op[o] = "sent" /\ o[1] = "delete" /\ o[2] \in running
    /\ op' = [op EXCEPT ![o] = "answered"]
    /\ running' = running \ {o[2]} /\ groups' = groups \ {o[2]}
    /\ UNCHANGED <<loaded, waits, storage, calls, broken, born, disturbed, dropped, clicks>>

(* A request fails, perhaps with its effect.  The store does nothing on      *)
(* errors, so a delete is waited for ever after.                             *)
Reject(o) ==
    /\ op[o] = "sent"
    /\ op' = [op EXCEPT ![o] = IF o[1] = "delete" THEN "stuck" ELSE "failed"]
    /\ \/ UNCHANGED <<running, groups>>
       \/ o[1] = "delete" /\ running' = running \ {o[2]} /\ groups' = groups \ {o[2]}
    /\ disturbed' = TRUE
    /\ UNCHANGED <<loaded, waits, storage, calls, broken, born, dropped, clicks>>

(* A host comes up, or a group. *)
HostRuns(h) ==
    /\ <<"create", h>> \in Operations
    /\ op[<<"create", h>>] \in {"polling", "failed", "stuck"} /\ h \notin born
    /\ running' = running \cup {h} /\ born' = born \cup {h}
    /\ disturbed' = (disturbed \/ op[<<"create", h>>] # "polling")
    /\ UNCHANGED <<loaded, waits, storage, calls, broken, op, groups, dropped, clicks>>

GroupRuns(h) ==
    /\ <<"env", h>> \in Operations
    /\ op[<<"env", h>>] \in {"polling", "failed", "stuck"} /\ h \in running \ groups
    /\ groups' = groups \cup {h}
    /\ disturbed' = (disturbed \/ op[<<"env", h>>] # "polling")
    /\ UNCHANGED <<loaded, waits, storage, calls, broken, op, running, born, dropped, clicks>>

(* longPolling: repeated at once after a 503, up to its result *)
PollAnswered(o) ==
    /\ op[o] = "polling"
    /\ o[2] \in (IF o[1] = "create" THEN born ELSE groups)
    /\ op' = [op EXCEPT ![o] = "answered"]
    /\ UNCHANGED <<loaded, waits, storage, calls, broken, servers, disturbed, dropped, clicks>>

(* or to another error, on which the store does nothing. *)
PollFails(o) ==
    /\ op[o] = "polling"
    /\ op' = [op EXCEPT ![o] = "stuck"]
    /\ disturbed' = TRUE
    /\ UNCHANGED <<loaded, waits, storage, calls, broken, servers, dropped, clicks>>

(* host-create-complete, env-create-complete and host-delete-complete, the  *)
(* last of which throws when the wait is not there.                         *)
Complete(o) ==
    /\ op[o] = "answered" /\ o \in waits
    /\ op' = [op EXCEPT ![o] = "done"]
    /\ waits' = waits \ {o}
    /\ hosts' = (CASE o[1] = "create" -> hosts \cup {o[2]}
                   [] o[1] = "delete" -> hosts \ {o[2]}
                   [] o[1] = "env" -> hosts)
    /\ envs' = (CASE o[1] = "create" -> envs
                  [] o[1] = "delete" -> envs \ {o[2]}
                  [] o[1] = "env" -> envs \cup {o[2]})
    /\ UNCHANGED <<runtimes, valid, status, storage, calls, broken, servers, disturbed, dropped,
                   clicks>>

-----------------------------------------------------------------------------
(* AppComponent has begun a refresh, whose refresh-start came before anyone *)
(* watched the store.                                                       *)
Init ==
    /\ \E s \in Starts : storage = s.storage /\ running = s.running /\ groups = s.groups
    /\ born = running
    /\ runtimes = {} /\ valid = {} /\ hosts = {} /\ envs = {}
    /\ status = "initializing" /\ waits = {} /\ broken = FALSE
    /\ calls = Asked
    /\ op = [o \in Operations |-> "idle"]
    /\ disturbed = FALSE /\ dropped = {} /\ clicks = 0

User(o) ==
    \/ o[1] = "create" /\ CreateHost(o[2])
    \/ o[1] = "env" /\ CreateEnv(o[2])
    \/ o[1] = "delete" /\ DeleteHost(o[2])

Server(o) == AcceptCreate(o) \/ AcceptDelete(o) \/ Reject(o) \/ PollAnswered(o) \/ PollFails(o)

Next ==
    \/ Refresh \/ Save
    \/ \E a \in Aliases : Register(a) \/ Unregister(a)
    \/ \E c \in calls : Answer(c) \/ Deliver(c)
    \/ \E o \in Operations : User(o) \/ Server(o) \/ Complete(o)
    \/ \E h \in Hosts : HostRuns(h) \/ GroupRuns(h)

Spec == Init /\ [][Next]_vars

(* HTTP requests end, and what came is handled. *)
Serve(who) == \E c \in From(who) : Answer(c) \/ Deliver(c)

FairSpec == Spec /\ \A who \in {"refresh", "register"} : WF_vars(Serve(who))

-----------------------------------------------------------------------------
(* Properties *)

Requests ==
    [from : {"refresh", "register"}, alias : Aliases,
     kind : {"runtime", "hosts", "envs", "groups"}, about : SUBSET Hosts,
     state : {"asked", "ok"}, found : SUBSET Hosts]

(* Every variable has its type, and a request is about hosts of the runtime *)
(* it goes to: the type invariant of the module.                            *)
TypeOK ==
    /\ runtimes \subseteq Aliases /\ valid \subseteq runtimes
    /\ hosts \subseteq Hosts /\ envs \subseteq Hosts
    /\ status \in {"initializing", "refreshing", "registering", "register_error", "done"}
    /\ waits \subseteq Operations
    /\ storage \subseteq Aliases /\ dropped \subseteq Aliases
    /\ calls \subseteq Requests
    /\ \A c \in calls : c.about \cup c.found \subseteq HostsOf({c.alias})
    /\ broken \in BOOLEAN /\ disturbed \in BOOLEAN
    /\ op \in [Operations ->
                 {"idle", "sent", "polling", "answered", "done", "failed", "stuck"}]
    /\ running \subseteq born /\ born \subseteq Hosts /\ groups \subseteq running
    /\ clicks \in 0..MaxClicks

(* Once loads and operations have ended, the page shows the hosts and       *)
(* environments that the servers it reached have, and no others: answers    *)
(* may come late and in any order, also while hosts and environments are    *)
(* created.  It need not when since the refresh began a host was deleted    *)
(* while lists were loading, a runtime was unregistered while something was *)
(* under way, two operations of one host overlapped, or one failed, or when *)
(* an operation or a registration was under way as it began.                *)
SettledExact ==
    calls = {} /\ InFlight = {} /\ ~disturbed =>
        /\ hosts \subseteq running /\ envs \subseteq groups
        /\ running \cap HostsOf(valid) \subseteq hosts
        /\ groups \cap HostsOf(valid) \subseteq envs

(* The store waits for exactly the operations that are under way or have    *)
(* failed, whatever is refreshed meanwhile: host-delete-complete finds its  *)
(* wait, without which its reducer throws and the store is dead.            *)
WaitsTracked ==
    waits = {o \in Operations :
                \/ op[o] \in {"polling", "answered", "stuck"}
                \/ op[o] = "sent" /\ o[1] = "delete"}

(* A runtime is forgotten by the browser only when the user unregistered    *)
(* it, or a registration ended, and the list was saved, while the refresh   *)
(* had not loaded it or had failed.                                         *)
RuntimesKept ==
    [][\A a \in storage \ dropped :
          a \in storage' \/ (status = "done" /\ (From("refresh") # {} \/ broken))]_vars

(* A refresh comes to its end, whether runtimes answer or not, unless a     *)
(* list of hosts or groups fails.                                           *)
RefreshEnds ==
    status \in {"initializing", "refreshing"} ~>
        status \notin {"initializing", "refreshing"} \/ broken

=============================================================================
