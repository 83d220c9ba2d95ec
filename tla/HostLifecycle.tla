----------------------------- MODULE HostLifecycle -----------------------------
(***************************************************************************)
(* Hosts are created and deleted across three parties: the client library  *)
(* (pkg/client), which repeats a request that was answered 502 or 503; the *)
(* server's handlers (pkg/app), one goroutine per request, which go on     *)
(* when the client has given a request up; and the cloud, which answers    *)
(* with operations that end later.                                         *)
(*                                                                         *)
(* A call is one create, or one goroutine of the DeleteHosts command.  Its *)
(* n-th request is <<call, n>>.  An insert operation is known by the name  *)
(* of the host it makes.  A front end, or a lost connection, may answer in *)
(* the server's place at any time.                                         *)
(*                                                                         *)
(* A user is what Username() gives: accounts whose emails agree up to the  *)
(* @ are one user.  Instances are labelled with their creator and found    *)
(* with the filter labels.cf-created_by:<user>, whose ':' the cloud takes  *)
(* to be satisfied by a part of the label: the filter of bob also finds    *)
(* what bobby created.                                                     *)
(***************************************************************************)
EXTENDS Naturals, FiniteSets

CONSTANTS
    Creates,       \* bound: the CreateHost calls
    Deletes,       \* the hosts named to DeleteHosts, one goroutine each
    Users,
    Finds,         \* the users whose label satisfies the filter of a user
    RetryAttempts, \* ServiceOptions.RetryAttempts
    MaxHosts       \* bound: the names the generator gives out

ASSUME HostLifecycleAssumption ==
    /\ RetryAttempts \in Nat /\ MaxHosts \in Nat
    /\ Creates \cap Deletes = {}
    /\ Finds \in [Users -> SUBSET Users]
    /\ \A u \in Users : u \in Finds[u]

None  == 0
Hosts == 1..MaxHosts
Calls == Creates \cup Deletes
Requests == Calls \X (1..(2 * (RetryAttempts + 1)))

VARIABLES
    pc,       \* where each call is: "idle", "send", "await" or "done"
    user,     \* who makes it
    target,   \* the host a delete names
    path,     \* the request at hand: "insert", "wait" or "delete"
    sent,     \* how many requests it has sent
    retries,  \* how often it repeated the request at hand
    op,       \* the operation a create waits for
    answer,   \* what it returned: "ok" or "error",
    host,     \* and the host a create returned
    command,  \* the DeleteHosts command: "idle", "waiting", "ok" or "error"
    at,       \* the cloud call each request's handler makes next
    status,   \* the cloud: the state of each host
    maker,    \* the call each host was made for
    inserted, \* the state of each host's insert operation
    deleters  \* the calls on whose behalf a delete of each host was accepted

clientVars == <<pc, path, sent, retries, op, answer, host>>
callVars   == <<user, target, command>>
cloudVars  == <<status, maker, inserted, deleters>>
vars == <<clientVars, callVars, at, cloudVars>>

First(kind) == IF kind = "delete" THEN "list" ELSE kind
Exists(h)   == status[h] \in {"staging", "running", "stopping"}
Owner(h)    == user[maker[h]]

(* ownerFilterExpr of a user finds a host. *)
Found(h, u) == Owner(h) \in Finds[u]

-----------------------------------------------------------------------------
(* The client: doRequest, and what CreateHost does with its two requests *)

(* The call returns, and what it knew is forgotten. *)
Conclude(c, result, payload) ==
    /\ pc' = [pc EXCEPT ![c] = "done"]
    /\ answer' = [answer EXCEPT ![c] = result]
    /\ host' = [host EXCEPT ![c] = payload]
    /\ path' = [path EXCEPT ![c] = "none"]
    /\ sent' = [sent EXCEPT ![c] = 0]
    /\ retries' = [retries EXCEPT ![c] = 0]
    /\ op' = [op EXCEPT ![c] = None]

Fail(c) == Conclude(c, "error", None)

(* Mutant of Retry: one attempt too many. *)
RetryOnceMore(c) ==
    IF retries[c] <= RetryAttempts
    THEN /\ pc' = [pc EXCEPT ![c] = "send"]
         /\ retries' = [retries EXCEPT ![c] = @ + 1]
         /\ UNCHANGED <<path, sent, op, answer, host>>
    ELSE Fail(c)

(* The answer was 502 or 503. *)
Retry(c) ==
    IF retries[c] < RetryAttempts
    THEN /\ pc' = [pc EXCEPT ![c] = "send"]
         /\ retries' = [retries EXCEPT ![c] = @ + 1]
         /\ UNCHANGED <<path, sent, op, answer, host>>
    ELSE Fail(c)

(* The answer was 2xx with the given payload. *)
Succeed(c, payload) ==
    \/ /\ path[c] = "insert"
       /\ pc' = [pc EXCEPT ![c] = "send"]
       /\ path' = [path EXCEPT ![c] = "wait"]
       /\ retries' = [retries EXCEPT ![c] = 0]
       /\ op' = [op EXCEPT ![c] = payload]
       /\ UNCHANGED <<sent, answer, host>>
    \/ /\ path[c] # "insert"
       /\ Conclude(c, "ok", payload)

Send(c) ==
    /\ pc[c] = "send"
    /\ pc' = [pc EXCEPT ![c] = "await"]
    /\ sent' = [sent EXCEPT ![c] = @ + 1]
    /\ at' = [at EXCEPT ![<<c, sent[c] + 1>>] = First(path[c])]
    /\ UNCHANGED <<path, retries, op, answer, host, user, target, command, cloudVars>>

(* The request does not get through, or its answer is lost, or a front end *)
(* answers.  A handler that runs goes on; one that only waits is left out   *)
(* from then on.                                                           *)
Unanswered(c) ==
    /\ pc[c] \in {"send", "await"}
    /\ Fail(c) \/ Retry(c)
    /\ at' = [rq \in Requests |->
                 IF rq[1] = c /\ at[rq] \in {"wait", "get"} THEN "none" ELSE at[rq]]
    /\ UNCHANGED <<callVars, cloudVars>>

(* The handler of a request is done; its answer matters if the call still  *)
(* awaits it.                                                              *)
Awaited(rq) == pc[rq[1]] = "await" /\ sent[rq[1]] = rq[2]

Reply(rq, response) ==
    /\ at' = [at EXCEPT ![rq] = "none"]
    /\ \/ Awaited(rq) /\ response
       \/ ~Awaited(rq) /\ UNCHANGED clientVars

ReplyBad(rq) == Reply(rq, Fail(rq[1]))
ReplyError(rq) == Reply(rq, Fail(rq[1]) \/ Retry(rq[1]))
ReplyOk(rq, payload) == Reply(rq, Succeed(rq[1], payload))

-----------------------------------------------------------------------------
(* The server and the cloud *)

Unused == {h \in Hosts : status[h] = "unused"}

(* Instances.Insert under a name never used before.  An error may come     *)
(* with the effect.                                                        *)
Insert(rq) ==
    /\ at[rq] = "insert"
    /\ \/ \E h \in Unused :
            /\ \A other \in Unused : h <= other
            /\ status' = [status EXCEPT ![h] = "staging"]
            /\ maker' = [maker EXCEPT ![h] = rq[1]]
            /\ inserted' = [inserted EXCEPT ![h] = "running"]
            /\ ReplyOk(rq, h) \/ ReplyError(rq)
       \/ ReplyError(rq) /\ UNCHANGED <<status, maker, inserted>>
    /\ UNCHANGED <<callVars, deleters>>

(* Mutant of WaitOperation: its status is not looked at. *)
WaitOnce(rq) ==
    /\ at[rq] = "wait"
    /\ \/ ReplyError(rq)
       \/ at' = [at EXCEPT ![rq] = "get"] /\ UNCHANGED clientVars
    /\ UNCHANGED <<callVars, cloudVars>>

(* ZoneOperations.Wait: it may return early, which is answered 503, and a  *)
(* failed operation is answered with its own code.                         *)
WaitOperation(rq) ==
    /\ at[rq] = "wait"
    /\ \/ ReplyError(rq)
       \/ /\ inserted[op[rq[1]]] = "done"
          /\ at' = [at EXCEPT ![rq] = "get"]
          /\ UNCHANGED clientVars
    /\ UNCHANGED <<callVars, cloudVars>>

(* buildCreateInstanceResult: the operation's host is looked up, and may   *)
(* be gone by then.  Errors are answered 500.                              *)
GetResult(rq) ==
    /\ at[rq] = "get"
    /\ \/ Exists(op[rq[1]]) /\ ReplyOk(rq, op[rq[1]])
       \/ ReplyBad(rq)
    /\ UNCHANGED <<callVars, cloudVars>>

(* Mutant of ListOwned: the filter names the host only. *)
ListNamed(rq) ==
    /\ at[rq] = "list"
    /\ \/ /\ Exists(target[rq[1]])
          /\ at' = [at EXCEPT ![rq] = "delete"]
          /\ UNCHANGED clientVars
       \/ ReplyError(rq)
    /\ UNCHANGED <<callVars, cloudVars>>

(* DeleteHost first lists the hosts of that name that the owner filter of  *)
(* its user finds.  An empty list is answered 400, and a failed call with  *)
(* the cloud's code.                                                       *)
ListOwned(rq) ==
    /\ at[rq] = "list"
    /\ LET h == target[rq[1]] IN
        \/ /\ Exists(h) /\ Found(h, user[rq[1]])
           /\ at' = [at EXCEPT ![rq] = "delete"]
           /\ UNCHANGED clientVars
        \/ ~(Exists(h) /\ Found(h, user[rq[1]])) /\ ReplyBad(rq)
        \/ ReplyError(rq)
    /\ UNCHANGED <<callVars, cloudVars>>

(* Instances.Delete; the operation it starts is awaited by nobody. *)
Delete(rq) ==
    /\ at[rq] = "delete"
    /\ LET h == target[rq[1]] IN
        \/ /\ status[h] \in {"staging", "running"}
           /\ status' = [status EXCEPT ![h] = "stopping"]
           /\ deleters' = [deleters EXCEPT ![h] = @ \cup {rq[1]}]
           /\ ReplyOk(rq, None) \/ ReplyError(rq)
        \/ ReplyError(rq) /\ UNCHANGED <<status, deleters>>
    /\ UNCHANGED <<callVars, maker, inserted>>

(* The cloud brings an insert operation to its end, *)
InsertEnds(h) ==
    /\ inserted[h] = "running"
    /\ \/ /\ inserted' = [inserted EXCEPT ![h] = "done"]
          /\ status' = [status EXCEPT ![h] = IF @ = "staging" THEN "running" ELSE @]
       \/ /\ inserted' = [inserted EXCEPT ![h] = "failed"]
          /\ status' = [status EXCEPT ![h] = "gone"]
    /\ UNCHANGED <<clientVars, callVars, at, maker, deleters>>

(* and a delete operation. *)
DeleteEnds(h) ==
    /\ status[h] = "stopping"
    /\ status' = [status EXCEPT ![h] = "gone"]
    /\ UNCHANGED <<clientVars, callVars, at, maker, inserted, deleters>>

-----------------------------------------------------------------------------
(* The callers *)

CreateHost(c) ==
    /\ pc[c] = "idle"
    /\ \E u \in Users : user' = [user EXCEPT ![c] = u]
    /\ pc' = [pc EXCEPT ![c] = "send"]
    /\ path' = [path EXCEPT ![c] = "insert"]
    /\ UNCHANGED <<retries, op, answer, host, target, sent, command, at, cloudVars>>

(* DeleteHosts starts a goroutine for every name, which may name any host  *)
(* that was made so far, of whatever user, and one host more than once.    *)
DeleteHosts ==
    /\ command = "idle"
    /\ \E u \in Users : user' = [c \in Calls |-> IF c \in Deletes THEN u ELSE user[c]]
    /\ \E names \in [Deletes -> Hosts \ Unused] :
        target' = [c \in Calls |-> IF c \in Deletes THEN names[c] ELSE None]
    /\ command' = "waiting"
    /\ pc' = [c \in Calls |-> IF c \in Deletes THEN "send" ELSE pc[c]]
    /\ path' = [c \in Calls |-> IF c \in Deletes THEN "delete" ELSE path[c]]
    /\ UNCHANGED <<retries, op, answer, host, sent, at, cloudVars>>

(* wg.Wait, and merr. *)
Return ==
    /\ command = "waiting"
    /\ \A d \in Deletes : pc[d] = "done"
    /\ command' = (IF \E d \in Deletes : answer[d] = "error" THEN "error" ELSE "ok")
    /\ UNCHANGED <<clientVars, user, target, at, cloudVars>>

-----------------------------------------------------------------------------
Init ==
    /\ pc = [c \in Calls |-> "idle"]
    /\ user = [c \in Calls |-> None]
    /\ target = [c \in Calls |-> None]
    /\ path = [c \in Calls |-> "none"]
    /\ sent = [c \in Calls |-> 0]
    /\ retries = [c \in Calls |-> 0]
    /\ op = [c \in Calls |-> None]
    /\ answer = [c \in Calls |-> "none"]
    /\ host = [c \in Calls |-> None]
    /\ command = "idle"
    /\ at = [rq \in Requests |-> "none"]
    /\ status = [h \in Hosts |-> "unused"]
    /\ maker = [h \in Hosts |-> None]
    /\ inserted = [h \in Hosts |-> "none"]
    /\ deleters = [h \in Hosts |-> {}]

Handle(rq) ==
    Insert(rq) \/ WaitOperation(rq) \/ GetResult(rq) \/ ListOwned(rq) \/ Delete(rq)

Next ==
    \/ \E c \in Creates : CreateHost(c)
    \/ DeleteHosts \/ Return
    \/ \E c \in Calls : Send(c) \/ Unanswered(c)
    \/ \E rq \in Requests : Handle(rq)
    \/ \E h \in Hosts : InsertEnds(h) \/ DeleteEnds(h)

Spec == Init /\ [][Next]_vars

-----------------------------------------------------------------------------
(* Properties *)

(* Every variable has its type: the type invariant of the module. *)
TypeOK ==
    /\ pc \in [Calls -> {"idle", "send", "await", "done"}]
    /\ user \in [Calls -> Users \cup {None}]
    /\ target \in [Calls -> Hosts \cup {None}]
    /\ path \in [Calls -> {"none", "insert", "wait", "delete"}]
    /\ sent \in [Calls -> Nat]
    /\ retries \in [Calls -> 0..RetryAttempts]
    /\ op \in [Calls -> Hosts \cup {None}]
    /\ answer \in [Calls -> {"none", "ok", "error"}]
    /\ host \in [Calls -> Hosts \cup {None}]
    /\ command \in {"idle", "waiting", "ok", "error"}
    /\ at \in [Requests -> {"none", "insert", "wait", "get", "list", "delete"}]
    /\ status \in [Hosts -> {"unused", "staging", "running", "stopping", "gone"}]
    /\ maker \in [Hosts -> Calls \cup {None}]
    /\ inserted \in [Hosts -> {"none", "running", "done", "failed"}]
    /\ deleters \in [Hosts -> SUBSET Calls]

(* ListHosts: the running hosts that the user's owner filter finds. *)
Listed(u) == {h \in Hosts : status[h] = "running" /\ Found(h, u)}

(* CreateHost returns a host that was made for this very call, and that the *)
(* user finds in the list unless somebody deletes it, however often its     *)
(* requests were repeated.                                                  *)
CreatedIsListed ==
    \A c \in Creates : answer[c] = "ok" =>
        /\ maker[host[c]] = c
        /\ host[c] \in Listed(user[c]) \/ deleters[host[c]] # {}

(* Hosts are deleted as they were asked to be.  TestDeleteHostVerifyUser-   *)
(* OwnsTheHost: only on behalf of a user whose owner filter finds the host, *)
(* although that is looked up in a call before the delete; this is its      *)
(* owner alone if no username is part of another.  And DeleteHosts, whose   *)
(* goroutines share one error, returns none only when the cloud has         *)
(* accepted to delete every host it named.                                  *)
OwnerDeletes ==
    \A h \in Hosts : \A d \in deleters[h] : target[d] = h /\ Found(h, user[d])

DeletesAccepted ==
    command = "ok" => \A d \in Deletes :
        d \in deleters[target[d]] /\ status[target[d]] \in {"stopping", "gone"}

DeletesObeyed == OwnerDeletes /\ DeletesAccepted

=============================================================================
