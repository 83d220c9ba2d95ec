-------------------------- MODULE HostLifecycle_proofs --------------------------
(***************************************************************************)
(* Theorems about HostLifecycle, for any calls, users, hosts and retries.  *)
(***************************************************************************)
EXTENDS HostLifecycle, TLAPS

-----------------------------------------------------------------------------
(* Types *)

Answers == Hosts \cup {None}

ClientOK ==
    /\ pc \in [Calls -> {"idle", "send", "await", "done"}]
    /\ path \in [Calls -> {"none", "insert", "wait", "delete"}]
    /\ sent \in [Calls -> Nat]
    /\ retries \in [Calls -> 0..RetryAttempts]
    /\ op \in [Calls -> Answers]
    /\ answer \in [Calls -> {"none", "ok", "error"}]
    /\ host \in [Calls -> Answers]

AtOK == at \in [Requests -> {"none", "insert", "wait", "get", "list", "delete"}]

CallOK ==
    /\ user \in [Calls -> Users \cup {None}]
    /\ target \in [Calls -> Answers]
    /\ command \in {"idle", "waiting", "ok", "error"}

CloudOK ==
    /\ status \in [Hosts -> {"unused", "staging", "running", "stopping", "gone"}]
    /\ maker \in [Hosts -> Calls \cup {None}]
    /\ inserted \in [Hosts -> {"none", "running", "done", "failed"}]
    /\ deleters \in [Hosts -> SUBSET Calls]

LEMMA TypeParts == TypeOK <=> ClientOK /\ AtOK /\ CallOK /\ CloudOK
BY DEF TypeOK, ClientOK, AtOK, CallOK, CloudOK, Answers

(* What a call does with an answer keeps the client's types. *)
LEMMA ConcludeTypes ==
    ASSUME ClientOK, NEW c \in Calls, NEW result \in {"ok", "error"},
           NEW payload \in Answers, Conclude(c, result, payload)
    PROVE  ClientOK'
<1>1. 0 \in 0..RetryAttempts
  BY HostLifecycleAssumption DEF HostLifecycleAssumption
<1>2. None \in Answers
  BY DEF Answers
<1>3. QED
  BY <1>1, <1>2 DEF Conclude, ClientOK

LEMMA RetryTypes ==
    ASSUME ClientOK, NEW c \in Calls, Fail(c) \/ Retry(c)
    PROVE  ClientOK'
<1>1. None \in Answers
  BY DEF Answers
<1>2. CASE Fail(c)
  BY <1>1, <1>2, ConcludeTypes DEF Fail
<1>3. CASE Retry(c) /\ ~Fail(c)
  <2>1. retries[c] + 1 \in 0..RetryAttempts
    BY <1>3, HostLifecycleAssumption DEF Retry, HostLifecycleAssumption, ClientOK
  <2>2. retries' = [retries EXCEPT ![c] = retries[c] + 1]
        /\ pc' = [pc EXCEPT ![c] = "send"] /\ UNCHANGED <<path, sent, op, answer, host>>
    BY <1>3 DEF Retry
  <2>3. QED
    BY <2>1, <2>2 DEF ClientOK
<1>4. QED
  BY <1>2, <1>3

LEMMA SucceedTypes ==
    ASSUME ClientOK, NEW c \in Calls, NEW payload \in Answers, Succeed(c, payload)
    PROVE  ClientOK'
<1>1. CASE path[c] = "insert"
  <2>1. 0 \in 0..RetryAttempts
    BY HostLifecycleAssumption DEF HostLifecycleAssumption
  <2>2. QED
    BY <1>1, <2>1 DEF Succeed, ClientOK
<1>2. CASE path[c] # "insert"
  BY <1>2, ConcludeTypes DEF Succeed
<1>3. QED
  BY <1>1, <1>2

LEMMA ReplyTypes ==
    ASSUME ClientOK, AtOK, NEW rq \in Requests, NEW payload \in Answers,
           ReplyBad(rq) \/ ReplyError(rq) \/ ReplyOk(rq, payload)
    PROVE  ClientOK' /\ AtOK'
<1>1. rq[1] \in Calls
  BY DEF Requests
<1>2. AtOK'
  BY DEF AtOK, ReplyBad, ReplyError, ReplyOk, Reply
<1>3. CASE UNCHANGED clientVars
  BY <1>2, <1>3 DEF clientVars, ClientOK
<1>4. CASE Fail(rq[1]) \/ Retry(rq[1])
  BY <1>1, <1>2, <1>4, RetryTypes
<1>5. CASE Succeed(rq[1], payload)
  BY <1>1, <1>2, <1>5, SucceedTypes
<1>6. QED
  BY <1>3, <1>4, <1>5 DEF ReplyBad, ReplyError, ReplyOk, Reply

LEMMA TypeInductive ==
    ASSUME TypeOK, [Next]_vars
    PROVE  TypeOK'
<1>1. ClientOK /\ AtOK /\ CallOK /\ CloudOK
  BY TypeParts
<1>2. SUFFICES ClientOK' /\ AtOK' /\ CallOK' /\ CloudOK'
  BY TypeParts DEF TypeOK, ClientOK, AtOK, CallOK, CloudOK, Answers
<1> USE <1>1
<1>3. None \in Answers /\ Hosts \subseteq Answers
  BY DEF Answers
<1>4. ASSUME NEW c \in Creates, CreateHost(c) PROVE ClientOK' /\ AtOK' /\ CallOK' /\ CloudOK'
  BY <1>4 DEF CreateHost, Calls, ClientOK, AtOK, CallOK, CloudOK, cloudVars
<1>5. CASE DeleteHosts
  <2>1. ClientOK' /\ AtOK' /\ CloudOK'
    BY <1>5 DEF DeleteHosts, ClientOK, AtOK, CloudOK, cloudVars
  <2>2. user' \in [Calls -> Users \cup {None}]
    BY <1>5 DEF DeleteHosts, CallOK
  <2>3. target' \in [Calls -> Answers]
    <3>1. PICK names \in [Deletes -> Hosts \ Unused] :
            target' = [c \in Calls |-> IF c \in Deletes THEN names[c] ELSE None]
      BY <1>5 DEF DeleteHosts
    <3>2. QED
      BY <1>3, <3>1
  <2>4. QED
    BY <1>5, <2>1, <2>2, <2>3 DEF DeleteHosts, CallOK
<1>6. CASE Return
  BY <1>6 DEF Return, clientVars, cloudVars, ClientOK, AtOK, CallOK, CloudOK
<1>7. ASSUME NEW c \in Calls, Send(c) PROVE ClientOK' /\ AtOK' /\ CallOK' /\ CloudOK'
  <2>1. First(path[c]) \in {"none", "insert", "wait", "get", "list", "delete"}
    BY DEF First, ClientOK
  <2>2. AtOK'
    BY <1>7, <2>1 DEF Send, AtOK
  <2>3. ClientOK'
    BY <1>7 DEF Send, ClientOK
  <2>4. QED
    BY <1>7, <2>2, <2>3 DEF Send, CallOK, CloudOK, cloudVars
<1>8. ASSUME NEW c \in Calls, Unanswered(c) PROVE ClientOK' /\ AtOK' /\ CallOK' /\ CloudOK'
  <2>1. ClientOK'
    BY <1>8, RetryTypes DEF Unanswered
  <2>2. AtOK'
    BY <1>8 DEF Unanswered, AtOK
  <2>3. QED
    BY <1>8, <2>1, <2>2 DEF Unanswered, callVars, cloudVars, CallOK, CloudOK
<1>9. ASSUME NEW rq \in Requests, Insert(rq) PROVE ClientOK' /\ AtOK' /\ CallOK' /\ CloudOK'
  <2>1. CASE ReplyError(rq) /\ UNCHANGED <<status, maker, inserted>>
    BY <1>3, <1>9, <2>1, ReplyTypes DEF Insert, callVars, CallOK, CloudOK
  <2>2. ASSUME NEW h \in Unused,
               /\ status' = [status EXCEPT ![h] = "staging"]
               /\ maker' = [maker EXCEPT ![h] = rq[1]]
               /\ inserted' = [inserted EXCEPT ![h] = "running"]
               /\ ReplyOk(rq, h) \/ ReplyError(rq)
        PROVE  ClientOK' /\ AtOK' /\ CallOK' /\ CloudOK'
    <3>1. h \in Answers
      BY <1>3 DEF Unused
    <3>2. ClientOK' /\ AtOK'
      BY <2>2, <3>1, ReplyTypes
    <3>3. rq[1] \in Calls
      BY DEF Requests
    <3>4. QED
      BY <1>9, <2>2, <3>2, <3>3 DEF Insert, callVars, CallOK, CloudOK
  <2>3. QED
    BY <1>9, <2>1, <2>2 DEF Insert
<1>10. ASSUME NEW rq \in Requests, WaitOperation(rq)
       PROVE  ClientOK' /\ AtOK' /\ CallOK' /\ CloudOK'
  <2>1. ClientOK' /\ AtOK'
    <3>1. CASE ReplyError(rq)
      BY <1>3, <3>1, ReplyTypes
    <3>2. CASE at' = [at EXCEPT ![rq] = "get"] /\ UNCHANGED clientVars
      BY <3>2 DEF clientVars, ClientOK, AtOK
    <3>3. QED
      BY <1>10, <3>1, <3>2 DEF WaitOperation
  <2>2. QED
    BY <1>10, <2>1 DEF WaitOperation, callVars, cloudVars, CallOK, CloudOK
<1>11. ASSUME NEW rq \in Requests, GetResult(rq)
       PROVE  ClientOK' /\ AtOK' /\ CallOK' /\ CloudOK'
  <2>1. rq[1] \in Calls
    BY DEF Requests
  <2>2. op[rq[1]] \in Answers
    BY <2>1 DEF ClientOK
  <2>3. ReplyOk(rq, op[rq[1]]) \/ ReplyBad(rq)
    BY <1>11 DEF GetResult
  <2>4. ClientOK' /\ AtOK'
    BY <2>2, <2>3, ReplyTypes
  <2>5. QED
    BY <1>11, <2>4 DEF GetResult, callVars, cloudVars, CallOK, CloudOK
<1>12. ASSUME NEW rq \in Requests, ListOwned(rq)
       PROVE  ClientOK' /\ AtOK' /\ CallOK' /\ CloudOK'
  <2>1. ClientOK' /\ AtOK'
    <3>1. CASE ReplyError(rq) \/ ReplyBad(rq)
      BY <1>3, <3>1, ReplyTypes
    <3>2. CASE at' = [at EXCEPT ![rq] = "delete"] /\ UNCHANGED clientVars
      BY <3>2 DEF clientVars, ClientOK, AtOK
    <3>3. QED
      BY <1>12, <3>1, <3>2 DEF ListOwned
  <2>2. QED
    BY <1>12, <2>1 DEF ListOwned, callVars, cloudVars, CallOK, CloudOK
<1>13. ASSUME NEW rq \in Requests, Delete(rq)
       PROVE  ClientOK' /\ AtOK' /\ CallOK' /\ CloudOK'
  <2>1. ReplyOk(rq, None) \/ ReplyError(rq)
    BY <1>13 DEF Delete
  <2>2. ClientOK' /\ AtOK'
    BY <1>3, <2>1, ReplyTypes
  <2>3. rq[1] \in Calls
    BY DEF Requests
  <2>4. status' \in [Hosts -> {"unused", "staging", "running", "stopping", "gone"}]
    BY <1>13 DEF Delete, CloudOK
  <2>5. deleters' \in [Hosts -> SUBSET Calls]
    BY <1>13, <2>3 DEF Delete, CloudOK
  <2>6. QED
    BY <1>13, <2>2, <2>4, <2>5 DEF Delete, callVars, CallOK, CloudOK
<1>14. ASSUME NEW h \in Hosts, InsertEnds(h) \/ DeleteEnds(h)
       PROVE  ClientOK' /\ AtOK' /\ CallOK' /\ CloudOK'
  <2>1. CloudOK'
    BY <1>14 DEF InsertEnds, DeleteEnds, CloudOK
  <2>2. QED
    BY <1>14, <2>1 DEF InsertEnds, DeleteEnds, clientVars, callVars, ClientOK, AtOK, CallOK
<1>15. CASE UNCHANGED vars
  BY <1>15 DEF vars, clientVars, callVars, cloudVars, ClientOK, AtOK, CallOK, CloudOK
<1>16. QED
  BY <1>4, <1>5, <1>6, <1>7, <1>8, <1>9, <1>10, <1>11, <1>12, <1>13, <1>14, <1>15
     DEF Next, Handle

(* Type correctness: whatever is repeated, lost or answered late, calls,    *)
(* handlers and hosts keep their types and no request is repeated beyond    *)
(* RetryAttempts.                                                           *)
THEOREM Typing == Spec => []TypeOK
<1>1. Init => TypeOK
  <2> SUFFICES ASSUME Init PROVE TypeOK
    OBVIOUS
  <2>1. 0 \in 0..RetryAttempts
    BY HostLifecycleAssumption DEF HostLifecycleAssumption
  <2>2. QED
    BY <2>1 DEF Init, TypeOK
<1>2. TypeOK /\ [Next]_vars => TypeOK'
  BY TypeInductive
<1>3. QED
  BY <1>1, <1>2, PTL DEF Spec

-----------------------------------------------------------------------------
(* What an answer does to the calls *)

Same(c) ==
    /\ pc'[c] = pc[c] /\ path'[c] = path[c] /\ sent'[c] = sent[c]
    /\ op'[c] = op[c] /\ answer'[c] = answer[c] /\ host'[c] = host[c]

OthersSame(c) == \A e \in Calls \ {c} : Same(e)

(* The call repeats its request, or returns an error. *)
Errs(c) ==
    /\ OthersSame(c)
    /\ \/ /\ pc'[c] = "send" /\ path'[c] = path[c] /\ sent'[c] = sent[c]
          /\ op'[c] = op[c] /\ answer'[c] = answer[c] /\ host'[c] = host[c]
       \/ pc'[c] = "done" /\ path'[c] = "none" /\ answer'[c] = "error"

LEMMA ErrorEffect ==
    ASSUME TypeOK, NEW c \in Calls, Fail(c) \/ Retry(c)
    PROVE  Errs(c)
BY DEF TypeOK, Fail, Retry, Conclude, Errs, OthersSame, Same

(* The call goes on to wait, or returns what it was answered. *)
Succeeds(c, payload) ==
    /\ OthersSame(c)
    /\ \/ /\ path[c] = "insert" /\ pc'[c] = "send" /\ path'[c] = "wait"
          /\ op'[c] = payload /\ answer'[c] = answer[c] /\ host'[c] = host[c]
       \/ /\ path[c] # "insert" /\ pc'[c] = "done" /\ path'[c] = "none"
          /\ answer'[c] = "ok" /\ host'[c] = payload

LEMMA SuccessEffect ==
    ASSUME TypeOK, NEW c \in Calls, NEW payload \in Answers, Succeed(c, payload)
    PROVE  Succeeds(c, payload)
BY DEF TypeOK, Succeed, Conclude, Succeeds, OthersSame, Same

(* The handler is done, and its answer is taken by the call that awaits it  *)
(* or by nobody.                                                            *)
LEMMA ErrorReplyEffect ==
    ASSUME TypeOK, NEW rq \in Requests, ReplyError(rq) \/ ReplyBad(rq)
    PROVE  /\ at' = [at EXCEPT ![rq] = "none"]
           /\ \/ Awaited(rq) /\ Errs(rq[1])
              \/ ~Awaited(rq) /\ UNCHANGED clientVars
<1>1. rq[1] \in Calls
  BY DEF Requests
<1>2. QED
  BY <1>1, ErrorEffect DEF ReplyError, ReplyBad, Reply

LEMMA OkReplyEffect ==
    ASSUME TypeOK, NEW rq \in Requests, NEW payload \in Answers, ReplyOk(rq, payload)
    PROVE  /\ at' = [at EXCEPT ![rq] = "none"]
           /\ \/ Awaited(rq) /\ Succeeds(rq[1], payload)
              \/ ~Awaited(rq) /\ UNCHANGED clientVars
<1>1. rq[1] \in Calls
  BY DEF Requests
<1>2. QED
  BY <1>1, SuccessEffect DEF ReplyOk, Reply

-----------------------------------------------------------------------------
(* The invariant *)

(* A call has a request at hand while it sends and awaits, of its kind, and *)
(* its answer once it is done; the deletes start together.                  *)
CallInv ==
    \A c \in Calls :
        /\ path[c] \in {"insert", "wait"} => c \in Creates
        /\ path[c] = "delete" => c \in Deletes
        /\ path[c] # "none" <=> pc[c] \in {"send", "await"}
        /\ answer[c] = "none" <=> pc[c] # "done"
        /\ c \in Deletes => (pc[c] = "idle" <=> command = "idle")

(* A handler serves a call of its kind that has begun.  One that waits is   *)
(* awaited, and one about to delete has seen that its user's filter finds   *)
(* the host.                                                                *)
HandlerOK(rq) ==
    /\ at[rq] \in {"insert", "wait", "get"} => rq[1] \in Creates /\ pc[rq[1]] # "idle"
    /\ at[rq] \in {"list", "delete"} => rq[1] \in Deletes /\ pc[rq[1]] # "idle"
    /\ at[rq] \in {"wait", "get"} => Awaited(rq) /\ path[rq[1]] = "wait"
    /\ at[rq] = "insert" /\ Awaited(rq) => path[rq[1]] = "insert"
    /\ at[rq] = "get" => inserted[op[rq[1]]] = "done"
    /\ at[rq] = "delete" =>
          /\ target[rq[1]] \in Hosts /\ status[target[rq[1]]] # "unused"
          /\ Found(target[rq[1]], user[rq[1]])

HandlerInv == \A rq \in Requests : HandlerOK(rq)

(* A host was made for a call that has begun, its state agrees with its     *)
(* operations, and the filter of who deleted it finds it.                   *)
HostOK(h) ==
    /\ status[h] # "unused" => maker[h] \in Creates /\ pc[maker[h]] # "idle"
    /\ status[h] = "unused" => inserted[h] = "none" /\ deleters[h] = {}
    /\ status[h] = "staging" => inserted[h] = "running"
    /\ inserted[h] = "running" => status[h] = "staging" \/ deleters[h] # {}
    /\ inserted[h] = "done" => status[h] = "running" \/ deleters[h] # {}
    /\ deleters[h] # {} => status[h] \in {"stopping", "gone"}
    /\ \A d \in deleters[h] :
          d \in Deletes /\ pc[d] # "idle" /\ target[d] = h /\ Found(h, user[d])

HostInv == \A h \in Hosts : HostOK(h)

(* A create waits for, and returns, a host that was made for it. *)
CreateOK(c) ==
    /\ path[c] = "wait" =>
          op[c] \in Hosts /\ status[op[c]] # "unused" /\ maker[op[c]] = c
    /\ answer[c] = "ok" =>
          host[c] \in Hosts /\ maker[host[c]] = c /\ inserted[host[c]] = "done"

CreateInv == \A c \in Creates : CreateOK(c)

(* A delete that was answered ok was accepted, and so were all of a command *)
(* that returned no error.                                                  *)
DeleteInv ==
    /\ \A d \in Deletes :
          /\ pc[d] # "idle" => target[d] \in Hosts
          /\ answer[d] = "ok" => target[d] \in Hosts /\ d \in deleters[target[d]]
          /\ command \in {"ok", "error"} => pc[d] = "done"
    /\ command = "ok" => \A d \in Deletes : answer[d] = "ok"

HostsInv == CallInv /\ HandlerInv /\ HostInv /\ CreateInv /\ DeleteInv

-----------------------------------------------------------------------------
(* What every step keeps *)

(* Names are used once, operations stay done, deletes stay accepted; what a *)
(* call was made with stays, once it has begun.                             *)
Mono ==
    /\ \A h \in Hosts :
          /\ status[h] # "unused" => status'[h] # "unused" /\ maker'[h] = maker[h]
          /\ inserted[h] = "done" => inserted'[h] = "done"
          /\ deleters[h] \subseteq deleters'[h]
    /\ \A c \in Calls : pc[c] # "idle" =>
          pc'[c] # "idle" /\ user'[c] = user[c] /\ target'[c] = target[c]

LEMMA HandlerKept ==
    ASSUME TypeOK, HostsInv, Mono, NEW rq \in Requests, at'[rq] = at[rq],
           at[rq] \in {"wait", "get"} \/ Awaited(rq)' => Same(rq[1])
    PROVE  HandlerOK(rq)'
<1> USE DEF HostsInv, HandlerInv, HandlerOK
<1>1. rq[1] \in Calls
  BY DEF Requests
<1>2. at[rq] \in {"wait", "get"} => Awaited(rq)' /\ path'[rq[1]] = "wait"
  BY DEF Awaited, Same
<1>3. ASSUME at[rq] = "get" PROVE inserted'[op'[rq[1]]] = "done"
  <2>1. op'[rq[1]] = op[rq[1]] /\ inserted[op[rq[1]]] = "done" /\ path[rq[1]] = "wait"
        /\ rq[1] \in Creates
    BY <1>3 DEF Same
  <2>2. op[rq[1]] \in Hosts
    BY <2>1 DEF CreateInv, CreateOK
  <2>3. QED
    BY <2>1, <2>2 DEF Mono
<1>4. ASSUME at[rq] = "delete"
      PROVE  /\ target'[rq[1]] \in Hosts /\ status'[target'[rq[1]]] # "unused"
             /\ Found(target[rq[1]], user[rq[1]])'
  <2> DEFINE h == target[rq[1]]
  <2>1. h \in Hosts /\ status[h] # "unused" /\ Found(h, user[rq[1]]) /\ pc[rq[1]] # "idle"
    BY <1>4
  <2>2. target'[rq[1]] = h /\ user'[rq[1]] = user[rq[1]]
    BY <1>1, <2>1 DEF Mono
  <2>3. status'[h] # "unused" /\ maker'[h] = maker[h]
    BY <2>1 DEF Mono
  <2>4. maker[h] \in Calls /\ pc[maker[h]] # "idle"
    BY <2>1 DEF HostInv, HostOK, Calls
  <2>5. user'[maker[h]] = user[maker[h]]
    BY <2>4 DEF Mono
  <2>6. QED
    BY <2>1, <2>2, <2>3, <2>5 DEF Found, Owner
<1>5. at[rq] = "insert" /\ Awaited(rq)' => path'[rq[1]] = "insert"
  BY DEF Awaited, Same
<1>6. QED
  BY <1>1, <1>2, <1>3, <1>4, <1>5 DEF Mono

LEMMA CreateKept ==
    ASSUME TypeOK, HostsInv, Mono, NEW c \in Creates, Same(c) \/ Errs(c)
    PROVE  CreateOK(c)'
<1>1. CreateOK(c) /\ c \in Calls
  BY DEF HostsInv, CreateInv, Calls
<1>2. path'[c] = "wait" => path[c] = "wait" /\ op'[c] = op[c]
  BY DEF Same, Errs
<1>3. answer'[c] = "ok" => answer[c] = "ok" /\ host'[c] = host[c]
  BY DEF Same, Errs
<1>4. ASSUME answer'[c] = "ok"
      PROVE  host'[c] \in Hosts /\ maker'[host'[c]] = c /\ inserted'[host'[c]] = "done"
  <2>1. host[c] \in Hosts /\ maker[host[c]] = c /\ inserted[host[c]] = "done"
        /\ host'[c] = host[c]
    BY <1>1, <1>3, <1>4 DEF CreateOK
  <2>2. status[host[c]] # "unused"
    BY <2>1 DEF HostsInv, HostInv, HostOK
  <2>3. QED
    BY <2>1, <2>2 DEF Mono
<1>5. QED
  BY <1>1, <1>2, <1>4 DEF CreateOK, Mono

(* A step of the cloud or of a handler that leaves a host alone. *)
LEMMA HostKept ==
    ASSUME TypeOK, HostsInv, Mono, NEW h \in Hosts, status'[h] = status[h],
           maker'[h] = maker[h], inserted'[h] = inserted[h], deleters'[h] = deleters[h]
    PROVE  HostOK(h)'
<1>1. HostOK(h)
  BY DEF HostsInv, HostInv
<1>2. status[h] # "unused" => maker[h] \in Calls /\ pc[maker[h]] # "idle"
  BY <1>1 DEF HostOK, Calls
<1>3. status[h] # "unused" => pc'[maker[h]] # "idle" /\ Owner(h)' = Owner(h)
  BY <1>2 DEF Mono, Owner
<1>4. \A d \in deleters[h] : d \in Calls /\ pc[d] # "idle" /\ status[h] # "unused"
  BY <1>1 DEF HostOK, Calls
<1>5. \A d \in deleters[h] : pc'[d] # "idle" /\ target'[d] = h /\ Found(h, user[d])'
  BY <1>1, <1>3, <1>4 DEF Mono, HostOK, Found
<1>6. QED
  BY <1>1, <1>2, <1>3, <1>5 DEF HostOK

(* A call that goes on as it was, or is answered with an error. *)
Settles(c) == Same(c) \/ (pc[c] \in {"send", "await"} /\ Errs(c))

LEMMA DeleteKept ==
    ASSUME TypeOK, HostsInv, Mono, command' = command, \A d \in Deletes : Settles(d)
    PROVE  DeleteInv'
<1>1. DeleteInv /\ CallInv /\ HostInv
  BY DEF HostsInv
<1>2. \A d \in Deletes : d \in Calls
  BY DEF Calls
<1>3. \A d \in Deletes : answer'[d] = "ok" => answer[d] = "ok"
  BY DEF Settles, Same, Errs
<1>4. \A d \in Deletes : pc[d] = "done" => pc'[d] = "done" /\ answer'[d] = answer[d]
  BY DEF Settles, Same, Errs
<1>5. \A d \in Deletes : answer[d] = "ok" => pc[d] = "done"
  BY <1>1, <1>2 DEF CallInv
<1>6. ASSUME NEW d \in Deletes, answer'[d] = "ok"
      PROVE  target'[d] \in Hosts /\ d \in deleters'[target'[d]]
  <2>1. answer[d] = "ok" /\ pc[d] = "done" /\ target[d] \in Hosts /\ d \in deleters[target[d]]
    BY <1>1, <1>3, <1>5, <1>6 DEF DeleteInv
  <2>2. QED
    BY <1>2, <2>1 DEF Mono
<1>7. ASSUME NEW d \in Deletes, pc'[d] # "idle" PROVE target'[d] \in Hosts
  <2>1. pc[d] # "idle"
    BY <1>7 DEF Settles, Same
  <2>2. QED
    BY <1>1, <1>2, <2>1 DEF DeleteInv, Mono
<1>8. QED
  BY <1>1, <1>4, <1>5, <1>6, <1>7 DEF DeleteInv

LEMMA CallKept ==
    ASSUME TypeOK, CallInv, command' = command, \A c \in Calls : Settles(c)
    PROVE  CallInv'
<1>1. ASSUME NEW e \in Calls
      PROVE  /\ path'[e] \in {"insert", "wait"} => e \in Creates
             /\ path'[e] = "delete" => e \in Deletes
             /\ path'[e] # "none" <=> pc'[e] \in {"send", "await"}
             /\ answer'[e] = "none" <=> pc'[e] # "done"
             /\ e \in Deletes => (pc'[e] = "idle" <=> command' = "idle")
  <2>1. CASE Same(e)
    BY <2>1 DEF CallInv, Same
  <2>2. CASE pc[e] \in {"send", "await"} /\ Errs(e)
    BY <2>2 DEF CallInv, Errs
  <2>3. QED
    BY <2>1, <2>2 DEF Settles
<1>2. QED
  BY <1>1 DEF CallInv

(* Two handlers are never awaited by the same call. *)
LEMMA AwaitedOnce ==
    ASSUME NEW rq \in Requests, NEW other \in Requests, Awaited(rq), Awaited(other),
           rq[1] = other[1]
    PROVE  rq = other
BY DEF Awaited, Requests

(* A handler answers with an error, whatever it has made the cloud do. *)
LEMMA ErrorStep ==
    ASSUME TypeOK, HostsInv, Mono, command' = command, NEW rq \in Requests,
           ReplyError(rq) \/ ReplyBad(rq), \A h \in Hosts : HostOK(h)'
    PROVE  HostsInv'
<1>1. rq[1] \in Calls /\ CallInv
  BY DEF Requests, HostsInv
<1>2. /\ at' = [at EXCEPT ![rq] = "none"]
      /\ \/ Awaited(rq) /\ Errs(rq[1])
         \/ ~Awaited(rq) /\ UNCHANGED clientVars
  BY ErrorReplyEffect
<1>3. \A c \in Calls \ {rq[1]} : Same(c)
  BY <1>2 DEF Errs, OthersSame, Same, clientVars
<1>4. Settles(rq[1])
  BY <1>2 DEF Settles, Same, clientVars, Awaited
<1>5. \A c \in Calls : Settles(c)
  BY <1>3, <1>4 DEF Settles
<1>6. CallInv'
  BY <1>1, <1>5, CallKept
<1>7. DeleteInv'
  BY <1>5, DeleteKept DEF Calls
<1>8. CreateInv'
  BY <1>5, CreateKept DEF Calls, Settles, CreateInv
<1>9. ASSUME NEW other \in Requests PROVE HandlerOK(other)'
  <2>1. CASE other = rq
    BY <1>2, <2>1 DEF HandlerOK, TypeOK
  <2>2. CASE other # rq
    <3>1. at'[other] = at[other]
      BY <1>2, <2>2 DEF TypeOK
    <3>2. ASSUME at[other] \in {"wait", "get"} PROVE Same(other[1])
      <4>1. Awaited(other) /\ other[1] \in Calls
        BY <3>2 DEF HostsInv, HandlerInv, HandlerOK, Requests
      <4>2. other[1] # rq[1] \/ ~Awaited(rq)
        BY <2>2, <4>1, AwaitedOnce
      <4>3. QED
        BY <1>2, <1>3, <4>1, <4>2 DEF Same, clientVars
    <3>3. Awaited(other)' => Same(other[1])
      BY <1>2, <1>3 DEF Awaited, Errs, Same, clientVars, Requests
    <3>4. QED
      BY <3>1, <3>2, <3>3, HandlerKept
  <2>3. QED
    BY <2>1, <2>2
<1>10. QED
  BY <1>6, <1>7, <1>8, <1>9 DEF HostsInv, HandlerInv, HostInv

-----------------------------------------------------------------------------
(* The steps *)

LEMMA CreateHostStep ==
    ASSUME TypeOK, HostsInv, NEW c \in Creates, CreateHost(c)
    PROVE  HostsInv'
<1> USE DEF HostsInv
<1>1. c \in Calls /\ c \notin Deletes
  BY HostLifecycleAssumption DEF HostLifecycleAssumption, Calls
<1>2. /\ pc[c] = "idle" /\ pc'[c] = "send" /\ path'[c] = "insert"
      /\ answer'[c] = answer[c]
      /\ \A e \in Calls \ {c} : Same(e) /\ user'[e] = user[e]
      /\ UNCHANGED <<target, command, at, cloudVars>>
  BY <1>1 DEF CreateHost, TypeOK, Same
<1>3. Mono
  BY <1>1, <1>2 DEF Mono, cloudVars, TypeOK, Same
<1>4. CallInv'
  BY <1>1, <1>2 DEF CallInv, Same
<1>5. HostInv'
  BY <1>2, <1>3, HostKept DEF HostInv, cloudVars
<1>6. DeleteInv'
  BY <1>1, <1>2, <1>3, DeleteKept DEF Settles, Calls
<1>7. CreateInv'
  <2>1. CreateOK(c)'
    BY <1>1, <1>2 DEF CreateOK, CallInv
  <2>2. QED
    BY <1>2, <1>3, <2>1, CreateKept DEF CreateInv, Calls
<1>8. HandlerInv'
  <2>1. ASSUME NEW rq \in Requests, at[rq] \in {"wait", "get"} \/ Awaited(rq)' PROVE Same(rq[1])
    BY <1>2, <2>1 DEF HandlerInv, HandlerOK, Requests, Awaited
  <2>2. QED
    BY <1>2, <1>3, <2>1, HandlerKept DEF HandlerInv
<1>9. QED
  BY <1>4, <1>5, <1>6, <1>7, <1>8

LEMMA DeleteHostsStep ==
    ASSUME TypeOK, HostsInv, DeleteHosts
    PROVE  HostsInv'
<1> USE DEF HostsInv
<1>1. /\ command = "idle" /\ command' = "waiting"
      /\ UNCHANGED <<sent, op, answer, host, at, cloudVars>>
      /\ \A d \in Deletes : pc'[d] = "send" /\ path'[d] = "delete"
      /\ \A c \in Calls \ Deletes : Same(c) /\ user'[c] = user[c] /\ target'[c] = None
  BY DEF DeleteHosts, Same, Calls
<1>2. \A d \in Deletes : d \in Calls /\ pc[d] = "idle" /\ answer[d] = "none"
  BY <1>1 DEF CallInv, Calls
<1>3. CallInv'
  BY <1>1, <1>2 DEF CallInv, Same
<1>4. DeleteInv'
  <2>1. PICK names \in [Deletes -> Hosts \ Unused] :
          target' = [c \in Calls |-> IF c \in Deletes THEN names[c] ELSE None]
    BY DEF DeleteHosts
  <2>2. \A d \in Deletes : target'[d] \in Hosts
    BY <1>2, <2>1
  <2>3. QED
    BY <1>1, <1>2, <2>2 DEF DeleteInv
<1>5. \A c \in Creates : Same(c) /\ c \in Calls
  BY <1>1, HostLifecycleAssumption DEF HostLifecycleAssumption, Calls
<1>6. CreateInv'
  BY <1>1, <1>5 DEF CreateInv, CreateOK, Same, cloudVars
<1>7. HostInv'
  <2>1. ASSUME NEW h \in Hosts PROVE HostOK(h)'
    <3>1. HostOK(h) /\ deleters[h] = {}
      BY <1>2 DEF HostInv, HostOK
    <3>2. QED
      BY <1>1, <1>5, <3>1 DEF HostOK, Same, cloudVars
  <2>2. QED
    BY <2>1 DEF HostInv
<1>8. HandlerInv'
  <2>1. ASSUME NEW rq \in Requests PROVE HandlerOK(rq)'
    <3>1. HandlerOK(rq) /\ at'[rq] = at[rq] /\ rq[1] \in Calls
      BY <1>1 DEF HandlerInv, Requests
    <3>2. at[rq] \notin {"list", "delete"}
      BY <1>2, <3>1 DEF HandlerOK
    <3>3. QED
      BY <1>1, <1>5, <3>1, <3>2 DEF HandlerOK, Same, Awaited, cloudVars
  <2>2. QED
    BY <2>1 DEF HandlerInv
<1>9. QED
  BY <1>3, <1>4, <1>6, <1>7, <1>8

LEMMA ReturnStep ==
    ASSUME TypeOK, HostsInv, Return
    PROVE  HostsInv'
<1> USE DEF HostsInv
<1>1. /\ command = "waiting" /\ command' \in {"ok", "error"}
      /\ \A d \in Deletes : pc[d] = "done"
      /\ command' = "ok" => \A d \in Deletes : answer[d] # "error"
      /\ UNCHANGED <<clientVars, user, target, at, cloudVars>>
  BY DEF Return
<1>2. \A d \in Deletes : d \in Calls /\ answer[d] # "none"
  BY <1>1 DEF CallInv, Calls
<1>3. command' = "ok" => \A d \in Deletes : answer[d] = "ok"
  BY <1>1, <1>2 DEF TypeOK
<1>4. DeleteInv'
  BY <1>1, <1>3 DEF DeleteInv, clientVars, cloudVars
<1>5. CallInv'
  BY <1>1 DEF CallInv, clientVars
<1>6. HandlerInv' /\ HostInv' /\ CreateInv'
  BY <1>1 DEF HandlerInv, HandlerOK, HostInv, HostOK, CreateInv, CreateOK, Found, Owner,
              Awaited, clientVars, cloudVars
<1>7. QED
  BY <1>4, <1>5, <1>6

LEMMA SendStep ==
    ASSUME TypeOK, HostsInv, NEW c \in Calls, Send(c)
    PROVE  HostsInv'
<1> USE DEF HostsInv
<1>1. /\ pc[c] = "send" /\ pc'[c] = "await" /\ sent'[c] = sent[c] + 1
      /\ UNCHANGED <<path, op, answer, host, user, target, command, cloudVars>>
      /\ \A e \in Calls \ {c} : Same(e)
      /\ at' = [at EXCEPT ![<<c, sent[c] + 1>>] = First(path[c])]
  BY DEF Send, TypeOK, Same
<1>2. Mono
  BY <1>1 DEF Mono, cloudVars, Same
<1>3. CallInv'
  BY <1>1 DEF CallInv, Same
<1>4. HostInv'
  BY <1>1, <1>2, HostKept DEF HostInv, cloudVars
<1>5. CreateInv'
  BY <1>1 DEF CreateInv, CreateOK, cloudVars
<1>6. DeleteInv'
  <2>1. \A d \in Deletes : pc[d] = "done" => pc'[d] = "done"
    BY <1>1 DEF Calls, Same
  <2>2. \A d \in Deletes : pc'[d] # "idle" => pc[d] # "idle"
    BY <1>1 DEF Calls, Same
  <2>3. QED
    BY <1>1, <2>1, <2>2 DEF DeleteInv, cloudVars
<1>7. HandlerInv'
  <2>1. ASSUME NEW rq \in Requests PROVE HandlerOK(rq)'
    <3>1. CASE rq = <<c, sent[c] + 1>>
      <4>1. at'[rq] = First(path[c]) /\ rq[1] = c /\ rq[2] = sent[c] + 1
        BY <1>1, <3>1 DEF TypeOK
      <4>2. path[c] \in {"insert", "wait", "delete"}
        BY <1>1 DEF CallInv, TypeOK
      <4>3. Awaited(rq)'
        BY <1>1, <4>1 DEF Awaited
      <4>4. QED
        BY <1>1, <4>1, <4>2, <4>3 DEF HandlerOK, First, CallInv
    <3>2. CASE rq # <<c, sent[c] + 1>>
      <4>1. at'[rq] = at[rq]
        BY <1>1, <3>2 DEF TypeOK
      <4>2. at[rq] \in {"wait", "get"} => Same(rq[1])
        BY <1>1 DEF HandlerInv, HandlerOK, Awaited, Requests
      <4>3. Awaited(rq)' => Same(rq[1])
        BY <1>1, <3>2 DEF Awaited, Requests
      <4>4. QED
        BY <1>2, <4>1, <4>2, <4>3, HandlerKept
    <3>3. QED
      BY <3>1, <3>2
  <2>2. QED
    BY <2>1 DEF HandlerInv
<1>8. QED
  BY <1>3, <1>4, <1>5, <1>6, <1>7

LEMMA UnansweredStep ==
    ASSUME TypeOK, HostsInv, NEW c \in Calls, Unanswered(c)
    PROVE  HostsInv'
<1> USE DEF HostsInv
<1>1. /\ pc[c] \in {"send", "await"} /\ Errs(c)
      /\ UNCHANGED <<callVars, cloudVars>>
      /\ \A rq \in Requests : at'[rq] = IF rq[1] = c /\ at[rq] \in {"wait", "get"}
                                      THEN "none" ELSE at[rq]
  BY ErrorEffect DEF Unanswered
<1>2. \A e \in Calls : Settles(e)
  BY <1>1 DEF Settles, Errs, OthersSame
<1>3. Mono
  BY <1>1, <1>2 DEF Mono, Settles, Same, Errs, callVars, cloudVars
<1>4. CallInv'
  BY <1>1, <1>2, CallKept DEF callVars
<1>5. DeleteInv'
  BY <1>1, <1>2, <1>3, DeleteKept DEF callVars, Calls
<1>6. CreateInv'
  BY <1>2, <1>3, CreateKept DEF CreateInv, Calls, Settles
<1>7. HostInv'
  BY <1>1, <1>3, HostKept DEF HostInv, cloudVars
<1>8. HandlerInv'
  <2>1. ASSUME NEW rq \in Requests PROVE HandlerOK(rq)'
    <3>1. CASE rq[1] = c /\ at[rq] \in {"wait", "get"}
      BY <1>1, <3>1 DEF HandlerOK
    <3>2. CASE ~(rq[1] = c /\ at[rq] \in {"wait", "get"})
      <4>1. at'[rq] = at[rq] /\ rq[1] \in Calls
        BY <1>1, <3>2 DEF Requests
      <4>2. at[rq] \in {"wait", "get"} => Same(rq[1])
        BY <1>1, <3>2, <4>1 DEF Errs, OthersSame
      <4>3. Awaited(rq)' => Same(rq[1])
        BY <1>1, <4>1 DEF Awaited, Errs, OthersSame
      <4>4. QED
        BY <1>3, <4>1, <4>2, <4>3, HandlerKept
    <3>3. QED
      BY <3>1, <3>2
  <2>2. QED
    BY <2>1 DEF HandlerInv
<1>9. QED
  BY <1>4, <1>5, <1>6, <1>7, <1>8

(* A handler is answered ok by the cloud: what is left to show is what the  *)
(* call may rely on.                                                        *)
LEMMA OkStep ==
    ASSUME TypeOK, HostsInv, Mono, command' = command, NEW rq \in Requests,
           NEW payload \in Answers, ReplyOk(rq, payload), \A h \in Hosts : HostOK(h)',
           Awaited(rq) /\ Succeeds(rq[1], payload) =>
             /\ rq[1] \in Creates => CreateOK(rq[1])'
             /\ rq[1] \in Deletes =>
                  target[rq[1]] \in Hosts /\ rq[1] \in deleters'[target[rq[1]]]
    PROVE  HostsInv'
<1> DEFINE c == rq[1]
<1>1. c \in Calls /\ CallInv /\ DeleteInv
  BY DEF Requests, HostsInv
<1>2. at' = [at EXCEPT ![rq] = "none"]
  BY OkReplyEffect
<1>3. CASE ~Awaited(rq) /\ UNCHANGED clientVars
  <2>1. \A e \in Calls : Same(e) /\ Settles(e)
    BY <1>3 DEF Same, Settles, clientVars
  <2>2. CallInv' /\ DeleteInv' /\ CreateInv'
    BY <1>1, <2>1, CallKept, DeleteKept, CreateKept DEF Calls, CreateInv
  <2>3. ASSUME NEW other \in Requests PROVE HandlerOK(other)'
    <3>1. CASE other = rq
      BY <1>2, <3>1 DEF HandlerOK, TypeOK
    <3>2. CASE other # rq
      <4>1. at'[other] = at[other] /\ Same(other[1])
        BY <1>2, <2>1, <3>2 DEF TypeOK, Requests
      <4>2. QED
        BY <4>1, HandlerKept
    <3>3. QED
      BY <3>1, <3>2
  <2>4. QED
    BY <2>2, <2>3 DEF HostsInv, HandlerInv, HostInv
<1>4. CASE Awaited(rq) /\ Succeeds(c, payload)
  <2>1. /\ pc[c] = "await" /\ pc'[c] \in {"send", "done"} /\ \A e \in Calls \ {c} : Same(e)
    BY <1>4 DEF Succeeds, OthersSame, Awaited
  <2>2. CallInv'
    <3>1. /\ path'[c] \in {"insert", "wait"} => c \in Creates
          /\ path'[c] = "delete" => c \in Deletes
          /\ path'[c] # "none" <=> pc'[c] \in {"send", "await"}
          /\ answer'[c] = "none" <=> pc'[c] # "done"
      BY <1>1, <1>4, <2>1 DEF CallInv, Succeeds
    <3>2. QED
      BY <1>1, <2>1, <3>1 DEF CallInv, Same
  <2>3. CreateInv'
    BY <1>1, <1>4, <2>1, CreateKept DEF CreateInv, Calls
  <2>4. DeleteInv'
    <3>1. ASSUME NEW d \in Deletes
          PROVE  /\ answer'[d] = "ok" => target'[d] \in Hosts /\ d \in deleters'[target'[d]]
                 /\ command \in {"ok", "error"} => pc'[d] = "done"
                 /\ command = "ok" => answer'[d] = "ok"
                 /\ pc'[d] # "idle" => target'[d] \in Hosts
      <4>1. d \in Calls
        BY DEF Calls
      <4>2. CASE d = c
        <5>1. target'[c] = target[c] /\ target[c] \in Hosts
          BY <1>1, <2>1, <4>2 DEF Mono, DeleteInv
        <5>2. command \notin {"ok", "error"}
          BY <1>1, <2>1, <4>2 DEF DeleteInv
        <5>3. QED
          BY <1>4, <4>2, <5>1, <5>2
      <4>3. CASE d # c
        <5>1. Same(d)
          BY <2>1, <4>1, <4>3
        <5>2. answer[d] = "ok" => pc[d] = "done"
          BY <1>1, <4>1 DEF CallInv
        <5>3. answer[d] = "ok" => target'[d] = target[d]
          BY <4>1, <5>2 DEF Mono
        <5>4. pc[d] # "idle" => target'[d] = target[d]
          BY <4>1 DEF Mono
        <5>5. QED
          BY <1>1, <5>1, <5>3, <5>4 DEF DeleteInv, Same, Mono
      <4>4. QED
        BY <4>2, <4>3
    <3>2. QED
      BY <3>1 DEF DeleteInv
  <2>5. ASSUME NEW other \in Requests PROVE HandlerOK(other)'
    <3>1. CASE other = rq
      BY <1>2, <3>1 DEF HandlerOK, TypeOK
    <3>2. CASE other # rq
      <4>1. at'[other] = at[other] /\ other[1] \in Calls
        BY <1>2, <3>2 DEF TypeOK, Requests
      <4>2. ASSUME at[other] \in {"wait", "get"} PROVE Same(other[1])
        <5>1. Awaited(other)
          BY <4>2 DEF HostsInv, HandlerInv, HandlerOK
        <5>2. other[1] # c
          BY <1>4, <3>2, <5>1, AwaitedOnce
        <5>3. QED
          BY <2>1, <4>1, <5>2
      <4>3. Awaited(other)' => Same(other[1])
        BY <2>1, <4>1 DEF Awaited
      <4>4. QED
        BY <4>1, <4>2, <4>3, HandlerKept
    <3>3. QED
      BY <3>1, <3>2
  <2>6. QED
    BY <2>2, <2>3, <2>4, <2>5 DEF HostsInv, HandlerInv, HostInv
<1>5. QED
  BY <1>3, <1>4, OkReplyEffect

(* A handler goes on to its second cloud call. *)
LEMMA AtStep ==
    ASSUME TypeOK, HostsInv, UNCHANGED <<clientVars, callVars, cloudVars>>,
           NEW rq \in Requests, NEW next, at' = [at EXCEPT ![rq] = next], HandlerOK(rq)'
    PROVE  HostsInv'
<1> USE DEF HostsInv
<1>1. \A e \in Calls : Same(e) /\ Settles(e)
  BY DEF Same, Settles, clientVars
<1>2. Mono
  BY DEF Mono, clientVars, callVars, cloudVars
<1>3. CallInv' /\ DeleteInv' /\ CreateInv'
  BY <1>1, <1>2, CallKept, DeleteKept, CreateKept DEF Calls, CreateInv, callVars
<1>4. HostInv'
  BY <1>2, HostKept DEF HostInv, cloudVars
<1>5. ASSUME NEW other \in Requests, other # rq PROVE HandlerOK(other)'
  <2>1. at'[other] = at[other] /\ Same(other[1])
    BY <1>1, <1>5 DEF TypeOK, Requests
  <2>2. QED
    BY <1>2, <2>1, HandlerKept
<1>6. QED
  BY <1>3, <1>4, <1>5 DEF HandlerInv

(* Whatever a handler answers, its call has begun before and after. *)
LEMMA ReplyBegun ==
    ASSUME TypeOK, NEW rq \in Requests, NEW payload \in Answers,
           ReplyOk(rq, payload) \/ ReplyError(rq) \/ ReplyBad(rq)
    PROVE  \A c \in Calls : pc[c] # "idle" => pc'[c] # "idle"
<1>1. rq[1] \in Calls
  BY DEF Requests
<1>2. CASE ReplyOk(rq, payload)
  BY <1>1, <1>2, OkReplyEffect DEF Succeeds, OthersSame, Same, clientVars
<1>3. CASE ReplyError(rq) \/ ReplyBad(rq)
  BY <1>1, <1>3, ErrorReplyEffect DEF Errs, OthersSame, Same, clientVars
<1>4. QED
  BY <1>2, <1>3

LEMMA InsertStep ==
    ASSUME TypeOK, HostsInv, NEW rq \in Requests, Insert(rq)
    PROVE  HostsInv'
<1> USE DEF HostsInv
<1> DEFINE c == rq[1]
<1>1. c \in Calls /\ c \in Creates /\ pc[c] # "idle" /\ at[rq] = "insert"
  BY DEF Insert, Requests, HandlerInv, HandlerOK
<1>2. UNCHANGED <<user, target, command, deleters>>
  BY DEF Insert, callVars
<1>3. None \in Answers
  BY DEF Answers
<1>4. CASE ReplyError(rq) /\ UNCHANGED <<status, maker, inserted>>
  <2>1. \A e \in Calls : pc[e] # "idle" => pc'[e] # "idle"
    BY <1>3, <1>4, ReplyBegun
  <2>2. Mono
    BY <1>2, <1>4, <2>1 DEF Mono
  <2>3. \A h \in Hosts : HostOK(h)'
    BY <1>2, <1>4, <2>2, HostKept
  <2>4. QED
    BY <1>2, <1>4, <2>2, <2>3, ErrorStep
<1>5. ASSUME NEW h \in Unused,
             /\ status' = [status EXCEPT ![h] = "staging"]
             /\ maker' = [maker EXCEPT ![h] = c]
             /\ inserted' = [inserted EXCEPT ![h] = "running"]
             /\ ReplyOk(rq, h) \/ ReplyError(rq)
      PROVE  HostsInv'
  <2>1. h \in Hosts /\ status[h] = "unused" /\ h \in Answers
    BY DEF Unused, Answers
  <2>2. inserted[h] = "none" /\ deleters[h] = {}
    BY <2>1 DEF HostInv, HostOK
  <2>3. \A e \in Calls : pc[e] # "idle" => pc'[e] # "idle"
    BY <1>3, <1>5, <2>1, ReplyBegun
  <2>4. status'[h] = "staging" /\ maker'[h] = c /\ inserted'[h] = "running"
    BY <1>5, <2>1 DEF TypeOK
  <2>5. \A g \in Hosts \ {h} :
          status'[g] = status[g] /\ maker'[g] = maker[g] /\ inserted'[g] = inserted[g]
    BY <1>5, <2>1 DEF TypeOK
  <2>6. Mono
    BY <1>2, <2>1, <2>2, <2>3, <2>4, <2>5 DEF Mono
  <2>7. HostOK(h)'
    BY <1>1, <1>2, <2>2, <2>3, <2>4 DEF HostOK
  <2>8. \A g \in Hosts : HostOK(g)'
    BY <1>2, <2>5, <2>6, <2>7, HostKept
  <2>9. CASE ReplyError(rq)
    BY <1>2, <2>6, <2>8, <2>9, ErrorStep
  <2>10. CASE ReplyOk(rq, h)
    <3>1. ASSUME Awaited(rq), Succeeds(c, h) PROVE CreateOK(c)'
      <4>1. path[c] = "insert"
        BY <1>1, <3>1 DEF HandlerInv, HandlerOK
      <4>2. path'[c] = "wait" /\ op'[c] = h /\ answer'[c] = answer[c]
        BY <3>1, <4>1 DEF Succeeds
      <4>3. answer[c] # "ok"
        BY <1>1, <3>1 DEF Awaited, CallInv
      <4>4. QED
        BY <2>1, <2>4, <4>2, <4>3 DEF CreateOK
    <3>2. c \notin Deletes
      BY <1>1, HostLifecycleAssumption DEF HostLifecycleAssumption
    <3>3. QED
      BY <1>2, <2>1, <2>6, <2>8, <2>10, <3>1, <3>2, OkStep
  <2>11. QED
    BY <1>5, <2>9, <2>10
<1>6. QED
  BY <1>4, <1>5 DEF Insert

LEMMA WaitOperationStep ==
    ASSUME TypeOK, HostsInv, NEW rq \in Requests, WaitOperation(rq)
    PROVE  HostsInv'
<1> USE DEF HostsInv
<1>1. UNCHANGED <<callVars, cloudVars>> /\ at[rq] = "wait"
  BY DEF WaitOperation
<1>2. CASE ReplyError(rq)
  <2>1. \A e \in Calls : pc[e] # "idle" => pc'[e] # "idle"
    BY <1>2, ReplyBegun DEF Answers
  <2>2. Mono
    BY <1>1, <2>1 DEF Mono, callVars, cloudVars
  <2>3. \A h \in Hosts : HostOK(h)'
    BY <1>1, <2>2, HostKept DEF cloudVars
  <2>4. QED
    BY <1>1, <1>2, <2>2, <2>3, ErrorStep DEF callVars
<1>3. CASE /\ inserted[op[rq[1]]] = "done" /\ at' = [at EXCEPT ![rq] = "get"]
           /\ UNCHANGED clientVars
  <2>1. HandlerOK(rq) /\ at'[rq] = "get"
    BY <1>3 DEF HandlerInv, TypeOK
  <2>2. HandlerOK(rq)'
    BY <1>1, <1>3, <2>1 DEF HandlerOK, Awaited, clientVars, cloudVars
  <2>3. QED
    BY <1>1, <1>3, <2>2, AtStep
<1>4. QED
  BY <1>2, <1>3 DEF WaitOperation

LEMMA GetResultStep ==
    ASSUME TypeOK, HostsInv, NEW rq \in Requests, GetResult(rq)
    PROVE  HostsInv'
<1> USE DEF HostsInv
<1> DEFINE c == rq[1]
<1>1. UNCHANGED <<callVars, cloudVars>> /\ at[rq] = "get"
  BY DEF GetResult
<1>2. c \in Calls /\ c \in Creates /\ Awaited(rq) /\ path[c] = "wait"
      /\ inserted[op[c]] = "done"
  BY <1>1 DEF HandlerInv, HandlerOK, Requests
<1>3. op[c] \in Hosts /\ maker[op[c]] = c /\ op[c] \in Answers
  BY <1>2 DEF CreateInv, CreateOK, Answers
<1>4. \A e \in Calls : pc[e] # "idle" => pc'[e] # "idle"
  BY <1>3, ReplyBegun DEF GetResult
<1>5. Mono
  BY <1>1, <1>4 DEF Mono, callVars, cloudVars
<1>6. \A h \in Hosts : HostOK(h)'
  BY <1>1, <1>5, HostKept DEF cloudVars
<1>7. CASE ReplyBad(rq)
  BY <1>1, <1>5, <1>6, <1>7, ErrorStep DEF callVars
<1>8. CASE ReplyOk(rq, op[c])
  <2>1. ASSUME Succeeds(c, op[c]) PROVE CreateOK(c)'
    BY <1>1, <1>2, <1>3, <2>1 DEF Succeeds, CreateOK, cloudVars
  <2>2. c \notin Deletes
    BY <1>2, HostLifecycleAssumption DEF HostLifecycleAssumption
  <2>3. QED
    BY <1>1, <1>3, <1>5, <1>6, <1>8, <2>1, <2>2, OkStep DEF callVars
<1>9. QED
  BY <1>7, <1>8 DEF GetResult

LEMMA ListOwnedStep ==
    ASSUME TypeOK, HostsInv, NEW rq \in Requests, ListOwned(rq)
    PROVE  HostsInv'
<1> USE DEF HostsInv
<1>1. UNCHANGED <<callVars, cloudVars>> /\ at[rq] = "list"
  BY DEF ListOwned
<1>2. CASE ReplyError(rq) \/ ReplyBad(rq)
  <2>1. \A e \in Calls : pc[e] # "idle" => pc'[e] # "idle"
    BY <1>2, ReplyBegun DEF Answers
  <2>2. Mono
    BY <1>1, <2>1 DEF Mono, callVars, cloudVars
  <2>3. \A h \in Hosts : HostOK(h)'
    BY <1>1, <2>2, HostKept DEF cloudVars
  <2>4. QED
    BY <1>1, <1>2, <2>2, <2>3, ErrorStep DEF callVars
<1>3. CASE /\ Exists(target[rq[1]]) /\ Found(target[rq[1]], user[rq[1]])
           /\ at' = [at EXCEPT ![rq] = "delete"] /\ UNCHANGED clientVars
  <2>1. HandlerOK(rq) /\ at'[rq] = "delete" /\ rq[1] \in Calls
    BY <1>3 DEF HandlerInv, TypeOK, Requests
  <2>2. target[rq[1]] \in Hosts
    <3>1. rq[1] \in Deletes /\ pc[rq[1]] # "idle"
      BY <1>1, <2>1 DEF HandlerOK
    <3>2. QED
      BY <3>1 DEF DeleteInv
  <2>3. HandlerOK(rq)'
    BY <1>1, <1>3, <2>1, <2>2 DEF HandlerOK, Exists, Found, Owner, callVars, clientVars,
                      cloudVars
  <2>4. QED
    BY <1>1, <1>3, <2>3, AtStep
<1>4. QED
  BY <1>2, <1>3 DEF ListOwned

LEMMA DeleteStep ==
    ASSUME TypeOK, HostsInv, NEW rq \in Requests, Delete(rq)
    PROVE  HostsInv'
<1> USE DEF HostsInv
<1> DEFINE c == rq[1]
           h == target[c]
<1>1. c \in Calls /\ c \in Deletes /\ pc[c] # "idle" /\ h \in Hosts /\ Found(h, user[c])
  BY DEF Delete, Requests, HandlerInv, HandlerOK
<1>2. UNCHANGED <<user, target, command, maker, inserted>>
  BY DEF Delete, callVars
<1>3. None \in Answers
  BY DEF Answers
<1>4. \A e \in Calls : pc[e] # "idle" => pc'[e] # "idle"
  BY <1>3, ReplyBegun DEF Delete
<1>5. CASE ReplyError(rq) /\ UNCHANGED <<status, deleters>>
  <2>1. Mono
    BY <1>2, <1>4, <1>5 DEF Mono
  <2>2. \A g \in Hosts : HostOK(g)'
    BY <1>2, <1>5, <2>1, HostKept
  <2>3. QED
    BY <1>2, <1>5, <2>1, <2>2, ErrorStep
<1>6. CASE /\ status[h] \in {"staging", "running"}
           /\ status' = [status EXCEPT ![h] = "stopping"]
           /\ deleters' = [deleters EXCEPT ![h] = @ \cup {c}]
           /\ ReplyOk(rq, None) \/ ReplyError(rq)
  <2>1. HostOK(h) /\ deleters[h] = {}
    BY <1>1, <1>6 DEF HostInv, HostOK
  <2>2. status'[h] = "stopping" /\ deleters'[h] = {c}
    BY <1>1, <1>6, <2>1 DEF TypeOK
  <2>3. \A g \in Hosts \ {h} : status'[g] = status[g] /\ deleters'[g] = deleters[g]
    BY <1>1, <1>6 DEF TypeOK
  <2>4. Mono
    BY <1>2, <1>4, <2>1, <2>2, <2>3 DEF Mono
  <2>5. Found(h, user[c])' /\ maker[h] \in Creates /\ pc'[maker[h]] # "idle"
    BY <1>1, <1>2, <1>4, <1>6, <2>1 DEF Found, Owner, HostOK, Calls
  <2>6. HostOK(h)'
    BY <1>1, <1>2, <1>4, <2>2, <2>5 DEF HostOK
  <2>7. \A g \in Hosts : HostOK(g)'
    BY <1>2, <2>3, <2>4, <2>6, HostKept
  <2>8. CASE ReplyError(rq)
    BY <1>2, <2>4, <2>7, <2>8, ErrorStep
  <2>9. CASE ReplyOk(rq, None)
    <3>1. c \notin Creates
      BY <1>1, HostLifecycleAssumption DEF HostLifecycleAssumption
    <3>2. c \in deleters'[h]
      BY <2>2
    <3>3. QED
      BY <1>1, <1>2, <1>3, <2>4, <2>7, <2>9, <3>1, <3>2, OkStep
  <2>10. QED
    BY <1>6, <2>8, <2>9
<1>7. QED
  BY <1>5, <1>6 DEF Delete

LEMMA CloudStep ==
    ASSUME TypeOK, HostsInv, NEW h \in Hosts, InsertEnds(h) \/ DeleteEnds(h)
    PROVE  HostsInv'
<1> USE DEF HostsInv
<1>1. UNCHANGED <<clientVars, callVars, at, maker, deleters>>
  BY DEF InsertEnds, DeleteEnds
<1>2. HostOK(h)
  BY DEF HostInv
<1>3. \A g \in Hosts \ {h} : status'[g] = status[g] /\ inserted'[g] = inserted[g]
  BY DEF InsertEnds, DeleteEnds, TypeOK
<1>4. /\ status[h] # "unused" /\ status'[h] # "unused"
      /\ inserted[h] = "done" => inserted'[h] = "done"
      /\ inserted'[h] # "running" \/ inserted'[h] = inserted[h]
  BY <1>2 DEF InsertEnds, DeleteEnds, TypeOK, HostOK
<1>5. Mono
  BY <1>1, <1>3, <1>4 DEF Mono, clientVars, callVars
<1>6. /\ status'[h] # "staging"
      /\ inserted'[h] = "running" => deleters[h] # {}
      /\ inserted'[h] = "done" => status'[h] = "running" \/ deleters[h] # {}
      /\ deleters[h] # {} => status'[h] \in {"stopping", "gone"}
  BY <1>2 DEF InsertEnds, DeleteEnds, TypeOK, HostOK
<1>7. HostOK(h)'
  BY <1>1, <1>2, <1>4, <1>6 DEF HostOK, Found, Owner, clientVars, callVars
<1>8. HostInv'
  BY <1>1, <1>3, <1>5, <1>7, HostKept DEF HostInv
<1>9. \A c \in Calls : Same(c) /\ Settles(c)
  BY <1>1 DEF Same, Settles, clientVars
<1>10. CallInv' /\ DeleteInv' /\ CreateInv'
  BY <1>1, <1>5, <1>9, CallKept, DeleteKept, CreateKept DEF Calls, CreateInv, callVars
<1>11. HandlerInv'
  BY <1>1, <1>5, <1>9, HandlerKept DEF HandlerInv, Requests
<1>12. QED
  BY <1>8, <1>10, <1>11

LEMMA HostsInductive ==
    ASSUME TypeOK, HostsInv, [Next]_vars
    PROVE  HostsInv'
<1>1. CASE UNCHANGED vars
  <2>1. UNCHANGED <<clientVars, callVars, at, cloudVars>>
    BY <1>1 DEF vars
  <2>2. CallInv' /\ DeleteInv'
    BY <2>1 DEF HostsInv, CallInv, DeleteInv, clientVars, callVars, cloudVars
  <2>3. HandlerInv' /\ HostInv' /\ CreateInv'
    BY <2>1 DEF HostsInv, HandlerInv, HandlerOK, HostInv, HostOK, CreateInv, CreateOK, Found,
                Owner, Awaited, clientVars, callVars, cloudVars
  <2>4. QED
    BY <2>2, <2>3 DEF HostsInv
<1>2. QED
  BY <1>1, CreateHostStep, DeleteHostsStep, ReturnStep, SendStep, UnansweredStep, InsertStep,
     WaitOperationStep, GetResultStep, ListOwnedStep, DeleteStep, CloudStep DEF Next, Handle

(* The inductive invariant, which every property below follows from. *)
THEOREM HostsInvariant == Spec => []HostsInv
<1>1. Init => HostsInv
  <2> SUFFICES ASSUME Init PROVE HostsInv
    OBVIOUS
  <2>1. CallInv /\ DeleteInv
    BY DEF Init, CallInv, DeleteInv, Calls
  <2>2. HandlerInv
    BY DEF Init, HandlerInv, HandlerOK
  <2>3. HostInv
    BY DEF Init, HostInv, HostOK
  <2>4. CreateInv
    BY DEF Init, CreateInv, CreateOK, Calls
  <2>5. QED
    BY <2>1, <2>2, <2>3, <2>4 DEF HostsInv
<1>2. TypeOK /\ HostsInv /\ [Next]_vars => HostsInv'
  BY HostsInductive
<1>3. QED
  BY <1>1, <1>2, Typing, PTL DEF Spec

(* A call that has begun has a user. *)
UserInv == \A c \in Calls : pc[c] # "idle" => user[c] \in Users

LEMMA IdleStays ==
    ASSUME TypeOK, NEW rq \in Requests,
           ReplyError(rq) \/ ReplyBad(rq) \/ \E payload : ReplyOk(rq, payload)
    PROVE  \A c \in Calls : pc[c] = "idle" => pc'[c] = "idle"
BY DEF TypeOK, Requests, ReplyError, ReplyBad, ReplyOk, Reply, Awaited, Fail, Retry, Succeed,
       Conclude, clientVars

LEMMA UsersInvariant == Spec => []UserInv
<1>1. Init => UserInv
  BY DEF Init, UserInv
<1>2. ASSUME TypeOK, UserInv, [Next]_vars PROVE UserInv'
  <2> USE DEF UserInv, TypeOK
  <2>1. ASSUME NEW c \in Creates, CreateHost(c) PROVE UserInv'
    BY <1>2, <2>1 DEF CreateHost, Calls
  <2>2. CASE DeleteHosts
    BY <1>2, <2>2 DEF DeleteHosts
  <2>3. ASSUME UNCHANGED user, \A c \in Calls : pc[c] = "idle" => pc'[c] = "idle"
        PROVE  UserInv'
    BY <1>2, <2>3
  <2>4. ASSUME NEW c \in Calls, Send(c) \/ Unanswered(c) PROVE UserInv'
    BY <1>2, <2>3, <2>4 DEF Send, Unanswered, Fail, Retry, Conclude, callVars
  <2>5. ASSUME NEW rq \in Requests, Handle(rq) PROVE UserInv'
    <3>1. UNCHANGED user
      BY <2>5 DEF Handle, Insert, WaitOperation, GetResult, ListOwned, Delete, callVars
    <3>2. CASE Insert(rq)
      <4>1. ReplyError(rq) \/ \E h : ReplyOk(rq, h)
        BY <3>2 DEF Insert
      <4>2. QED
        BY <1>2, <2>3, <3>1, <4>1, IdleStays
    <3>3. CASE WaitOperation(rq)
      <4>1. ReplyError(rq) \/ UNCHANGED clientVars
        BY <3>3 DEF WaitOperation
      <4>2. QED
        BY <1>2, <2>3, <3>1, <4>1, IdleStays DEF clientVars
    <3>4. CASE GetResult(rq)
      <4>1. ReplyBad(rq) \/ ReplyOk(rq, op[rq[1]])
        BY <3>4 DEF GetResult
      <4>2. QED
        BY <1>2, <2>3, <3>1, <4>1, IdleStays
    <3>5. CASE ListOwned(rq)
      <4>1. \/ ReplyError(rq)
            \/ ReplyBad(rq)
            \/ UNCHANGED clientVars
        BY <3>5 DEF ListOwned
      <4>2. QED
        BY <1>2, <2>3, <3>1, <4>1, IdleStays DEF clientVars
    <3>6. CASE Delete(rq)
      <4>1. ReplyError(rq) \/ ReplyOk(rq, None)
        BY <3>6 DEF Delete
      <4>2. QED
        BY <1>2, <2>3, <3>1, <4>1, IdleStays
    <3>7. QED
      BY <2>5, <3>2, <3>3, <3>4, <3>5, <3>6 DEF Handle
  <2>6. CASE Return \/ (\E h \in Hosts : InsertEnds(h) \/ DeleteEnds(h)) \/ UNCHANGED vars
    BY <1>2, <2>3, <2>6 DEF Return, InsertEnds, DeleteEnds, vars, clientVars, callVars
  <2>7. QED
    BY <1>2, <2>1, <2>2, <2>4, <2>5, <2>6 DEF Next
<1>3. QED
  BY <1>1, <1>2, Typing, PTL DEF Spec

(* However often its requests were repeated, and whoever answered them,     *)
(* CreateHost returns a host made for that call, and the user's list has it *)
(* unless a delete of it was accepted.                                      *)
THEOREM CreatedIsOwnAndListed == Spec => []CreatedIsListed
<1>1. ASSUME TypeOK, HostsInv, UserInv, NEW c \in Creates, answer[c] = "ok"
      PROVE  /\ maker[host[c]] = c
             /\ host[c] \in Listed(user[c]) \/ deleters[host[c]] # {}
  <2>1. host[c] \in Hosts /\ maker[host[c]] = c /\ inserted[host[c]] = "done"
    BY <1>1 DEF HostsInv, CreateInv, CreateOK
  <2>2. status[host[c]] = "running" \/ deleters[host[c]] # {}
    BY <1>1, <2>1 DEF HostsInv, HostInv, HostOK
  <2>3. user[c] \in Users
    BY <1>1 DEF HostsInv, CallInv, UserInv, Calls
  <2>4. Found(host[c], user[c])
    BY <2>1, <2>3, HostLifecycleAssumption DEF HostLifecycleAssumption, Found, Owner
  <2>5. QED
    BY <2>1, <2>2, <2>4 DEF Listed
<1>2. TypeOK /\ HostsInv /\ UserInv => CreatedIsListed
  BY <1>1 DEF CreatedIsListed
<1>3. QED
  BY <1>2, Typing, HostsInvariant, UsersInvariant, PTL

(* No host is deleted on behalf of a user whose owner filter does not find  *)
(* it, although DeleteHost lists in one cloud call and deletes in another.  *)
(* When the DeleteHosts command returns no error, each of its goroutines    *)
(* had its own delete accepted, and the host is going or gone.              *)
THEOREM DeletesAreObeyed == Spec => []DeletesObeyed
<1>1. ASSUME HostsInv, command = "ok", NEW d \in Deletes
      PROVE  d \in deleters[target[d]] /\ status[target[d]] \in {"stopping", "gone"}
  <2>1. target[d] \in Hosts /\ d \in deleters[target[d]]
    BY <1>1 DEF HostsInv, DeleteInv
  <2>2. QED
    BY <1>1, <2>1 DEF HostsInv, HostInv, HostOK
<1>2. HostsInv => DeletesAccepted
  BY <1>1 DEF DeletesAccepted
<1>3. HostsInv => OwnerDeletes
  BY DEF HostsInv, HostInv, HostOK, OwnerDeletes
<1>4. QED
  BY <1>2, <1>3, HostsInvariant, PTL DEF DeletesObeyed

(* Where no username is part of another, hosts are deleted by their owners. *)
THEOREM OwnersDelete ==
    ASSUME \A u \in Users : Finds[u] = {u}
    PROVE  Spec => [](\A h \in Hosts : \A d \in deleters[h] : user[d] = Owner(h))
<1>1. ASSUME HostsInv, UserInv, NEW h \in Hosts, NEW d \in deleters[h]
      PROVE  user[d] = Owner(h)
  <2>1. Found(h, user[d]) /\ d \in Calls /\ pc[d] # "idle"
    BY <1>1 DEF HostsInv, HostInv, HostOK, Calls
  <2>2. user[d] \in Users
    BY <1>1, <2>1 DEF UserInv
  <2>3. QED
    BY <2>1, <2>2 DEF Found
<1>2. HostsInv /\ UserInv => \A h \in Hosts : \A d \in deleters[h] : user[d] = Owner(h)
  BY <1>1
<1>3. QED
  BY <1>2, HostsInvariant, UsersInvariant, PTL

=============================================================================
