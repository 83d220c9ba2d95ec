------------------------------ MODULE Signaling ------------------------------
(***************************************************************************)
(* The signaling machinery behind one WebRTC connection of the CLI.        *)
(*                                                                         *)
(* client.go starts two goroutines per connection: "poll" (webRTCPoll)     *)
(* fetches the device's messages over HTTP and hands them to RecvCh, "fwd" *)
(* (webRTCForward) takes messages from SendCh and posts them.              *)
(* webrtcclient/client.go puts the Controller between the two channels and *)
(* the pion peer connection: "main" is the caller of NewConnection, "recv" *)
(* runs recvLoop, "ice" is pion's candidate callback and every state       *)
(* change of the peer connection runs a callback goroutine of its own.     *)
(*                                                                         *)
(* All channels are unbuffered, so a send and its receive are one step.    *)
(* The host orchestrator, the device and pion are the environment.         *)
(***************************************************************************)
EXTENDS Integers, Sequences

CONSTANTS
    MaxErrors,   \* maxConsecutiveErrors, client.go:244
    DeviceMsgs,  \* the kinds of message the device may send
    MaxLog,      \* bound: messages the device sends
    MaxIce       \* bound: local ICE candidates pion reports

(***************************************************************************)
(* "offer" and "candidate" are well-formed signaling messages; "bad" is    *)
(* any message whose handler returns an error (an error report, an unknown *)
(* type, an answer nobody asked for, a description pion rejects); "noise"  *)
(* is an entry whose message_type is not device_msg.                       *)
(***************************************************************************)
Kinds == {"offer", "candidate", "bad", "noise"}

ASSUME SignalingAssumption ==
    /\ MaxErrors \in Nat \ {0}
    /\ DeviceMsgs \subseteq Kinds
    /\ MaxLog \in Nat
    /\ MaxIce \in Nat

Channels   == {"SendCh", "RecvCh", "stopPollCh"}
Callbacks  == {"connected", "failed", "closed"}
Senders    == {"main", "recv", "ice"}
Goroutines == Senders \cup {"poll", "fwd"} \cup Callbacks
NoOne      == "none"

VARIABLES
    pc,          \* where each goroutine is
    mtx,         \* Controller.sendMtx: its holder, or NoOne
    sendClosed,  \* Controller.sendChClosed
    closes,      \* how often close() was called on each channel
    next,        \* poll: index of the next fetched message to deliver
    fetched,     \* poll: index of the last fetched message
    start,       \* poll: the start parameter of the next request
    pollErrs,    \* poll: errCount
    posting,     \* fwd: whose message is being posted, or NoOne
    postErrs,    \* fwd: i
    handled,     \* the log indices recvLoop has received, in order
    once,        \* NewConnection's sync.Once: unused, running or spent
    result,      \* what NewConnection returned
    iceLeft,     \* candidates pion may still report
    log,         \* the device's messages, as the host orchestrator keeps them
    requested,   \* the device got the request-offer message
    negotiated,  \* remote and local description are set
    answered,    \* the device got the answer
    peer         \* state of the peer connection

pollVars == <<next, fetched, start, pollErrs>>
fwdVars  == <<posting, postErrs>>
envVars  == <<log, requested, negotiated, answered, peer>>
vars     == <<pc, mtx, sendClosed, closes, pollVars, fwdVars, handled,
              once, result, iceLeft, envVars>>

Go(g, to) == pc' = [pc EXCEPT ![g] = to]
Close(ch) == closes' = [closes EXCEPT ![ch] = @ + 1]
Closed(ch) == closes[ch] > 0

-----------------------------------------------------------------------------
(* Controller: webrtcclient/client.go *)

(* Where a sender continues when sendSigMsg returns. *)
AfterSend == [main |-> "wait", recv |-> "recv", ice |-> "idle"]

(* sendSigMsg, up to the send: nothing is sent once the channel is closed. *)
AcquireSend(g) ==
    /\ pc[g] = "lock"
    /\ mtx = NoOne
    /\ \/ /\ ~sendClosed
          /\ mtx' = g
          /\ Go(g, "send")
       \/ /\ sendClosed
          /\ Go(g, AfterSend[g])
          /\ UNCHANGED mtx
    /\ UNCHANGED <<sendClosed, closes, pollVars, fwdVars, handled, once,
                   result, iceLeft, envVars>>

(* The send on SendCh meets fwd's receive; the deferred unlock follows. *)
SendMsg(g) ==
    /\ pc[g] = "send"
    /\ pc["fwd"] = "recv"
    /\ ~Closed("SendCh")
    /\ pc' = [pc EXCEPT ![g] = AfterSend[g], !["fwd"] = "post"]
    /\ mtx' = NoOne
    /\ posting' = g
    /\ UNCHANGED <<sendClosed, closes, pollVars, postErrs, handled, once, result,
                   iceLeft, envVars>>

(* Mutant of CloseSendCh: the flag is not tested before the close. *)
CloseSendChUntested(g) ==
    /\ pc[g] = "close"
    /\ mtx = NoOne
    /\ sendClosed' = TRUE
    /\ Close("SendCh")
    /\ Go(g, "done")
    /\ UNCHANGED <<mtx, pollVars, fwdVars, handled, once, result, iceLeft,
                   envVars>>

(* closeSendCh: the close happens at most once, under the mutex. *)
CloseSendCh(g) ==
    /\ pc[g] = "close"
    /\ mtx = NoOne
    /\ sendClosed' = TRUE
    /\ IF sendClosed THEN UNCHANGED closes ELSE Close("SendCh")
    /\ Go(g, "done")
    /\ UNCHANGED <<mtx, pollVars, fwdVars, handled, once, result, iceLeft,
                   envVars>>

(* onOffer: the descriptions are set and the answer is to be sent.  pion    *)
(* takes no description once the peer connection is closed.                *)
OnOffer ==
    /\ peer # "closed"
    /\ negotiated' = TRUE
    /\ Go("recv", "lock")

(* onICECandidate: pion takes a candidate once it has a remote description, *)
(* and may refuse it when the peer connection is closed.                   *)
OnIceCandidate ==
    /\ negotiated
    /\ Go("recv", "recv")
    /\ UNCHANGED negotiated

(* An error ends the goroutine once the observer was told; SendCh is left   *)
(* open.                                                                   *)
OnRecvError ==
    /\ Go("recv", "done")
    /\ UNCHANGED negotiated

(* recvLoop handles the message it received last. *)
RecvHandle ==
    LET msg == log[handled[Len(handled)]] IN
    /\ pc["recv"] = "handle"
    /\ \/ msg = "offer" /\ OnOffer
       \/ msg = "candidate" /\ OnIceCandidate
       \/ msg = "bad" /\ OnRecvError
       \/ msg = "offer" /\ peer = "closed" /\ OnRecvError
       \/ msg = "candidate" /\ (~negotiated \/ peer = "closed") /\ OnRecvError
    /\ UNCHANGED <<mtx, sendClosed, closes, pollVars, fwdVars, handled, once,
                   result, iceLeft, log, requested, answered, peer>>

(* recvLoop finds RecvCh closed. *)
RecvClosed ==
    /\ pc["recv"] = "recv"
    /\ Closed("RecvCh")
    /\ Go("recv", "close")
    /\ UNCHANGED <<mtx, sendClosed, closes, pollVars, fwdVars, handled, once,
                   result, iceLeft, envVars>>

(* onComplete enters once.Do: the first caller runs the body, later ones   *)
(* wait until it has returned and skip it.                                 *)
AfterComplete(cb) == IF cb = "connected" THEN "done" ELSE "close"

(* Mutant of OnComplete: the channel is written without the sync.Once. *)
OnCompleteEachTime(cb) ==
    /\ pc[cb] = "once"
    /\ Go(cb, "complete")
    /\ UNCHANGED <<mtx, sendClosed, closes, pollVars, fwdVars, handled, once,
                   result, iceLeft, envVars>>

OnComplete(cb) ==
    /\ pc[cb] = "once"
    /\ \/ /\ once = "unused"
          /\ once' = "running"
          /\ Go(cb, "complete")
       \/ /\ once = "spent"
          /\ Go(cb, AfterComplete(cb))
          /\ UNCHANGED once
    /\ UNCHANGED <<mtx, sendClosed, closes, pollVars, fwdVars, handled,
                   result, iceLeft, envVars>>

(* The body of once.Do meets the only receive of NewConnection. *)
Return(cb) ==
    /\ pc[cb] = "complete"
    /\ pc["main"] = "wait"
    /\ result' = (IF cb = "connected" THEN "ok" ELSE "error")
    /\ once' = "spent"
    /\ pc' = [pc EXCEPT !["main"] = "returned", ![cb] = AfterComplete(cb)]
    /\ UNCHANGED <<mtx, sendClosed, closes, pollVars, fwdVars, handled,
                   iceLeft, envVars>>

-----------------------------------------------------------------------------
(* webRTCPoll: client/client.go *)

(* Mutant of PollFetch: start is advanced by the whole batch on arrival, in *)
(* addition to once per delivery.                                           *)
PollFetchCounting ==
    /\ pc["poll"] = "request"
    /\ pollErrs' = 0
    /\ start' = Len(log)
    /\ IF start < Len(log)
       THEN next' = start + 1 /\ fetched' = Len(log) /\ Go("poll", "deliver")
       ELSE Go("poll", "wait") /\ UNCHANGED <<next, fetched>>
    /\ UNCHANGED <<mtx, sendClosed, closes, fwdVars, handled, once, result,
                   iceLeft, envVars>>

(* A request answered: the messages from start on, in the log's order. *)
PollFetch ==
    /\ pc["poll"] = "request"
    /\ pollErrs' = 0
    /\ IF start < Len(log)
       THEN next' = start + 1 /\ fetched' = Len(log) /\ Go("poll", "deliver")
       ELSE Go("poll", "wait") /\ UNCHANGED <<next, fetched>>
    /\ UNCHANGED <<mtx, sendClosed, closes, fwdVars, start, handled, once,
                   result, iceLeft, envVars>>

(* Mutant of PollError: one error too many is tolerated. *)
PollErrorTooMany ==
    /\ pc["poll"] = "request"
    /\ pollErrs' = pollErrs + 1
    /\ IF pollErrs' > MaxErrors
       THEN Go("poll", "done") /\ Close("RecvCh")
       ELSE Go("poll", "wait") /\ UNCHANGED closes
    /\ UNCHANGED <<mtx, sendClosed, fwdVars, next, fetched, start, handled,
                   once, result, iceLeft, envVars>>

(* A request failed; after MaxErrors in a row RecvCh is closed. *)
PollError ==
    /\ pc["poll"] = "request"
    /\ pollErrs' = pollErrs + 1
    /\ IF pollErrs' >= MaxErrors
       THEN Go("poll", "done") /\ Close("RecvCh")
       ELSE Go("poll", "wait") /\ UNCHANGED closes
    /\ UNCHANGED <<mtx, sendClosed, fwdVars, next, fetched, start, handled,
                   once, result, iceLeft, envVars>>

(* The batch without the message at index next; an empty one is 0, 0. *)
More == next < fetched

DropMessage ==
    /\ next' = (IF More THEN next + 1 ELSE 0)
    /\ fetched' = (IF More THEN fetched ELSE 0)

AfterMessage == IF More THEN "deliver" ELSE "wait"

(* An entry of another message_type is dropped and not counted in start. *)
PollSkip ==
    /\ pc["poll"] = "deliver"
    /\ log[next] = "noise"
    /\ DropMessage
    /\ Go("poll", AfterMessage)
    /\ UNCHANGED <<mtx, sendClosed, closes, fwdVars, start, pollErrs,
                   handled, once, result, iceLeft, envVars>>

(* The send on sinkCh meets recvLoop's receive. *)
PollDeliver ==
    /\ pc["poll"] = "deliver"
    /\ log[next] # "noise"
    /\ pc["recv"] = "recv"
    /\ DropMessage
    /\ start' = start + 1
    /\ handled' = Append(handled, next)
    /\ pc' = [pc EXCEPT !["recv"] = "handle", !["poll"] = AfterMessage]
    /\ UNCHANGED <<mtx, sendClosed, closes, fwdVars, pollErrs, once,
                   result, iceLeft, envVars>>

(* The select between the stop channel and the timer. *)
PollStop ==
    /\ pc["poll"] = "wait"
    /\ Closed("stopPollCh")
    /\ Close("RecvCh")
    /\ Go("poll", "done")
    /\ UNCHANGED <<mtx, sendClosed, pollVars, fwdVars, handled, once, result,
                   iceLeft, envVars>>

PollTimer ==
    /\ pc["poll"] = "wait"
    /\ Go("poll", "request")
    /\ UNCHANGED <<mtx, sendClosed, closes, pollVars, fwdVars, handled, once,
                   result, iceLeft, envVars>>

-----------------------------------------------------------------------------
(* webRTCForward: client/client.go *)

(* The message in flight reaches the device.  A repeated request-offer or  *)
(* answer changes nothing.                                                 *)
Reaches ==
    /\ requested' = (requested \/ posting = "main")
    /\ answered' = (answered \/ posting = "recv")

FwdPost ==
    /\ pc["fwd"] = "post"
    /\ Reaches
    /\ posting' = NoOne
    /\ postErrs' = 0
    /\ Go("fwd", "recv")
    /\ UNCHANGED <<mtx, sendClosed, closes, pollVars, handled, once,
                   result, iceLeft, log, negotiated, peer>>

(* A post that fails may still have reached the device.  After MaxErrors   *)
(* attempts the goroutine gives up and nobody reads SendCh any more.       *)
FwdError ==
    /\ pc["fwd"] = "post"
    /\ Reaches \/ UNCHANGED <<requested, answered>>
    /\ postErrs' = postErrs + 1
    /\ IF postErrs' = MaxErrors
       THEN Go("fwd", "done") /\ Close("stopPollCh") /\ posting' = NoOne
       ELSE UNCHANGED <<pc, closes, posting>>
    /\ UNCHANGED <<mtx, sendClosed, pollVars, handled, once, result, iceLeft,
                   log, negotiated, peer>>

(* Mutant of FwdClosed: the goroutine ends without closing stopPollCh. *)
FwdClosedSilently ==
    /\ pc["fwd"] = "recv"
    /\ Closed("SendCh")
    /\ Go("fwd", "done")
    /\ UNCHANGED <<mtx, sendClosed, closes, pollVars, fwdVars, handled, once,
                   result, iceLeft, envVars>>

(* SendCh was closed. *)
FwdClosed ==
    /\ pc["fwd"] = "recv"
    /\ Closed("SendCh")
    /\ Close("stopPollCh")
    /\ Go("fwd", "done")
    /\ UNCHANGED <<mtx, sendClosed, pollVars, fwdVars, handled, once, result,
                   iceLeft, envVars>>

-----------------------------------------------------------------------------
(* The environment: the device, the host orchestrator and pion *)

(* The device speaks once it was asked for an offer. *)
DeviceSends ==
    /\ requested
    /\ Len(log) < MaxLog
    /\ \E kind \in DeviceMsgs : log' = Append(log, kind)
    /\ UNCHANGED <<pc, mtx, sendClosed, closes, pollVars, fwdVars, handled,
                   once, result, iceLeft, requested, negotiated, answered, peer>>

(* pion reports a candidate, gathered once the local description is set. *)
IceCandidate ==
    /\ pc["ice"] = "idle"
    /\ negotiated
    /\ iceLeft > 0
    /\ iceLeft' = iceLeft - 1
    /\ Go("ice", "lock")
    /\ UNCHANGED <<mtx, sendClosed, closes, pollVars, fwdVars, handled, once,
                   result, envVars>>

(* The peer connection changes state and pion starts the callback.  It can *)
(* connect once the device has the answer, fail once ICE runs, and close   *)
(* when the other side ends it or the caller uses Connection.Close.        *)
PeerBecomes(state) ==
    /\ peer' = state
    /\ pc[state] = "off"
    /\ Go(state, "once")
    /\ UNCHANGED <<mtx, sendClosed, closes, pollVars, fwdVars, handled, once,
                   result, iceLeft, log, requested, negotiated, answered>>

PeerConnects == peer = "new" /\ answered /\ PeerBecomes("connected")

PeerFails ==
    /\ \/ peer = "new" /\ negotiated
       \/ peer = "connected"
    /\ PeerBecomes("failed")

PeerCloses ==
    /\ \/ peer = "connected"
       \/ peer = "failed" /\ pc["main"] = "returned"
    /\ PeerBecomes("closed")

-----------------------------------------------------------------------------
Init ==
    /\ pc = [g \in Goroutines |->
                CASE g = "main" -> "lock"     \* connect sends request-offer
                  [] g \in {"recv", "fwd"} -> "recv"
                  [] g = "ice" -> "idle"
                  [] g = "poll" -> "request"
                  [] OTHER -> "off"]
    /\ mtx = NoOne
    /\ sendClosed = FALSE
    /\ closes = [ch \in Channels |-> 0]
    /\ next = 0 /\ fetched = 0 /\ start = 0 /\ pollErrs = 0
    /\ posting = NoOne /\ postErrs = 0
    /\ handled = << >>
    /\ once = "unused"
    /\ result = "none"
    /\ iceLeft = MaxIce
    /\ log = << >>
    /\ requested = FALSE
    /\ negotiated = FALSE
    /\ answered = FALSE
    /\ peer = "new"

Poll == PollFetch \/ PollError \/ PollSkip \/ PollDeliver \/ PollStop \/ PollTimer
Fwd  == FwdPost \/ FwdError \/ FwdClosed
Peer == PeerConnects \/ PeerFails \/ PeerCloses

Next ==
    \/ \E g \in Senders : AcquireSend(g) \/ SendMsg(g)
    \/ \E g \in {"recv", "failed", "closed"} : CloseSendCh(g)
    \/ RecvHandle \/ RecvClosed
    \/ \E cb \in Callbacks : OnComplete(cb) \/ Return(cb)
    \/ Poll \/ Fwd
    \/ DeviceSends \/ IceCandidate \/ Peer

Spec == Init /\ [][Next]_vars

(***************************************************************************)
(* Fairness: every goroutine that can step does.  sync.Mutex hands itself  *)
(* to a waiter that keeps asking (starvation mode) and select takes a      *)
(* closed stop channel before a timer that has yet to fire, hence strong   *)
(* fairness there.  HTTP requests end, one way or the other, and pion      *)
(* times out a negotiated connection that never connects.  Nothing obliges *)
(* the device to speak or an established connection to end.                *)
(***************************************************************************)
PeerSettles == peer = "new" /\ Peer

Fairness ==
    /\ \A g \in Senders : SF_vars(AcquireSend(g)) /\ WF_vars(SendMsg(g))
    /\ \A g \in {"recv", "failed", "closed"} : SF_vars(CloseSendCh(g))
    /\ WF_vars(RecvHandle) /\ WF_vars(RecvClosed)
    /\ \A cb \in Callbacks : WF_vars(OnComplete(cb)) /\ WF_vars(Return(cb))
    /\ WF_vars(Poll) /\ SF_vars(PollStop) /\ WF_vars(Fwd)
    /\ WF_vars(PeerSettles)

FairSpec == Spec /\ Fairness

-----------------------------------------------------------------------------
(* Properties *)

Locations ==
    {"lock", "send", "wait", "returned", "recv", "handle", "close", "done",
     "idle", "request", "deliver", "post", "off", "once", "complete"}

(* Every variable has its type: the type invariant of the module. *)
TypeOK ==
    /\ pc \in [Goroutines -> Locations]
    /\ mtx \in Senders \cup {NoOne}
    /\ sendClosed \in BOOLEAN
    /\ closes \in [Channels -> Nat]
    /\ next \in Nat /\ fetched \in Nat /\ start \in Nat
    /\ pollErrs \in 0..MaxErrors /\ postErrs \in 0..MaxErrors
    /\ posting \in Senders \cup {NoOne}
    /\ handled \in Seq(Nat)
    /\ once \in {"unused", "running", "spent"}
    /\ result \in {"none", "ok", "error"}
    /\ iceLeft \in Nat
    /\ log \in Seq(Kinds)
    /\ requested \in BOOLEAN /\ negotiated \in BOOLEAN /\ answered \in BOOLEAN
    /\ peer \in {"new"} \cup Callbacks

(* Go panics when a closed channel is closed again or sent to.  Whatever    *)
(* the order of the callbacks, of recvLoop's exit and of the candidates, no *)
(* channel is closed twice and nobody is sending on a closed one.           *)
NoChannelPanic ==
    /\ \A ch \in Channels : closes[ch] <= 1
    /\ \A g \in Senders : pc[g] = "send" => ~Closed("SendCh")
    /\ pc["poll"] = "deliver" => ~Closed("RecvCh")

(* NewConnection reads its channel once: when it has returned, no callback  *)
(* is left writing to that channel (it would never reach stopGoRoutines).   *)
(* And it returns an error only when the peer connection is over.           *)
OneResult ==
    /\ \A cb \in Callbacks : pc[cb] = "complete" => result = "none"
    /\ result = "error" => peer \in {"failed", "closed"}

(* Whatever polls fail and whenever messages arrive, none is passed over:   *)
(* what precedes a handled message in the log was handled before it.  With  *)
(* entries of other types in the log a message may be delivered again; when *)
(* the device sends nothing but device messages, recvLoop handles them in   *)
(* the order of the log and each one once.                                  *)
NoneSkipped ==
    \A i \in 1..Len(handled) : \A k \in 1..(handled[i] - 1) :
        log[k] = "noise" \/ \E j \in 1..(i - 1) : handled[j] = k

InOrder ==
    /\ NoneSkipped
    /\ (\A k \in 1..Len(log) : log[k] # "noise") =>
          \A i, j \in 1..Len(handled) : i < j => handled[i] < handled[j]

Stopped == pc["fwd"] = "done" /\ pc["poll"] = "done" /\ pc["recv"] = "done"

(* recvLoop ended with an error and the poller has another message for it. *)
PollHangs == pc["poll"] = "deliver" /\ log[next] # "noise" /\ pc["recv"] = "done"

(* What has begun ends.  The comments of initHandling and stopGoRoutines:   *)
(* closing SendCh stops the forwarder, which stops the poller, which ends   *)
(* recvLoop.  All three end whatever the device sends, with the exception   *)
(* that the code has: a poller with a message for a recvLoop that an error  *)
(* ended earlier.  And once the descriptions are set NewConnection returns, *)
(* whatever happens to the signaling afterwards.                            *)
SignalingEnds ==
    /\ Closed("SendCh") ~>
          /\ pc["fwd"] = "done" /\ pc["recv"] = "done"
          /\ pc["poll"] = "done" \/ PollHangs
    /\ negotiated ~> pc["main"] = "returned"

(* The comment of stopGoRoutines: when the peer connection is over, the     *)
(* signaling goroutines stop.                                               *)
PeerGoneStops == peer \in {"failed", "closed"} ~> Stopped

=============================================================================
