-------------------------- MODULE Signaling_proofs --------------------------
(***************************************************************************)
(* Theorems about Signaling, for every number of errors, candidates and    *)
(* messages and every set of message kinds.                                *)
(***************************************************************************)
EXTENDS Signaling, TLAPS

(* Where sendSigMsg returns to is a location. *)
LEMMA AfterSendType ==
    ASSUME NEW g \in Senders
    PROVE  AfterSend[g] \in Locations /\ AfterSend[g] \notin {"send", "complete", "done"}
BY DEF Senders, AfterSend, Locations

(***************************************************************************)
(* The types, with the fact that both loops end at MaxErrors errors.       *)
(***************************************************************************)
TypeInv ==
    /\ TypeOK
    /\ pc["poll"] # "done" => pollErrs < MaxErrors
    /\ pc["fwd"] # "done" => postErrs < MaxErrors

LEMMA TypeInvInvariant == Spec => []TypeInv
<1> USE SignalingAssumption
    DEF SignalingAssumption, TypeInv, TypeOK, Goroutines, Senders, Callbacks, Channels,
        Locations, NoOne, Kinds
<1>1. Init => TypeInv
  <2> SUFFICES ASSUME Init PROVE TypeInv
    OBVIOUS
  <2>1. pc \in [Goroutines -> Locations]
    BY DEF Init
  <2>2. closes \in [Channels -> Nat] /\ handled \in Seq(Nat) /\ log \in Seq(Kinds)
    BY DEF Init
  <2>3. pollErrs \in 0..MaxErrors /\ pollErrs < MaxErrors
    BY DEF Init
  <2>4. postErrs \in 0..MaxErrors /\ postErrs < MaxErrors
    BY DEF Init
  <2>5. TypeOK
    BY <2>1, <2>2, <2>3, <2>4 DEF Init
  <2>6. QED
    BY <2>3, <2>4, <2>5
<1>2. TypeInv /\ [Next]_vars => TypeInv'
  <2> SUFFICES ASSUME TypeInv, [Next]_vars PROVE TypeInv'
    OBVIOUS
  <2> USE DEF Go, Close, pollVars, fwdVars, envVars
  <2>1. ASSUME NEW g \in Senders, AcquireSend(g) PROVE TypeInv'
    BY <2>1, AfterSendType DEF AcquireSend
  <2>2. ASSUME NEW g \in Senders, SendMsg(g) PROVE TypeInv'
    BY <2>2, AfterSendType DEF SendMsg
  <2>3. ASSUME NEW g \in {"recv", "failed", "closed"}, CloseSendCh(g) PROVE TypeInv'
    <3>1. CASE sendClosed
      BY <2>3, <3>1 DEF CloseSendCh
    <3>2. CASE ~sendClosed
      BY <2>3, <3>2 DEF CloseSendCh
    <3>3. QED
      BY <3>1, <3>2
  <2>4. CASE RecvHandle
    <3>1. negotiated' \in BOOLEAN /\ pc' \in [Goroutines -> Locations]
      BY <2>4 DEF RecvHandle, OnOffer, OnIceCandidate, OnRecvError
    <3>2. UNCHANGED <<mtx, sendClosed, closes, pollVars, fwdVars, handled, once,
                      result, iceLeft, log, requested, answered, peer>>
      BY <2>4 DEF RecvHandle, OnOffer, OnIceCandidate, OnRecvError
    <3>3. pc'["poll"] = pc["poll"] /\ pc'["fwd"] = pc["fwd"]
      BY <2>4 DEF RecvHandle, OnOffer, OnIceCandidate, OnRecvError
    <3>4. QED
      BY <3>1, <3>2, <3>3
  <2>5. CASE RecvClosed
    BY <2>5 DEF RecvClosed
  <2>6. ASSUME NEW cb \in Callbacks, OnComplete(cb) PROVE TypeInv'
    BY <2>6 DEF OnComplete, AfterComplete
  <2>7. ASSUME NEW cb \in Callbacks, Return(cb) PROVE TypeInv'
    <3>1. /\ pc' \in [Goroutines -> Locations]
          /\ pc'["poll"] = pc["poll"] /\ pc'["fwd"] = pc["fwd"]
      BY <2>7 DEF Return, AfterComplete
    <3>2. QED
      BY <2>7, <3>1 DEF Return
  <2>8. CASE PollFetch
    BY <2>8 DEF PollFetch
  <2>9. CASE PollError
    BY <2>9 DEF PollError
  <2>10. CASE PollSkip
    BY <2>10 DEF PollSkip, DropMessage, AfterMessage
  <2>11. CASE PollDeliver
    BY <2>11 DEF PollDeliver, DropMessage, AfterMessage
  <2>12. CASE PollStop
    BY <2>12 DEF PollStop
  <2>13. CASE PollTimer
    BY <2>13 DEF PollTimer
  <2>14. CASE FwdPost
    BY <2>14 DEF FwdPost, Reaches
  <2>15. CASE FwdError
    <3>1. requested' \in BOOLEAN /\ answered' \in BOOLEAN
      BY <2>15 DEF FwdError, Reaches
    <3>2. CASE postErrs' = MaxErrors
      BY <2>15, <3>1, <3>2 DEF FwdError
    <3>3. CASE postErrs' # MaxErrors
      BY <2>15, <3>1, <3>3 DEF FwdError
    <3>4. QED
      BY <3>2, <3>3
  <2>16. CASE FwdClosed
    BY <2>16 DEF FwdClosed
  <2>17. CASE DeviceSends
    BY <2>17 DEF DeviceSends
  <2>18. CASE IceCandidate
    BY <2>18 DEF IceCandidate
  <2>19. CASE Peer
    <3>1. PICK state \in Callbacks : PeerBecomes(state)
      BY <2>19 DEF Peer, PeerConnects, PeerFails, PeerCloses
    <3>2. QED
      BY <3>1 DEF PeerBecomes
  <2>20. CASE UNCHANGED vars
    BY <2>20 DEF vars
  <2>21. QED
    BY <2>1, <2>2, <2>3, <2>4, <2>5, <2>6, <2>7, <2>8, <2>9, <2>10, <2>11, <2>12,
       <2>13, <2>14, <2>15, <2>16, <2>17, <2>18, <2>19, <2>20
       DEF Next, Poll, Fwd
<1>3. QED
  BY <1>1, <1>2, PTL DEF Spec

(* Type correctness: in every reachable state each variable has the type   *)
(* TypeOK gives it.                                                        *)
THEOREM Typing == Spec => []TypeOK
<1>1. TypeInv => TypeOK
  BY DEF TypeInv
<1>2. QED
  BY <1>1, TypeInvInvariant, PTL

-----------------------------------------------------------------------------
(***************************************************************************)
(* NoChannelPanic rests on who may close what: SendCh is closed exactly    *)
(* when sendChClosed says so, and not while somebody holds the mutex for a *)
(* send; the other two channels are closed as the last act of the          *)
(* goroutine that owns them.                                               *)
(***************************************************************************)
ChannelInv ==
    /\ \A ch \in Channels : closes[ch] <= 1
    /\ sendClosed <=> Closed("SendCh")
    /\ pc["poll"] = "done" <=> Closed("RecvCh")
    /\ pc["fwd"] = "done" <=> Closed("stopPollCh")
    /\ \A g \in Senders : pc[g] = "send" => mtx = g /\ ~sendClosed

LEMMA ChannelInvInductive ==
    ASSUME TypeOK, ChannelInv, [Next]_vars
    PROVE  ChannelInv'
<1> USE DEF TypeOK, ChannelInv, Go, Close, Closed, Channels, Goroutines, Senders, Callbacks
<1>1. ASSUME NEW g \in Senders, AcquireSend(g) PROVE ChannelInv'
  BY <1>1, AfterSendType DEF AcquireSend, NoOne
<1>2. ASSUME NEW g \in Senders, SendMsg(g) PROVE ChannelInv'
  BY <1>2, AfterSendType DEF SendMsg
<1>3. ASSUME NEW g \in {"recv", "failed", "closed"}, CloseSendCh(g) PROVE ChannelInv'
  BY <1>3 DEF CloseSendCh, NoOne
<1>4. CASE RecvHandle
  BY <1>4 DEF RecvHandle, OnOffer, OnIceCandidate, OnRecvError
<1>5. CASE RecvClosed
  BY <1>5 DEF RecvClosed
<1>6. ASSUME NEW cb \in Callbacks, OnComplete(cb) PROVE ChannelInv'
  BY <1>6 DEF OnComplete, AfterComplete
<1>7. ASSUME NEW cb \in Callbacks, Return(cb) PROVE ChannelInv'
  BY <1>7 DEF Return, AfterComplete
<1>8. CASE PollFetch
  BY <1>8 DEF PollFetch
<1>9. CASE PollError
  BY <1>9 DEF PollError
<1>10. CASE PollSkip
  BY <1>10 DEF PollSkip, AfterMessage
<1>11. CASE PollDeliver
  BY <1>11 DEF PollDeliver, AfterMessage
<1>12. CASE PollStop
  BY <1>12 DEF PollStop
<1>13. CASE PollTimer
  BY <1>13 DEF PollTimer
<1>14. CASE FwdPost
  BY <1>14 DEF FwdPost
<1>15. CASE FwdError
  BY <1>15 DEF FwdError
<1>16. CASE FwdClosed
  BY <1>16 DEF FwdClosed
<1>17. CASE DeviceSends
  BY <1>17 DEF DeviceSends
<1>18. CASE IceCandidate
  BY <1>18 DEF IceCandidate
<1>19. CASE Peer
  BY <1>19 DEF Peer, PeerConnects, PeerFails, PeerCloses, PeerBecomes
<1>20. CASE UNCHANGED vars
  BY <1>20 DEF vars
<1>21. QED
  BY <1>1, <1>2, <1>3, <1>4, <1>5, <1>6, <1>7, <1>8, <1>9, <1>10, <1>11, <1>12,
     <1>13, <1>14, <1>15, <1>16, <1>17, <1>18, <1>19, <1>20
     DEF Next, Poll, Fwd

LEMMA ChannelInvariant == Spec => []ChannelInv
<1>1. Init => ChannelInv
  BY DEF Init, ChannelInv, Closed, Channels, Goroutines, Senders, Callbacks
<1>2. TypeOK /\ ChannelInv /\ [Next]_vars => ChannelInv'
  BY ChannelInvInductive
<1>3. QED
  BY <1>1, <1>2, Typing, PTL DEF Spec

(* No interleaving of the callbacks, the loops and the senders closes a    *)
(* channel twice or sends on a closed one.                                 *)
THEOREM ChannelSafety == Spec => []NoChannelPanic
<1>1. ChannelInv => NoChannelPanic
  BY DEF ChannelInv, NoChannelPanic, Closed, Channels
<1>2. QED
  BY <1>1, ChannelInvariant, PTL

-----------------------------------------------------------------------------
(***************************************************************************)
(* At most one callback runs the body of once.Do, and only before          *)
(* NewConnection has its result.  The callbacks of a failed or closed peer *)
(* connection start when it is over, which it stays.                       *)
(***************************************************************************)
ResultInv ==
    /\ \A cb \in Callbacks : pc[cb] = "complete" => once = "running"
    /\ \A a, b \in Callbacks : pc[a] = "complete" /\ pc[b] = "complete" => a = b
    /\ once # "spent" => result = "none"
    /\ pc["failed"] # "off" => peer \in {"failed", "closed"}
    /\ pc["closed"] # "off" => peer = "closed"
    /\ result = "error" => peer \in {"failed", "closed"}

LEMMA ResultInvInductive ==
    ASSUME TypeOK, ResultInv, [Next]_vars
    PROVE  ResultInv'
<1> USE DEF TypeOK, ResultInv, Go, Goroutines, Senders, Callbacks, envVars, fwdVars, pollVars
<1>1. ASSUME NEW g \in Senders, AcquireSend(g) PROVE ResultInv'
  BY <1>1, AfterSendType DEF AcquireSend
<1>2. ASSUME NEW g \in Senders, SendMsg(g) PROVE ResultInv'
  BY <1>2, AfterSendType DEF SendMsg
<1>3. ASSUME NEW g \in {"recv", "failed", "closed"}, CloseSendCh(g) PROVE ResultInv'
  BY <1>3 DEF CloseSendCh
<1>4. CASE RecvHandle
  BY <1>4 DEF RecvHandle, OnOffer, OnIceCandidate, OnRecvError
<1>5. CASE RecvClosed
  BY <1>5 DEF RecvClosed
<1>6. ASSUME NEW cb \in Callbacks, OnComplete(cb) PROVE ResultInv'
  BY <1>6 DEF OnComplete, AfterComplete
<1>7. ASSUME NEW cb \in Callbacks, Return(cb) PROVE ResultInv'
  BY <1>7 DEF Return, AfterComplete
<1>8. CASE PollFetch
  BY <1>8 DEF PollFetch
<1>9. CASE PollError
  BY <1>9 DEF PollError
<1>10. CASE PollSkip
  BY <1>10 DEF PollSkip, AfterMessage
<1>11. CASE PollDeliver
  BY <1>11 DEF PollDeliver, AfterMessage
<1>12. CASE PollStop
  BY <1>12 DEF PollStop
<1>13. CASE PollTimer
  BY <1>13 DEF PollTimer
<1>14. CASE FwdPost
  BY <1>14 DEF FwdPost
<1>15. CASE FwdError
  BY <1>15 DEF FwdError
<1>16. CASE FwdClosed
  BY <1>16 DEF FwdClosed
<1>17. CASE DeviceSends
  BY <1>17 DEF DeviceSends
<1>18. CASE IceCandidate
  BY <1>18 DEF IceCandidate
<1>19. CASE Peer
  BY <1>19 DEF Peer, PeerConnects, PeerFails, PeerCloses, PeerBecomes
<1>20. CASE UNCHANGED vars
  BY <1>20 DEF vars
<1>21. QED
  BY <1>1, <1>2, <1>3, <1>4, <1>5, <1>6, <1>7, <1>8, <1>9, <1>10, <1>11, <1>12,
     <1>13, <1>14, <1>15, <1>16, <1>17, <1>18, <1>19, <1>20
     DEF Next, Poll, Fwd

(* NewConnection gets one result, an error only when the peer connection is *)
(* over, and leaves no callback writing to its channel.                     *)
THEOREM SingleResult == Spec => []OneResult
<1>1. Init => ResultInv
  BY DEF Init, ResultInv, Goroutines, Senders, Callbacks
<1>2. TypeOK /\ ResultInv /\ [Next]_vars => ResultInv'
  BY ResultInvInductive
<1>3. ResultInv => OneResult
  BY DEF ResultInv, OneResult
<1>4. QED
  BY <1>1, <1>2, <1>3, Typing, PTL DEF Spec

-----------------------------------------------------------------------------
(***************************************************************************)
(* The poller's cursor: the batch being delivered lies within the log, and *)
(* as long as the log holds device messages only, start counts exactly the *)
(* messages handled, which are the first ones of the log.                  *)
(***************************************************************************)
NoiseFree == \A k \in 1..Len(log) : log[k] # "noise"

CursorInv ==
    /\ pc["poll"] = "deliver" => next \in 1..fetched /\ fetched <= Len(log)
    /\ NoiseFree =>
          /\ pc["poll"] = "deliver" => next = start + 1
          /\ Len(handled) = start
          /\ \A i \in 1..Len(handled) : handled[i] = i

LEMMA CursorInvInductive ==
    ASSUME TypeOK, CursorInv, [Next]_vars
    PROVE  CursorInv'
<1> USE DEF TypeOK, CursorInv, NoiseFree, Go, Goroutines, Senders, Callbacks, envVars, fwdVars, pollVars
<1>1. ASSUME NEW g \in Senders, AcquireSend(g) PROVE CursorInv'
  BY <1>1, AfterSendType DEF AcquireSend
<1>2. ASSUME NEW g \in Senders, SendMsg(g) PROVE CursorInv'
  BY <1>2, AfterSendType DEF SendMsg
<1>3. ASSUME NEW g \in {"recv", "failed", "closed"}, CloseSendCh(g) PROVE CursorInv'
  BY <1>3 DEF CloseSendCh
<1>4. CASE RecvHandle
  BY <1>4 DEF RecvHandle, OnOffer, OnIceCandidate, OnRecvError
<1>5. CASE RecvClosed
  BY <1>5 DEF RecvClosed
<1>6. ASSUME NEW cb \in Callbacks, OnComplete(cb) PROVE CursorInv'
  BY <1>6 DEF OnComplete, AfterComplete
<1>7. ASSUME NEW cb \in Callbacks, Return(cb) PROVE CursorInv'
  BY <1>7 DEF Return, AfterComplete
<1>8. CASE PollFetch
  BY <1>8 DEF PollFetch
<1>9. CASE PollError
  BY <1>9 DEF PollError
<1>10. CASE PollSkip
  BY <1>10 DEF PollSkip, AfterMessage, DropMessage, More
<1>11. CASE PollDeliver
  <2> HIDE DEF TypeOK, CursorInv, NoiseFree
  <2>1. /\ pc["poll"] = "deliver" /\ start' = start + 1 /\ log' = log
        /\ handled' = Append(handled, next)
        /\ pc' = [pc EXCEPT !["recv"] = "handle", !["poll"] = AfterMessage]
        /\ next' = (IF next < fetched THEN next + 1 ELSE 0)
        /\ fetched' = (IF next < fetched THEN fetched ELSE 0)
    BY <1>11 DEF PollDeliver, DropMessage, More
  <2>2. next \in 1..fetched /\ fetched \in Nat /\ fetched <= Len(log) /\ start \in Nat
    BY <2>1 DEF CursorInv, TypeOK
  <2>3. pc'["poll"] = (IF next < fetched THEN "deliver" ELSE "wait")
    BY <2>1 DEF TypeOK, AfterMessage, More
  <2>4. pc'["poll"] = "deliver" => next' \in 1..fetched' /\ fetched' <= Len(log')
    BY <2>1, <2>2, <2>3
  <2>5. ASSUME NoiseFree'
        PROVE  /\ pc'["poll"] = "deliver" => next' = start' + 1
               /\ Len(handled') = start'
               /\ \A i \in 1..Len(handled') : handled'[i] = i
    <3>1. /\ next = start + 1 /\ Len(handled) = start
          /\ \A i \in 1..Len(handled) : handled[i] = i
      BY <2>1, <2>5 DEF CursorInv, NoiseFree
    <3>2. handled \in Seq(Nat) /\ next \in Nat
      BY <2>2 DEF TypeOK
    <3>3. Len(handled') = start + 1
      BY <2>1, <3>1, <3>2
    <3>4. \A i \in 1..Len(handled') : handled'[i] = i
      BY <2>1, <2>2, <3>1, <3>2, <3>3
    <3>5. pc'["poll"] = "deliver" => next' = next + 1
      BY <2>1, <2>3
    <3>6. QED
      BY <2>1, <2>2, <3>1, <3>3, <3>4, <3>5
  <2>6. QED
    BY <2>4, <2>5 DEF CursorInv
<1>12. CASE PollStop
  BY <1>12 DEF PollStop
<1>13. CASE PollTimer
  BY <1>13 DEF PollTimer
<1>14. CASE FwdPost
  BY <1>14 DEF FwdPost
<1>15. CASE FwdError
  BY <1>15 DEF FwdError
<1>16. CASE FwdClosed
  BY <1>16 DEF FwdClosed
<1>17. CASE DeviceSends
  BY <1>17 DEF DeviceSends
<1>18. CASE IceCandidate
  BY <1>18 DEF IceCandidate
<1>19. CASE Peer
  BY <1>19 DEF Peer, PeerConnects, PeerFails, PeerCloses, PeerBecomes
<1>20. CASE UNCHANGED vars
  BY <1>20 DEF vars
<1>21. QED
  BY <1>1, <1>2, <1>3, <1>4, <1>5, <1>6, <1>7, <1>8, <1>9, <1>10, <1>11, <1>12,
     <1>13, <1>14, <1>15, <1>16, <1>17, <1>18, <1>19, <1>20
     DEF Next, Poll, Fwd

(***************************************************************************)
(* The poller skips nothing: outside a batch every device message up to    *)
(* start has been handled, and within one every message before next.       *)
(***************************************************************************)
Covered(n) ==
    \A k \in 1..n : log[k] = "noise" \/ \E j \in 1..Len(handled) : handled[j] = k

SkipInv ==
    /\ \A i \in 1..Len(handled) : handled[i] \in 1..Len(log)
    /\ NoneSkipped
    /\ IF pc["poll"] = "deliver"
       THEN start < next /\ Covered(next - 1)
       ELSE start <= Len(log) /\ Covered(start)

LEMMA CursorUnchanged ==
    ASSUME TypeOK, SkipInv, UNCHANGED <<log, handled, start, next>>,
           pc'["poll"] = "deliver" <=> pc["poll"] = "deliver"
    PROVE  SkipInv'
BY DEF SkipInv, NoneSkipped, Covered

(* A longer log changes nothing about its earlier entries. *)
LEMMA LogGrows ==
    ASSUME TypeOK, CursorInv, SkipInv, DeviceSends
    PROVE  SkipInv'
<1>1. PICK kd \in DeviceMsgs : log' = Append(log, kd)
  BY DEF DeviceSends
<1>2. UNCHANGED <<handled, start, next, pc>>
  BY DEF DeviceSends, Go, pollVars
<1>3. Len(log') = Len(log) + 1 /\ \A k \in 1..Len(log) : log'[k] = log[k]
  BY <1>1 DEF TypeOK
<1>4. Len(log) \in Nat /\ start \in Nat /\ next \in Nat
  BY DEF TypeOK
<1>5. \A i \in 1..Len(handled) : handled'[i] \in 1..Len(log')
  BY <1>2, <1>3, <1>4 DEF SkipInv
<1>6. NoneSkipped'
  <2>1. \A i \in 1..Len(handled) : \A k \in 1..(handled[i] - 1) : k \in 1..Len(log)
    BY <1>4 DEF SkipInv
  <2>2. QED
    BY <1>2, <1>3, <2>1 DEF SkipInv, NoneSkipped
<1>7. CASE pc["poll"] = "deliver"
  <2>1. next <= Len(log)
    BY <1>4, <1>7 DEF CursorInv, TypeOK
  <2>2. Covered(next - 1)'
    BY <1>2, <1>3, <1>4, <1>7, <2>1 DEF SkipInv, Covered
  <2>3. QED
    BY <1>2, <1>5, <1>6, <1>7, <2>2 DEF SkipInv
<1>8. CASE pc["poll"] # "deliver"
  <2>1. Covered(start)'
    BY <1>2, <1>3, <1>4, <1>8 DEF SkipInv, Covered
  <2>2. start <= Len(log')
    BY <1>3, <1>4, <1>8 DEF SkipInv
  <2>3. QED
    BY <1>2, <1>5, <1>6, <1>8, <2>1, <2>2 DEF SkipInv
<1>9. QED
  BY <1>7, <1>8

LEMMA DeliverSkipsNone ==
    ASSUME TypeOK, CursorInv, SkipInv, PollDeliver
    PROVE  SkipInv'
<1>1. /\ pc["poll"] = "deliver" /\ start' = start + 1 /\ log' = log
      /\ handled' = Append(handled, next)
      /\ pc' = [pc EXCEPT !["recv"] = "handle", !["poll"] = AfterMessage]
      /\ next' = (IF next < fetched THEN next + 1 ELSE 0)
  BY DEF PollDeliver, DropMessage, More, envVars
<1>2. /\ next \in 1..Len(log) /\ start \in Nat /\ Len(log) \in Nat
      /\ handled \in Seq(Nat) /\ Len(handled) \in Nat
  BY <1>1 DEF CursorInv, TypeOK
<1>3. pc'["poll"] = (IF next < fetched THEN "deliver" ELSE "wait")
  BY <1>1 DEF TypeOK, AfterMessage, More, Goroutines
<1>4. start < next /\ Covered(next - 1)
  BY <1>1 DEF SkipInv
<1>5. /\ Len(handled') = Len(handled) + 1 /\ handled'[Len(handled) + 1] = next
      /\ \A i \in 1..Len(handled) : handled'[i] = handled[i]
  BY <1>1, <1>2
<1>6. \A i \in 1..Len(handled') : handled'[i] \in 1..Len(log')
  BY <1>1, <1>2, <1>5 DEF SkipInv
<1>7. NoneSkipped'
  <2> SUFFICES ASSUME NEW i \in 1..Len(handled'), NEW k \in 1..(handled'[i] - 1)
               PROVE  log'[k] = "noise" \/ \E j \in 1..(i - 1) : handled'[j] = k
    BY DEF NoneSkipped
  <2>1. CASE i = Len(handled) + 1
    <3>1. k \in 1..(next - 1)
      BY <1>5, <2>1
    <3>2. log[k] = "noise" \/ \E j \in 1..Len(handled) : handled[j] = k
      BY <1>4, <3>1 DEF Covered
    <3>3. QED
      BY <1>1, <1>2, <1>5, <2>1, <3>2
  <2>2. CASE i \in 1..Len(handled)
    <3>1. log[k] = "noise" \/ \E j \in 1..(i - 1) : handled[j] = k
      BY <1>5, <2>2 DEF SkipInv, NoneSkipped
    <3>2. QED
      BY <1>1, <1>2, <1>5, <2>2, <3>1
  <2>3. QED
    BY <1>2, <1>5, <2>1, <2>2
<1>8. \A k \in 1..next : log'[k] = "noise" \/ \E j \in 1..Len(handled') : handled'[j] = k
  <2> SUFFICES ASSUME NEW k \in 1..next
               PROVE  log'[k] = "noise" \/ \E j \in 1..Len(handled') : handled'[j] = k
    OBVIOUS
  <2>1. CASE k = next
    BY <1>2, <1>5, <2>1
  <2>2. CASE k \in 1..(next - 1)
    <3>1. log[k] = "noise" \/ \E j \in 1..Len(handled) : handled[j] = k
      BY <1>4, <2>2 DEF Covered
    <3>2. QED
      BY <1>1, <1>2, <1>5, <3>1
  <2>3. QED
    BY <1>2, <2>1, <2>2
<1>9. CASE next < fetched
  <2>1. pc'["poll"] = "deliver" /\ next' = next + 1
    BY <1>1, <1>3, <1>9
  <2>2. start' < next' /\ next' - 1 = next
    BY <1>1, <1>2, <1>4, <2>1
  <2>3. Covered(next - 1)'
    BY <1>8, <2>2 DEF Covered
  <2>4. QED
    BY <1>6, <1>7, <2>1, <2>2, <2>3 DEF SkipInv
<1>10. CASE ~(next < fetched)
  <2>1. pc'["poll"] = "wait"
    BY <1>3, <1>10
  <2>2. start' <= next /\ start' <= Len(log')
    BY <1>1, <1>2, <1>4
  <2>3. Covered(start)'
    BY <1>1, <1>2, <1>8, <2>2 DEF Covered
  <2>4. QED
    BY <1>6, <1>7, <2>1, <2>2, <2>3 DEF SkipInv
<1>11. QED
  BY <1>9, <1>10

LEMMA SkipInvInductive ==
    ASSUME TypeOK, CursorInv, SkipInv, [Next]_vars
    PROVE  SkipInv'
<1>1. CASE PollFetch
  <2>1. UNCHANGED <<log, handled, start>> /\ pc["poll"] = "request"
    BY <1>1 DEF PollFetch, envVars
  <2>2. \/ next' = start + 1 /\ pc' = [pc EXCEPT !["poll"] = "deliver"]
        \/ next' = next /\ pc' = [pc EXCEPT !["poll"] = "wait"]
    BY <1>1 DEF PollFetch, Go
  <2>3. CASE next' = start + 1 /\ pc' = [pc EXCEPT !["poll"] = "deliver"]
    <3>1. pc'["poll"] = "deliver"
      BY <2>3 DEF TypeOK, Goroutines
    <3>2. start < next' /\ next' - 1 = start
      BY <2>3 DEF TypeOK
    <3>3. QED
      BY <2>1, <2>3, <3>1, <3>2 DEF SkipInv, NoneSkipped, Covered
  <2>4. CASE next' = next /\ pc' = [pc EXCEPT !["poll"] = "wait"]
    <3>1. pc'["poll"] = "wait"
      BY <2>4 DEF TypeOK, Goroutines
    <3>2. QED
      BY <2>1, <2>4, <3>1, CursorUnchanged
  <2>5. QED
    BY <2>2, <2>3, <2>4
<1>2. CASE PollSkip
  <2>1. /\ UNCHANGED <<log, handled, start>> /\ pc["poll"] = "deliver"
        /\ log[next] = "noise"
        /\ next' = (IF next < fetched THEN next + 1 ELSE 0)
        /\ pc' = [pc EXCEPT !["poll"] = AfterMessage]
    BY <1>2 DEF PollSkip, DropMessage, More, Go, envVars
  <2>2. next \in Nat /\ start \in Nat /\ next <= Len(log) /\ Len(log) \in Nat
    BY <2>1 DEF CursorInv, TypeOK
  <2>3. pc'["poll"] = (IF next < fetched THEN "deliver" ELSE "wait")
    BY <2>1 DEF TypeOK, AfterMessage, More, Goroutines
  <2>4. start < next /\ Covered(next - 1)
    BY <2>1 DEF SkipInv
  <2>5. Covered(next)
    BY <2>1, <2>2, <2>4 DEF Covered
  <2>6. NoneSkipped' /\ \A i \in 1..Len(handled') : handled'[i] \in 1..Len(log')
    BY <2>1 DEF SkipInv, NoneSkipped
  <2>7. IF pc'["poll"] = "deliver"
        THEN start' < next' /\ Covered(next - 1)'
        ELSE start' <= Len(log') /\ Covered(start)'
    BY <2>1, <2>2, <2>3, <2>4, <2>5 DEF Covered
  <2>8. QED
    BY <2>6, <2>7 DEF SkipInv
<1>3. CASE PollDeliver
  BY <1>3, DeliverSkipsNone
<1>4. CASE DeviceSends
  BY <1>4, LogGrows
<1>5. CASE PollError \/ PollStop \/ PollTimer
  <2>1. /\ UNCHANGED <<log, handled, start, next>> /\ pc["poll"] # "deliver"
        /\ \E to \in {"done", "wait", "request"} : pc' = [pc EXCEPT !["poll"] = to]
    BY <1>5 DEF PollError, PollStop, PollTimer, pollVars, envVars, Go
  <2>2. pc'["poll"] # "deliver"
    BY <2>1 DEF TypeOK, Goroutines
  <2>3. QED
    BY <2>1, <2>2, CursorUnchanged
<1>6. CASE \E g \in Senders : AcquireSend(g) \/ SendMsg(g)
  <2>1. UNCHANGED <<log, handled, start, next>> /\ pc'["poll"] = pc["poll"]
    BY <1>6 DEF AcquireSend, SendMsg, pollVars, envVars, Go, TypeOK, Goroutines, Senders
  <2>2. QED
    BY <2>1, CursorUnchanged
<1>7. CASE \E g \in {"recv", "failed", "closed"} : CloseSendCh(g)
  <2>1. UNCHANGED <<log, handled, start, next>> /\ pc'["poll"] = pc["poll"]
    BY <1>7 DEF CloseSendCh, pollVars, envVars, Go, TypeOK, Goroutines
  <2>2. QED
    BY <2>1, CursorUnchanged
<1>8. CASE RecvHandle \/ RecvClosed
  <2>1. UNCHANGED <<log, handled, start, next>> /\ pc'["poll"] = pc["poll"]
    BY <1>8 DEF RecvHandle, RecvClosed, OnOffer, OnIceCandidate, OnRecvError,
                pollVars, envVars, Go, TypeOK, Goroutines
  <2>2. QED
    BY <2>1, CursorUnchanged
<1>9. CASE \E cb \in Callbacks : OnComplete(cb) \/ Return(cb)
  <2>1. UNCHANGED <<log, handled, start, next>> /\ pc'["poll"] = pc["poll"]
    BY <1>9 DEF OnComplete, Return, AfterComplete, pollVars, envVars, Go, TypeOK,
                Goroutines, Callbacks
  <2>2. QED
    BY <2>1, CursorUnchanged
<1>10. CASE Fwd \/ IceCandidate \/ Peer
  <2>1. UNCHANGED <<log, handled, start, next>> /\ pc'["poll"] = pc["poll"]
    BY <1>10 DEF Fwd, FwdPost, FwdError, FwdClosed, IceCandidate, Peer, PeerConnects,
                 PeerFails, PeerCloses, PeerBecomes, pollVars, envVars, Go, TypeOK,
                 Goroutines, Callbacks
  <2>2. QED
    BY <2>1, CursorUnchanged
<1>11. CASE UNCHANGED vars
  BY <1>11, CursorUnchanged DEF vars, pollVars, envVars
<1>12. QED
  BY <1>1, <1>2, <1>3, <1>4, <1>5, <1>6, <1>7, <1>8, <1>9, <1>10, <1>11 DEF Next, Poll

(* No message is passed over, and a log of device messages is handled in   *)
(* order and without repetition, whichever polls fail and whenever          *)
(* messages arrive.                                                         *)
THEOREM OrderedDelivery == Spec => []InOrder
<1>1. Init => CursorInv
  BY DEF Init, CursorInv, NoiseFree, Goroutines, Senders, Callbacks
<1>2. Init => SkipInv
  BY DEF Init, SkipInv, NoneSkipped, Covered, Goroutines, Senders, Callbacks
<1>3. TypeOK /\ CursorInv /\ [Next]_vars => CursorInv'
  BY CursorInvInductive
<1>4. TypeOK /\ CursorInv /\ SkipInv /\ [Next]_vars => SkipInv'
  BY SkipInvInductive
<1>5. TypeOK /\ CursorInv /\ SkipInv => InOrder
  BY DEF TypeOK, CursorInv, SkipInv, NoiseFree, InOrder
<1>6. QED
  BY <1>1, <1>2, <1>3, <1>4, <1>5, Typing, PTL DEF Spec

-----------------------------------------------------------------------------
(***************************************************************************)
(* What SignalingEnds rests on: whoever waits for a mutex, a channel or a  *)
(* result waits for somebody who can still act.                            *)
(***************************************************************************)

(* sendMtx is held by a sender on an open channel only, which the forwarder *)
(* receives from, unless it has given up after MaxErrors errors.            *)
SendersServed ==
    mtx # NoOne =>
        /\ pc[mtx] = "send" /\ ~Closed("SendCh")
        /\ pc["fwd"] \in {"recv", "post"} \/ postErrs = MaxErrors

MutexInv ==
    /\ mtx # NoOne => pc[mtx] = "send"
    /\ pc["fwd"] \in {"recv", "post", "done"}
    /\ pc["fwd"] = "done" => sendClosed \/ postErrs = MaxErrors

LEMMA MutexInvInductive ==
    ASSUME TypeOK, ChannelInv, MutexInv, [Next]_vars
    PROVE  MutexInv'
<1> USE DEF TypeOK, ChannelInv, MutexInv, Go, Close, Closed, Channels, Goroutines, Senders,
        Callbacks, NoOne, envVars, fwdVars, pollVars
<1>1. ASSUME NEW g \in Senders, AcquireSend(g) PROVE MutexInv'
  BY <1>1, AfterSendType DEF AcquireSend
<1>2. ASSUME NEW g \in Senders, SendMsg(g) PROVE MutexInv'
  BY <1>2, AfterSendType DEF SendMsg
<1>3. ASSUME NEW g \in {"recv", "failed", "closed"}, CloseSendCh(g) PROVE MutexInv'
  BY <1>3 DEF CloseSendCh
<1>4. CASE RecvHandle
  BY <1>4 DEF RecvHandle, OnOffer, OnIceCandidate, OnRecvError
<1>5. CASE RecvClosed
  BY <1>5 DEF RecvClosed
<1>6. ASSUME NEW cb \in Callbacks, OnComplete(cb) PROVE MutexInv'
  BY <1>6 DEF OnComplete, AfterComplete
<1>7. ASSUME NEW cb \in Callbacks, Return(cb) PROVE MutexInv'
  BY <1>7 DEF Return, AfterComplete
<1>8. CASE PollFetch
  BY <1>8 DEF PollFetch
<1>9. CASE PollError
  BY <1>9 DEF PollError
<1>10. CASE PollSkip
  BY <1>10 DEF PollSkip, AfterMessage
<1>11. CASE PollDeliver
  BY <1>11 DEF PollDeliver, AfterMessage
<1>12. CASE PollStop
  BY <1>12 DEF PollStop
<1>13. CASE PollTimer
  BY <1>13 DEF PollTimer
<1>14. CASE FwdPost
  BY <1>14 DEF FwdPost, Reaches
<1>15. CASE FwdError
  BY <1>15 DEF FwdError, Reaches
<1>16. CASE FwdClosed
  BY <1>16 DEF FwdClosed
<1>17. CASE DeviceSends
  BY <1>17 DEF DeviceSends
<1>18. CASE IceCandidate
  BY <1>18 DEF IceCandidate
<1>19. CASE Peer
  BY <1>19 DEF Peer, PeerConnects, PeerFails, PeerCloses, PeerBecomes
<1>20. CASE UNCHANGED vars
  BY <1>20 DEF vars
<1>21. QED
  BY <1>1, <1>2, <1>3, <1>4, <1>5, <1>6, <1>7, <1>8, <1>9, <1>10, <1>11, <1>12,
     <1>13, <1>14, <1>15, <1>16, <1>17, <1>18, <1>19, <1>20
     DEF Next, Poll, Fwd

(* A sender, or a callback or recvLoop that is to close SendCh, waits for   *)
(* the mutex in vain only when the forwarder has given up a message; once   *)
(* SendCh is closed the mutex is free.                                      *)
THEOREM MutexIsReleased == Spec => []SendersServed
<1>1. Init => MutexInv
  BY DEF Init, MutexInv, Goroutines, Senders, Callbacks
<1>2. TypeOK /\ ChannelInv /\ MutexInv /\ [Next]_vars => MutexInv'
  BY MutexInvInductive
<1>3. TypeOK /\ ChannelInv /\ MutexInv => SendersServed
  BY DEF TypeOK, ChannelInv, MutexInv, SendersServed, Closed, Channels, Senders
<1>4. QED
  BY <1>1, <1>2, <1>3, Typing, ChannelInvariant, PTL DEF Spec

(* Once the descriptions are set, NewConnection has returned or waits for   *)
(* its result, and then the peer connection has yet to settle or a callback *)
(* is on its way to hand the result over.                                   *)
ResultComes ==
    negotiated =>
        \/ pc["main"] = "returned"
        \/ /\ pc["main"] = "wait"
           /\ peer = "new" \/ \E cb \in Callbacks : pc[cb] \in {"once", "complete"}

(* The descriptions follow the device's offer, and that the request for it, *)
(* which NewConnection sent before it waits.  And there is always a         *)
(* callback in or before once.Do until NewConnection has its result.        *)
WaitInv ==
    /\ Len(log) > 0 \/ negotiated => requested
    /\ pc["poll"] = "deliver" \/ pc["recv"] = "handle" => requested
    /\ requested \/ posting = "main" => pc["main"] \in {"wait", "returned"}
    /\ once = "unused" /\ peer # "new" => \E cb \in Callbacks : pc[cb] = "once"
    /\ once = "running" => \E cb \in Callbacks : pc[cb] = "complete"
    /\ once = "spent" => pc["main"] = "returned"

LEMMA WaitInvInductive ==
    ASSUME TypeOK, WaitInv, [Next]_vars
    PROVE  WaitInv'
<1> USE DEF TypeOK, WaitInv, Go, AfterSend, Goroutines, Senders, Callbacks, NoOne, envVars,
        fwdVars, pollVars
<1>1. ASSUME NEW g \in Senders, AcquireSend(g) PROVE WaitInv'
  BY <1>1, AfterSendType DEF AcquireSend
<1>2. ASSUME NEW g \in Senders, SendMsg(g) PROVE WaitInv'
  BY <1>2, AfterSendType DEF SendMsg
<1>3. ASSUME NEW g \in {"recv", "failed", "closed"}, CloseSendCh(g) PROVE WaitInv'
  BY <1>3 DEF CloseSendCh
<1>4. CASE RecvHandle
  BY <1>4 DEF RecvHandle, OnOffer, OnIceCandidate, OnRecvError
<1>5. CASE RecvClosed
  BY <1>5 DEF RecvClosed
<1>6. ASSUME NEW cb \in Callbacks, OnComplete(cb) PROVE WaitInv'
  BY <1>6 DEF OnComplete, AfterComplete
<1>7. ASSUME NEW cb \in Callbacks, Return(cb) PROVE WaitInv'
  BY <1>7 DEF Return, AfterComplete
<1>8. CASE PollFetch
  BY <1>8 DEF PollFetch
<1>9. CASE PollError
  BY <1>9 DEF PollError
<1>10. CASE PollSkip
  BY <1>10 DEF PollSkip, AfterMessage
<1>11. CASE PollDeliver
  BY <1>11 DEF PollDeliver, AfterMessage
<1>12. CASE PollStop
  BY <1>12 DEF PollStop
<1>13. CASE PollTimer
  BY <1>13 DEF PollTimer
<1>14. CASE FwdPost
  BY <1>14 DEF FwdPost, Reaches
<1>15. CASE FwdError
  BY <1>15 DEF FwdError, Reaches
<1>16. CASE FwdClosed
  BY <1>16 DEF FwdClosed
<1>17. CASE DeviceSends
  BY <1>17 DEF DeviceSends
<1>18. CASE IceCandidate
  BY <1>18 DEF IceCandidate
<1>19. CASE Peer
  BY <1>19 DEF Peer, PeerConnects, PeerFails, PeerCloses, PeerBecomes
<1>20. CASE UNCHANGED vars
  BY <1>20 DEF vars
<1>21. QED
  BY <1>1, <1>2, <1>3, <1>4, <1>5, <1>6, <1>7, <1>8, <1>9, <1>10, <1>11, <1>12,
     <1>13, <1>14, <1>15, <1>16, <1>17, <1>18, <1>19, <1>20
     DEF Next, Poll, Fwd

(* NewConnection does not wait for a result nobody will bring: not even     *)
(* when the connection fails or closes before the callback of its success   *)
(* has run.                                                                 *)
THEOREM ResultIsComing == Spec => []ResultComes
<1>1. Init => WaitInv
  BY DEF Init, WaitInv, Goroutines, Senders, Callbacks, NoOne
<1>2. TypeOK /\ WaitInv /\ [Next]_vars => WaitInv'
  BY WaitInvInductive
<1>3. TypeOK /\ WaitInv => ResultComes
  BY DEF TypeOK, WaitInv, ResultComes, Callbacks
<1>4. QED
  BY <1>1, <1>2, <1>3, Typing, PTL DEF Spec

=============================================================================
