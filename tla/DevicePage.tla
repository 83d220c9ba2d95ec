------------------------------ MODULE DevicePage ------------------------------
(***************************************************************************)
(* The connector of the device page, PollingConnector in                   *)
(* src/web/intercept/js/server_connector.js.                               *)
(*                                                                         *)
(* The page calls requestDevice, more than once if it likes, and gets the  *)
(* messages of the device through a callback.  The functions are async:    *)
(* between two awaits other calls run.  One routine polls the connection   *)
(* the URLs name when its timer fires.  Nothing catches what it throws: a  *)
(* poll that fails, an answer that is no list of messages or a callback    *)
(* that throws ends it, and #pollerSchedule keeps its stale value.  How    *)
(* long the timer is set for is left out.                                  *)
(***************************************************************************)
EXTENDS Naturals, Sequences

CONSTANTS
    Calls,       \* bound: the calls of requestDevice, and so the connections
    MaxMessages  \* bound: the messages the device sends in a connection

NoConn == "undefined"

ASSUME DevicePageAssumption == MaxMessages \in Nat /\ NoConn \notin Calls

Conns  == Calls \cup {NoConn}

VARIABLES
    call,       \* where each call of requestDevice is
    config,     \* whether #config is known
    conn,       \* the connection of #messagesUrl: that of the call, or NoConn
    received,   \* #messagesReceived
    routine,    \* the polling routine each call has started
    poll,       \* the connection and the start of the request it has sent
    listener,   \* whether onDeviceMsg was called
    sent,       \* the messages the device has sent in each connection
    handled     \* the messages the callbacks got, in order

vars == <<call, config, conn, received, routine, poll, listener, sent, handled>>

Set(f, r, to) == [f EXCEPT ![r] = to]

-----------------------------------------------------------------------------
OnDeviceMsg ==
    /\ ~listener
    /\ listener' = TRUE
    /\ UNCHANGED <<call, config, conn, received, routine, poll, sent, handled>>

(* requestDevice up to its first await. *)
RequestDevice(r) ==
    /\ call[r] = "none"
    /\ call' = Set(call, r, IF config THEN "connect" ELSE "config")
    /\ UNCHANGED <<config, conn, received, routine, poll, listener, sent, handled>>

GetConfig(r) ==
    /\ call[r] = "config"
    /\ \/ call' = Set(call, r, "connect") /\ config' = TRUE
       \/ call' = Set(call, r, "rejected") /\ UNCHANGED config
    /\ UNCHANGED <<conn, received, routine, poll, listener, sent, handled>>

(* Mutant of StartPolling: a routine is started each time. *)
StartPollingAgain(r) == routine' = Set(routine, r, "timer")

(* startPolling: only when #pollerSchedule was never set. *)
StartPolling(r) ==
    routine' = (IF \A q \in Calls : routine[q] = "none"
                THEN Set(routine, r, "timer") ELSE routine)

(* The rest of requestDevice.  An answer with an error is taken for one     *)
(* that names the connection: then the URLs name none.                     *)
Connect(r) ==
    /\ call[r] = "connect"
    /\ \/ /\ conn' \in {r, NoConn}
          /\ StartPolling(r)
          /\ call' = Set(call, r, "resolved")
       \/ /\ call' = Set(call, r, "rejected")
          /\ UNCHANGED <<conn, routine>>
    /\ UNCHANGED <<config, received, poll, listener, sent, handled>>

-----------------------------------------------------------------------------
(* pollerRoutine *)

(* The timer fires: pollMessages sends its request. *)
Poll(r) ==
    /\ routine[r] = "timer"
    /\ poll' = Set(poll, r, [conn |-> conn, start |-> received])
    /\ routine' = Set(routine, r, "polling")
    /\ UNCHANGED <<call, config, conn, received, listener, sent, handled>>

(* The messages the server answers a poll with. *)
Messages(p) ==
    [i \in 1..(IF sent[p.conn] > p.start THEN sent[p.conn] - p.start ELSE 0) |->
        [conn |-> p.conn, index |-> p.start + i, heard |-> listener]]

(* Mutant of Counted: a message is counted when it arrives and again when   *)
(* it is handled.                                                          *)
CountedTwice(new) == received + 2 * Len(new)

Counted(new) == received + Len(new)

(* Mutant of Rearmed: the timer is set after new messages only. *)
RearmedForSome(new) == IF new = << >> THEN "none" ELSE "timer"

Rearmed(new) == "timer"

(* The answer counts as received, then the callback gets one message after  *)
(* the other; the timer is set unless the callback throws.                 *)
Answer(r) ==
    /\ routine[r] = "polling" /\ poll[r].conn # NoConn
    /\ LET new == Messages(poll[r])
       IN  /\ received' = Counted(new)
           /\ \/ /\ handled' = handled \o new
                 /\ routine' = Set(routine, r, Rearmed(new))
              \/ /\ listener
                 /\ \E last \in 1..Len(new) :
                    /\ handled' = handled \o SubSeq(new, 1, last)
                    /\ routine' = Set(routine, r, "ended")
    /\ UNCHANGED <<call, config, conn, poll, listener, sent>>

PollFails(r) ==
    /\ routine[r] = "polling"
    /\ routine' = Set(routine, r, "ended")
    /\ UNCHANGED <<call, config, conn, received, poll, listener, sent, handled>>

(* The device sends a message, which the server keeps for the connection. *)
DeviceSends(r) ==
    /\ call[r] = "resolved"
    /\ sent[r] < MaxMessages
    /\ sent' = Set(sent, r, sent[r] + 1)
    /\ UNCHANGED <<call, config, conn, received, routine, poll, listener, handled>>

-----------------------------------------------------------------------------
Init ==
    /\ call = [r \in Calls |-> "none"]
    /\ config = FALSE
    /\ conn = NoConn
    /\ received = 0
    /\ routine = [r \in Calls |-> "none"]
    /\ poll = [r \in Calls |-> [conn |-> NoConn, start |-> 0]]
    /\ listener = FALSE
    /\ sent = [r \in Calls |-> 0]
    /\ handled = << >>

Routine(r) == Poll(r) \/ Answer(r) \/ PollFails(r)

Next ==
    \/ OnDeviceMsg
    \/ \E r \in Calls :
        RequestDevice(r) \/ GetConfig(r) \/ Connect(r) \/ Routine(r) \/ DeviceSends(r)

Spec == Init /\ [][Next]_vars

(* Timers fire and requests end. *)
FairSpec == Spec /\ \A r \in Calls : WF_vars(Routine(r))

-----------------------------------------------------------------------------
(* Properties *)

Message == [conn : Calls, index : 1..MaxMessages, heard : BOOLEAN]

(* Every variable has its type: the type invariant of the module. *)
TypeOK ==
    /\ call \in [Calls -> {"none", "config", "connect", "resolved", "rejected"}]
    /\ config \in BOOLEAN
    /\ conn \in Conns
    /\ received \in 0..MaxMessages
    /\ routine \in [Calls -> {"none", "timer", "polling", "ended"}]
    /\ poll \in [Calls -> [conn : Conns, start : 0..MaxMessages]]
    /\ listener \in BOOLEAN
    /\ sent \in [Calls -> 0..MaxMessages]
    /\ handled \in Seq(Message)

(* The messages of a connection that reached the page's listener.          *)
Taken(r) ==
    {handled[i].index : i \in {j \in DOMAIN handled : handled[j].conn = r /\ handled[j].heard}}

Promise == INSTANCE Mailbox
    WITH Conns <- Calls, log <- sent, taken <- [r \in Calls |-> Taken(r)]

(* The listener gets the messages of a connection in the order of the       *)
(* device's log, each once, and none is passed over after the first,        *)
(* whatever calls of requestDevice overlap with the polling.  Only what is  *)
(* before the first is lost: a new connection starts where the one before   *)
(* it ended, and the comment of onDeviceMsg names the race with the         *)
(* listener.                                                               *)
KeepsMailbox == Promise!Spec

(* A message of the connection in use reaches the listener, unless one of   *)
(* another connection was counted in its place, another connection is used, *)
(* or the routine has ended: nothing starts it again.                       *)
Delivered ==
    \A r \in Calls : \A k \in 1..MaxMessages :
        conn = r /\ listener /\ sent[r] >= k /\ received < k ~>
            \/ k \in Taken(r)
            \/ k \in DOMAIN handled /\ handled[k].conn # r
            \/ conn # r
            \/ \E q \in Calls : routine[q] = "ended"

=============================================================================
