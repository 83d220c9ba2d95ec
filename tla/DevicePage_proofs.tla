--------------------------- MODULE DevicePage_proofs ---------------------------
(***************************************************************************)
(* Theorems about DevicePage, for any number of calls and messages: the    *)
(* polling of overlapping calls implements Mailbox.                        *)
(***************************************************************************)
EXTENDS DevicePage, SequenceTheorems, TLAPS

Active(r) == routine[r] \in {"timer", "polling"}

(***************************************************************************)
(* One routine polls; what it asks for starts where the count is, and the  *)
(* count is what the callbacks got, unless the routine has ended.          *)
(***************************************************************************)
RoutineInv ==
    /\ \A q, r \in Calls : routine[q] # "none" /\ routine[r] # "none" => q = r
    /\ (\A r \in Calls : routine[r] = "none") => handled = << >> /\ received = 0
    /\ \A r \in Calls :
        /\ Active(r) => Len(handled) = received
        /\ routine[r] = "polling" => poll[r].start = received

(* The k-th message the callbacks get is the k-th of its connection, and    *)
(* once the listener is there it gets every one.                           *)
InStep ==
    \A i \in DOMAIN handled :
        /\ handled[i].index = i
        /\ handled[i].heard => listener
        /\ \A j \in i..Len(handled) : handled[i].heard => handled[j].heard

(* A connection that was left is not returned to. *)
ConnInv ==
    /\ conn \in Calls => call[conn] = "resolved"
    /\ \A r \in Calls : routine[r] = "polling" /\ poll[r].conn \in Calls =>
            call[poll[r].conn] = "resolved"
    /\ \A i \in DOMAIN handled :
        /\ call[handled[i].conn] = "resolved"
        /\ handled[i].conn # handled[Len(handled)].conn =>
              /\ conn # handled[i].conn
              /\ \A r \in Calls : routine[r] = "polling" => poll[r].conn # handled[i].conn
        /\ \A r \in Calls :
              routine[r] = "polling" /\ poll[r].conn # handled[i].conn =>
                  conn # handled[i].conn

IInv == TypeOK /\ RoutineInv /\ InStep /\ ConnInv

-----------------------------------------------------------------------------
(* What the server answers, and what an answer adds to the messages handled *)

LEMMA MessagesAre ==
    ASSUME TypeOK, NEW c \in Calls, NEW s \in 0..MaxMessages
    PROVE  LET new == Messages([conn |-> c, start |-> s])
           IN  /\ new \in Seq(Message) /\ Len(new) \in Nat
               /\ Len(new) = (IF sent[c] > s THEN sent[c] - s ELSE 0)
               /\ \A i \in 1..Len(new) :
                    new[i] = [conn |-> c, index |-> s + i, heard |-> listener]
<1> DEFINE n == IF sent[c] > s THEN sent[c] - s ELSE 0
           new == Messages([conn |-> c, start |-> s])
<1>1. sent[c] \in 0..MaxMessages /\ MaxMessages \in Nat /\ listener \in BOOLEAN
  BY DevicePageAssumption DEF TypeOK, DevicePageAssumption
<1>2. n \in Nat /\ s + n <= MaxMessages
  BY <1>1
<1>3. new = [i \in 1..n |-> [conn |-> c, index |-> s + i, heard |-> listener]]
  BY DEF Messages
<1> HIDE DEF n
<1>4. \A i \in 1..n : [conn |-> c, index |-> s + i, heard |-> listener] \in Message
  BY <1>1, <1>2 DEF Message
<1>5. new \in Seq(Message) /\ Len(new) = n
  <2>1. new \in [1..n -> Message]
    BY <1>3, <1>4
  <2> HIDE DEF new
  <2>2. new \in Seq(Message)
    BY <1>2, <2>1
  <2>3. Len(new) \in Nat /\ DOMAIN new = 1..Len(new)
    BY <2>2, LenProperties
  <2>4. QED
    BY <1>2, <2>1, <2>2, <2>3
<1>6. QED
  BY <1>2, <1>3, <1>5 DEF n

LEMMA AppendStart ==
    ASSUME NEW S, NEW a \in Seq(S), NEW b \in Seq(S), NEW k \in 0..Len(b)
    PROVE  LET ab == a \o SubSeq(b, 1, k)
           IN  /\ ab \in Seq(S) /\ Len(ab) = Len(a) + k
               /\ \A i \in 1..Len(a) : ab[i] = a[i]
               /\ \A i \in 1..(Len(a) + k) : i > Len(a) =>
                    i - Len(a) \in 1..Len(b) /\ ab[i] = b[i - Len(a)]
<1> DEFINE part == SubSeq(b, 1, k)
<1>1. /\ part \in Seq(S) /\ Len(part) = k
      /\ \A i \in 1..k : part[i] = b[i]
  OBVIOUS
<1> HIDE DEF part
<1>2. (a \o part) \in Seq(S) /\ Len(a \o part) = Len(a) + k
  BY <1>1, ConcatProperties
<1>3. \A i \in 1..Len(a) : (a \o part)[i] = a[i]
  BY <1>1
<1>4. ASSUME NEW i \in 1..(Len(a) + k), i > Len(a)
      PROVE  i - Len(a) \in 1..Len(b) /\ (a \o part)[i] = b[i - Len(a)]
  <2>1. i - Len(a) \in 1..k
    BY <1>4
  <2>2. (a \o part)[i] = part[i - Len(a)]
    BY <1>1, <1>4
  <2>3. QED
    BY <1>1, <2>1, <2>2
<1>5. QED
  BY <1>2, <1>3, <1>4 DEF part

(* An answer hands over k messages that follow those handled; all that were *)
(* counted, unless the callback throws.                                    *)
LEMMA AnswerAdds ==
    ASSUME TypeOK, RoutineInv, NEW r \in Calls, Answer(r)
    PROVE  /\ poll[r].conn \in Calls /\ Len(handled) = received /\ received' \in 0..MaxMessages
           /\ \E k \in Nat :
             /\ handled' \in Seq(Message) /\ Len(handled') = received + k
             /\ \A i \in 1..received : handled'[i] = handled[i]
             /\ \A i \in 1..(received + k) : i > received =>
                    handled'[i] = [conn |-> poll[r].conn, index |-> i, heard |-> listener]
             /\ k > 0 => received + k <= sent[poll[r].conn]
             /\ \/ routine' = [routine EXCEPT ![r] = "timer"] /\ received' = received + k
                \/ routine' = [routine EXCEPT ![r] = "ended"]
<1> DEFINE c == poll[r].conn
           new == Messages(poll[r])
<1>1. /\ routine[r] = "polling" /\ c \in Calls /\ poll[r] = [conn |-> c, start |-> received]
      /\ Len(handled) = received /\ received \in 0..MaxMessages /\ handled \in Seq(Message)
      /\ MaxMessages \in Nat /\ sent[c] \in 0..MaxMessages
  BY DevicePageAssumption
     DEF Answer, TypeOK, RoutineInv, Active, Conns, DevicePageAssumption
<1>2. /\ new \in Seq(Message) /\ Len(new) \in Nat
      /\ Len(new) = (IF sent[c] > received THEN sent[c] - received ELSE 0)
      /\ \A i \in 1..Len(new) :
            new[i] = [conn |-> c, index |-> received + i, heard |-> listener]
  <2>1. new = Messages([conn |-> c, start |-> received])
    BY <1>1
  <2> HIDE DEF c, new
  <2>2. QED
    BY <1>1, <2>1, MessagesAre
<1>3. /\ received' = received + Len(new)
      /\ \/ handled' = handled \o new /\ routine' = [routine EXCEPT ![r] = "timer"]
         \/ \E last \in 1..Len(new) :
              handled' = handled \o SubSeq(new, 1, last)
              /\ routine' = [routine EXCEPT ![r] = "ended"]
  BY DEF Answer, Counted, Rearmed, Set
<1> HIDE DEF c, new
<1>4. PICK k \in 0..Len(new) :
        /\ handled' = handled \o SubSeq(new, 1, k)
        /\ \/ routine' = [routine EXCEPT ![r] = "timer"] /\ received' = received + k
           \/ routine' = [routine EXCEPT ![r] = "ended"]
  <2>1. CASE handled' = handled \o new /\ routine' = [routine EXCEPT ![r] = "timer"]
    <3>1. new = SubSeq(new, 1, Len(new)) /\ Len(new) \in 0..Len(new)
      BY <1>2
    <3>2. QED
      BY <1>3, <2>1, <3>1
  <2>2. CASE \E last \in 1..Len(new) :
                  handled' = handled \o SubSeq(new, 1, last)
                  /\ routine' = [routine EXCEPT ![r] = "ended"]
    <3>1. 1..Len(new) \subseteq 0..Len(new)
      BY <1>2
    <3>2. QED
      BY <2>2, <3>1
  <2>3. QED
    BY <1>3, <2>1, <2>2
<1>5. /\ handled' \in Seq(Message) /\ Len(handled') = received + k
      /\ \A i \in 1..received : handled'[i] = handled[i]
      /\ \A i \in 1..(received + k) : i > received =>
            i - received \in 1..Len(new) /\ handled'[i] = new[i - received]
  <2> DEFINE ab == handled \o SubSeq(new, 1, k)
  <2>1. /\ ab \in Seq(Message) /\ Len(ab) = Len(handled) + k
        /\ \A i \in 1..Len(handled) : ab[i] = handled[i]
        /\ \A i \in 1..(Len(handled) + k) : i > Len(handled) =>
              i - Len(handled) \in 1..Len(new) /\ ab[i] = new[i - Len(handled)]
    <3>1. handled \in Seq(Message) /\ new \in Seq(Message) /\ k \in 0..Len(new)
      BY <1>1, <1>2
    <3>2. QED
      BY <3>1, AppendStart
  <2>2. handled' = ab /\ Len(handled) = received
    BY <1>1, <1>4
  <2> HIDE DEF ab
  <2>3. QED
    BY <2>1, <2>2
<1>6. \A i \in 1..(received + k) : i > received =>
          handled'[i] = [conn |-> c, index |-> i, heard |-> listener]
  <2> SUFFICES ASSUME NEW i \in 1..(received + k), i > received
               PROVE  handled'[i] = [conn |-> c, index |-> i, heard |-> listener]
    OBVIOUS
  <2>1. received + (i - received) = i
    BY <1>1
  <2>2. QED
    BY <1>2, <1>5, <2>1
<1>7. k \in Nat /\ (k > 0 => received + k <= sent[c])
  BY <1>1, <1>2
<1>8. received' \in 0..MaxMessages
  BY <1>1, <1>2, <1>3
<1>9. QED
  BY <1>1, <1>4, <1>5, <1>6, <1>7, <1>8 DEF c

-----------------------------------------------------------------------------
LEMMA TypeInductive ==
    ASSUME TypeOK, RoutineInv, [Next]_vars
    PROVE  TypeOK'
<1> USE DEF TypeOK, Set, Conns
<1>1. CASE OnDeviceMsg
  BY <1>1 DEF OnDeviceMsg
<1>2. ASSUME NEW r \in Calls, RequestDevice(r) PROVE TypeOK'
  BY <1>2 DEF RequestDevice
<1>3. ASSUME NEW r \in Calls, GetConfig(r) PROVE TypeOK'
  BY <1>3 DEF GetConfig
<1>4. ASSUME NEW r \in Calls, Connect(r) PROVE TypeOK'
  <2>1. routine' \in [Calls -> {"none", "timer", "polling", "ended"}]
    BY <1>4 DEF Connect, StartPolling
  <2>2. QED
    BY <1>4, <2>1 DEF Connect
<1>5. ASSUME NEW r \in Calls, Poll(r) PROVE TypeOK'
  BY <1>5 DEF Poll
<1>6. ASSUME NEW r \in Calls, Answer(r) PROVE TypeOK'
  <2>1. received' \in 0..MaxMessages /\ handled' \in Seq(Message)
        /\ routine' \in [Calls -> {"none", "timer", "polling", "ended"}]
    BY <1>6, AnswerAdds
  <2>2. UNCHANGED <<call, config, conn, poll, listener, sent>>
    BY <1>6 DEF Answer
  <2>3. QED
    BY <2>1, <2>2
<1>7. ASSUME NEW r \in Calls, PollFails(r) PROVE TypeOK'
  BY <1>7 DEF PollFails
<1>8. ASSUME NEW r \in Calls, DeviceSends(r) PROVE TypeOK'
  BY <1>8, DevicePageAssumption DEF DeviceSends, DevicePageAssumption
<1>9. CASE UNCHANGED vars
  BY <1>9 DEF vars
<1>10. QED
  BY <1>1, <1>2, <1>3, <1>4, <1>5, <1>6, <1>7, <1>8, <1>9 DEF Next, Routine

LEMMA AnswerKeeps ==
    ASSUME TypeOK, RoutineInv, NEW r \in Calls, Answer(r)
    PROVE  /\ received \in Nat /\ Len(handled) = received
           /\ routine[r] = "polling" /\ poll[r].conn \in Calls
           /\ sent[poll[r].conn] \in Nat
           /\ UNCHANGED <<call, conn, poll, listener, sent>>
<1>1. Len(handled) = received /\ poll[r].conn \in Calls
  BY AnswerAdds
<1>2. received \in Nat
  BY DevicePageAssumption DEF DevicePageAssumption, TypeOK
<1>3. sent[poll[r].conn] \in Nat
  BY <1>1, DevicePageAssumption DEF DevicePageAssumption, TypeOK
<1>4. routine[r] = "polling" /\ UNCHANGED <<call, conn, poll, listener, sent>>
  BY DEF Answer
<1>5. QED
  BY <1>1, <1>2, <1>3, <1>4

LEMMA RoutineInductive ==
    ASSUME TypeOK, RoutineInv, [Next]_vars
    PROVE  RoutineInv'
<1> USE DEF TypeOK, RoutineInv, Active, Set
<1>1. CASE OnDeviceMsg
  BY <1>1 DEF OnDeviceMsg
<1>2. ASSUME NEW r \in Calls, RequestDevice(r) PROVE RoutineInv'
  BY <1>2 DEF RequestDevice
<1>3. ASSUME NEW r \in Calls, GetConfig(r) PROVE RoutineInv'
  BY <1>3 DEF GetConfig
<1>4. ASSUME NEW r \in Calls, Connect(r) PROVE RoutineInv'
  <2>1. UNCHANGED <<received, poll, handled>>
    BY <1>4 DEF Connect
  <2>2. CASE \A q \in Calls : routine[q] = "none"
    <3>1. routine' = [routine EXCEPT ![r] = "timer"] \/ routine' = routine
      BY <1>4, <2>2 DEF Connect, StartPolling
    <3>2. Len(handled) = received
      BY <2>2, EmptySeq
    <3>3. QED
      BY <2>1, <2>2, <3>1, <3>2
  <2>3. CASE ~ \A q \in Calls : routine[q] = "none"
    <3>1. routine' = routine
      BY <1>4, <2>3 DEF Connect, StartPolling
    <3>2. QED
      BY <2>1, <3>1
  <2>4. QED
    BY <2>2, <2>3
<1>5. ASSUME NEW r \in Calls, Poll(r) PROVE RoutineInv'
  BY <1>5 DEF Poll
<1>6. ASSUME NEW r \in Calls, Answer(r) PROVE RoutineInv'
  <2>1. routine[r] = "polling"
    BY <1>6 DEF Answer
  <2>2. \/ routine' = [routine EXCEPT ![r] = "timer"] /\ Len(handled') = received'
        \/ routine' = [routine EXCEPT ![r] = "ended"]
    BY <1>6, AnswerAdds
  <2>3. \A q \in Calls \ {r} : routine[q] = "none"
    BY <2>1
  <2>4. QED
    BY <2>1, <2>2, <2>3
<1>7. ASSUME NEW r \in Calls, PollFails(r) PROVE RoutineInv'
  BY <1>7 DEF PollFails
<1>8. ASSUME NEW r \in Calls, DeviceSends(r) PROVE RoutineInv'
  BY <1>8 DEF DeviceSends
<1>9. CASE UNCHANGED vars
  BY <1>9 DEF vars
<1>10. QED
  BY <1>1, <1>2, <1>3, <1>4, <1>5, <1>6, <1>7, <1>8, <1>9 DEF Next, Routine

LEMMA RoutineInvariant == Spec => [](TypeOK /\ RoutineInv)
<1>1. Init => TypeOK /\ RoutineInv
  <2> SUFFICES ASSUME Init PROVE TypeOK /\ RoutineInv
    OBVIOUS
  <2>1. 0 \in 0..MaxMessages
    BY DevicePageAssumption DEF DevicePageAssumption
  <2>2. handled \in Seq(Message)
    BY EmptySeq DEF Init
  <2>3. poll \in [Calls -> [conn : Conns, start : 0..MaxMessages]]
    BY <2>1 DEF Init, Conns
  <2>4. TypeOK
    BY <2>1, <2>2, <2>3 DEF Init, TypeOK, Conns
  <2>5. RoutineInv
    BY DEF Init, RoutineInv, Active
  <2>6. QED
    BY <2>4, <2>5
<1>2. TypeOK /\ RoutineInv /\ [Next]_vars => (TypeOK /\ RoutineInv)'
  BY TypeInductive, RoutineInductive
<1>3. QED
  BY <1>1, <1>2, PTL DEF Spec

(* Type correctness: in every reachable state each variable has the type   *)
(* TypeOK gives it; the count stays within what was sent.                  *)
THEOREM Typing == Spec => []TypeOK
BY RoutineInvariant, PTL

-----------------------------------------------------------------------------
LEMMA InStepInductive ==
    ASSUME TypeOK, RoutineInv, InStep, [Next]_vars
    PROVE  InStep'
<1>1. CASE UNCHANGED <<handled, listener>>
  BY <1>1 DEF InStep
<1>2. CASE OnDeviceMsg
  BY <1>2 DEF InStep, OnDeviceMsg
<1>3. ASSUME NEW r \in Calls, Answer(r) PROVE InStep'
  <2> DEFINE s == received
  <2>1. PICK k \in Nat :
          /\ handled' \in Seq(Message) /\ Len(handled') = s + k
          /\ \A i \in 1..s : handled'[i] = handled[i]
          /\ \A i \in 1..(s + k) : i > s =>
                handled'[i] = [conn |-> poll[r].conn, index |-> i, heard |-> listener]
    BY <1>3, AnswerAdds
  <2>2. s \in Nat /\ Len(handled) = s /\ DOMAIN handled = 1..s
        /\ DOMAIN handled' = 1..(s + k) /\ listener' = listener
    <3>1. s \in Nat /\ Len(handled) = s /\ listener' = listener
      BY <1>3, AnswerKeeps
    <3>2. DOMAIN handled = 1..s
      BY <3>1, LenProperties DEF TypeOK
    <3>3. DOMAIN handled' = 1..(s + k)
      BY <2>1, LenProperties
    <3>4. QED
      BY <3>1, <3>2, <3>3
  <2>3. ASSUME NEW i \in 1..(s + k)
        PROVE  handled'[i].index = i /\ (handled'[i].heard => listener)
    <3>1. CASE i <= s
      BY <2>1, <2>2, <3>1 DEF InStep
    <3>2. CASE i > s
      BY <2>1, <2>2, <3>2
    <3>3. QED
      BY <2>2, <3>1, <3>2
  <2>4. ASSUME NEW i \in 1..(s + k), NEW j \in i..(s + k), handled'[i].heard
        PROVE  handled'[j].heard
    <3>1. CASE j <= s
      <4>1. i \in 1..s /\ j \in i..s
        BY <2>2, <3>1
      <4>2. handled[i].heard => handled[j].heard
        BY <2>2, <4>1 DEF InStep
      <4>3. j \in 1..s
        BY <2>2, <4>1
      <4>4. QED
        BY <2>1, <2>4, <4>1, <4>2, <4>3
    <3>2. CASE j > s
      <4>1. listener
        BY <2>3, <2>4
      <4>2. j \in 1..(s + k)
        BY <2>2
      <4>3. QED
        BY <2>1, <3>2, <4>1, <4>2
    <3>3. QED
      BY <2>2, <3>1, <3>2
  <2>5. QED
    BY <2>1, <2>2, <2>3, <2>4 DEF InStep
<1>4. QED
  BY <1>1, <1>2, <1>3 DEF Next, Routine, RequestDevice, GetConfig, Connect, Poll, PollFails,
     DeviceSends, vars

LEMMA ConnInductive ==
    ASSUME TypeOK, RoutineInv, ConnInv, [Next]_vars
    PROVE  ConnInv'
<1>0. /\ NoConn \notin Calls
      /\ \A i \in DOMAIN handled : handled[i].conn \in Calls
  <2>1. ASSUME NEW i \in DOMAIN handled PROVE handled[i].conn \in Calls
    <3>1. handled[i] \in Message
      BY LenProperties DEF TypeOK
    <3>2. QED
      BY <3>1 DEF Message
  <2>2. QED
    BY <2>1, DevicePageAssumption DEF DevicePageAssumption
<1>1. CASE OnDeviceMsg
  BY <1>1 DEF OnDeviceMsg, ConnInv
<1>2. ASSUME NEW r \in Calls, RequestDevice(r) \/ GetConfig(r) PROVE ConnInv'
  <2>1. call[r] # "resolved" /\ UNCHANGED <<conn, routine, poll, handled>>
    BY <1>2 DEF RequestDevice, GetConfig
  <2>2. \A q \in Calls : call[q] = "resolved" => call'[q] = "resolved"
    BY <1>2, <2>1 DEF RequestDevice, GetConfig, Set, TypeOK
  <2>3. QED
    BY <1>0, <2>1, <2>2 DEF ConnInv, TypeOK, Conns
<1>3. ASSUME NEW r \in Calls, Connect(r) PROVE ConnInv'
  <2>1. call[r] = "connect" /\ UNCHANGED <<poll, handled>>
    BY <1>3 DEF Connect
  <2>2. \A q \in Calls : call[q] = "resolved" => q # r /\ call'[q] = "resolved"
    BY <1>3, <2>1 DEF Connect, Set, TypeOK
  <2>3. \A q \in Calls : routine'[q] = "polling" => routine[q] = "polling"
    BY <1>3 DEF Connect, StartPolling, Set, TypeOK
  <2>4. conn' = conn \/ conn' = NoConn \/ (conn' = r /\ call'[r] = "resolved")
    BY <1>3 DEF Connect, Set, TypeOK
  <2>5. conn' \in Calls => call'[conn'] = "resolved"
    BY <1>0, <2>2, <2>4 DEF ConnInv
  <2>6. \A i \in DOMAIN handled : conn # handled[i].conn => conn' # handled[i].conn
    BY <1>0, <2>2, <2>4 DEF ConnInv
  <2>7. QED
    BY <1>0, <2>1, <2>2, <2>3, <2>5, <2>6 DEF ConnInv, TypeOK
<1>4. ASSUME NEW r \in Calls, Poll(r) PROVE ConnInv'
  <2>1. UNCHANGED <<call, conn, handled>>
    BY <1>4 DEF Poll
  <2>2. \A q \in Calls :
          /\ routine'[q] = "polling" => q = r \/ routine[q] = "polling"
          /\ poll'[q].conn = (IF q = r THEN conn ELSE poll[q].conn)
    BY <1>4 DEF Poll, Set, TypeOK
  <2>3. QED
    BY <2>1, <2>2 DEF ConnInv
<1>5. ASSUME NEW r \in Calls, Answer(r) PROVE ConnInv'
  <2> DEFINE s == received
             c == poll[r].conn
  <2>1. PICK k \in Nat :
          /\ handled' \in Seq(Message) /\ Len(handled') = s + k
          /\ \A i \in 1..s : handled'[i] = handled[i]
          /\ \A i \in 1..(s + k) : i > s =>
                handled'[i] = [conn |-> c, index |-> i, heard |-> listener]
    BY <1>5, AnswerAdds
  <2>2. /\ s \in Nat /\ Len(handled) = s /\ routine[r] = "polling" /\ c \in Calls
        /\ UNCHANGED <<call, conn, poll>>
    BY <1>5, AnswerKeeps
  <2>3. DOMAIN handled = 1..s /\ DOMAIN handled' = 1..(s + k)
    BY <2>1, <2>2, LenProperties DEF TypeOK
  <2>4. \A q \in Calls : routine'[q] # "polling"
    <3>1. routine' = [routine EXCEPT ![r] = "timer"] \/ routine' = [routine EXCEPT ![r] = "ended"]
      BY <1>5, AnswerAdds
    <3>2. \A q \in Calls \ {r} : routine[q] = "none"
      BY <2>2 DEF RoutineInv
    <3>3. QED
      BY <3>1, <3>2 DEF TypeOK
  <2>5. ASSUME NEW i \in 1..(s + k)
        PROVE  /\ call[handled'[i].conn] = "resolved"
               /\ handled'[i].conn # handled'[s + k].conn => conn # handled'[i].conn
    <3>1. CASE i > s
      <4>1. handled'[i].conn = c /\ s + k \in 1..(s + k) /\ s + k > s
        BY <2>1, <2>2, <3>1
      <4>2. handled'[s + k].conn = c
        BY <2>1, <4>1
      <4>3. QED
        BY <2>2, <4>1, <4>2 DEF ConnInv
    <3>2. CASE i <= s
      <4>1. i \in 1..s /\ handled'[i] = handled[i]
        BY <2>1, <2>2, <3>2
      <4>2. call[handled[i].conn] = "resolved"
        BY <2>3, <4>1 DEF ConnInv
      <4>3. CASE k = 0
        <5>1. s \in 1..s /\ s + k = s
          BY <2>2, <4>1, <4>3
        <5>2. handled'[s + k] = handled[Len(handled)]
          BY <2>1, <2>2, <5>1
        <5>3. QED
          BY <2>3, <4>1, <4>2, <5>2 DEF ConnInv
      <4>4. CASE k > 0
        <5>1. s + k \in 1..(s + k) /\ s + k > s
          BY <2>2, <4>4
        <5>2. handled'[s + k].conn = c
          BY <2>1, <5>1
        <5>3. QED
          BY <2>2, <2>3, <4>1, <4>2, <5>2 DEF ConnInv
      <4>5. QED
        BY <4>3, <4>4
    <3>3. QED
      BY <2>2, <3>1, <3>2
  <2>6. QED
    BY <2>1, <2>2, <2>3, <2>4, <2>5 DEF ConnInv
<1>6. ASSUME NEW r \in Calls, PollFails(r) PROVE ConnInv'
  <2>1. UNCHANGED <<call, conn, poll, handled>>
    BY <1>6 DEF PollFails
  <2>2. \A q \in Calls : routine'[q] = "polling" => routine[q] = "polling"
    BY <1>6 DEF PollFails, Set, TypeOK
  <2>3. QED
    BY <2>1, <2>2 DEF ConnInv
<1>7. ASSUME NEW r \in Calls, DeviceSends(r) PROVE ConnInv'
  BY <1>7 DEF DeviceSends, ConnInv
<1>8. CASE UNCHANGED vars
  BY <1>8 DEF vars, ConnInv
<1>9. QED
  BY <1>1, <1>2, <1>3, <1>4, <1>5, <1>6, <1>7, <1>8 DEF Next, Routine

LEMMA Invariance == Spec => []IInv
<1>1. Init => InStep /\ ConnInv
  <2> SUFFICES ASSUME Init PROVE InStep /\ ConnInv
    OBVIOUS
  <2>1. DOMAIN handled = {}
    BY DEF Init
  <2>2. QED
    BY <2>1, DevicePageAssumption DEF Init, InStep, ConnInv, DevicePageAssumption
<1>2. TypeOK /\ RoutineInv /\ InStep /\ ConnInv /\ [Next]_vars => (InStep /\ ConnInv)'
  BY InStepInductive, ConnInductive
<1>3. QED
  BY <1>1, <1>2, RoutineInvariant, PTL DEF Spec, IInv

-----------------------------------------------------------------------------
(* The refinement *)

Heard(r) == {i \in DOMAIN handled : handled[i].conn = r /\ handled[i].heard}

LEMMA TakenIsHeard ==
    ASSUME InStep, NEW r \in Calls
    PROVE  Taken(r) = Heard(r)
BY DEF InStep, Taken, Heard

LEMMA AnswerTakes ==
    ASSUME IInv, IInv', NEW r \in Calls, Answer(r)
    PROVE  Promise!Take(poll[r].conn) \/ UNCHANGED <<sent, [q \in Calls |-> Taken(q)]>>
<1> DEFINE s == received
           c == poll[r].conn
<1>1. PICK k \in Nat :
        /\ handled' \in Seq(Message) /\ Len(handled') = s + k
        /\ \A i \in 1..s : handled'[i] = handled[i]
        /\ \A i \in 1..(s + k) : i > s =>
              handled'[i] = [conn |-> c, index |-> i, heard |-> listener]
        /\ k > 0 => s + k <= sent[c]
  BY AnswerAdds DEF IInv
<1>2. /\ s \in Nat /\ Len(handled) = s /\ routine[r] = "polling" /\ c \in Calls
      /\ sent' = sent /\ sent[c] \in Nat
  BY AnswerKeeps DEF IInv
<1>3. DOMAIN handled = 1..s /\ DOMAIN handled' = 1..(s + k)
  BY <1>1, <1>2, LenProperties DEF IInv, TypeOK
<1>4. ASSUME NEW q \in Calls
      PROVE  Taken(q)' = Taken(q) \cup
                (IF q = c /\ listener THEN (s + 1)..(s + k) ELSE {})
  <2>1. Taken(q) = Heard(q) /\ Taken(q)' = Heard(q)'
    BY TakenIsHeard DEF IInv, Taken, Heard, InStep
  <2>2. ASSUME NEW i \in 1..(s + k)
        PROVE  handled'[i].conn = q /\ handled'[i].heard <=>
                  \/ i \in 1..s /\ handled[i].conn = q /\ handled[i].heard
                  \/ q = c /\ listener /\ i \in (s + 1)..(s + k)
    <3>1. CASE i <= s
      BY <1>1, <1>2, <3>1
    <3>2. CASE i > s
      BY <1>1, <1>2, <3>2
    <3>3. QED
      BY <1>2, <3>1, <3>2
  <2>3. 1..s \subseteq 1..(s + k) /\ (s + 1)..(s + k) \subseteq 1..(s + k)
    BY <1>2
  <2>4. QED
    BY <1>3, <2>1, <2>2, <2>3 DEF Heard
<1>5. CASE k = 0 \/ ~listener
  <2>0. listener => (s + 1)..(s + k) = {}
    BY <1>2, <1>5
  <2>1. \A q \in Calls : Taken(q)' = Taken(q)
    BY <1>4, <2>0
  <2>2. QED
    BY <1>2, <2>1
<1>6. CASE k > 0 /\ listener
  <2> DEFINE first == s + 1
             last == s + k
             taken == [q \in Calls |-> Taken(q)]
  <2>1. first \in 1..sent[c] /\ last \in 1..sent[c] /\ first <= last
    BY <1>1, <1>2, <1>6
  <2>2. Taken(c) = Heard(c)
    BY <1>2, TakenIsHeard DEF IInv
  <2>3. first \notin Taken(c)
    BY <1>2, <1>3, <2>2 DEF Heard
  <2>4. ASSUME Taken(c) # {} PROVE first - 1 \in Taken(c)
    <3>1. PICK i \in 1..s : handled[i].conn = c /\ handled[i].heard
      BY <1>3, <2>2, <2>4 DEF Heard
    <3>2. s \in i..s /\ s \in 1..s /\ first - 1 = s
      BY <1>2, <3>1
    <3>3. handled[s].heard
      BY <1>2, <1>3, <3>1, <3>2 DEF IInv, InStep
    <3>4. handled[s].conn = c
      BY <1>2, <1>3, <3>1 DEF IInv, ConnInv
    <3>5. QED
      BY <1>3, <2>2, <3>2, <3>3, <3>4 DEF Heard
  <2>5. \A q \in Calls : Taken(q)' = IF q = c THEN Taken(c) \cup (first..last) ELSE Taken(q)
    BY <1>4, <1>6
  <2>6. taken' = [taken EXCEPT ![c] = @ \cup (first..last)]
    BY <1>2, <2>5
  <2>7. taken[c] = Taken(c)
    BY <1>2
  <2>8. QED
    BY <1>2, <2>1, <2>3, <2>4, <2>6, <2>7 DEF Promise!Take
<1>7. QED
  BY <1>5, <1>6

(* However calls of requestDevice overlap with the polling, the connector   *)
(* implements Mailbox.                                                     *)
THEOREM PageImplementsMailbox == Spec => KeepsMailbox
<1>1. Init => Promise!Init
  <2> SUFFICES ASSUME Init PROVE Promise!Init
    OBVIOUS
  <2>1. \A q \in Calls : Taken(q) = {}
    BY DEF Init, Taken
  <2>2. QED
    BY <2>1 DEF Init, Promise!Init
<1>2. ASSUME IInv, IInv', [Next]_vars
      PROVE  [Promise!Next]_<<sent, [r \in Calls |-> Taken(r)]>>
  <2>1. CASE UNCHANGED <<sent, handled>>
    BY <2>1 DEF Taken
  <2>2. ASSUME NEW r \in Calls, DeviceSends(r) PROVE Promise!Write(r)
    BY <2>2 DEF DeviceSends, Set, Taken, Promise!Write
  <2>3. ASSUME NEW r \in Calls, Answer(r)
        PROVE  \/ Promise!Take(poll[r].conn) /\ poll[r].conn \in Calls
               \/ UNCHANGED <<sent, [q \in Calls |-> Taken(q)]>>
    BY <1>2, <2>3, AnswerTakes, AnswerAdds DEF IInv
  <2>4. QED
    BY <1>2, <2>1, <2>2, <2>3 DEF Next, Routine, OnDeviceMsg, RequestDevice, GetConfig,
       Connect, Poll, PollFails, vars, Promise!Next
<1>3. QED
  BY <1>1, <1>2, Invariance, PTL DEF Spec, KeepsMailbox, Promise!Spec

-----------------------------------------------------------------------------
(* What Delivered rests on *)

(* A page that has a connection has a polling routine, or one that ended.   *)
PolledOrEnded == conn # NoConn => \E r \in Calls : routine[r] # "none"

(* However calls of requestDevice overlap and fail, the page is never left  *)
(* with a connection and without a routine that was started for it.         *)
THEOREM ConnectionIsPolled == Spec => []PolledOrEnded
<1>1. Init => PolledOrEnded
  BY DEF Init, PolledOrEnded
<1>2. TypeOK /\ PolledOrEnded /\ [Next]_vars => PolledOrEnded'
  <2> SUFFICES ASSUME TypeOK, PolledOrEnded, [Next]_vars PROVE PolledOrEnded'
    OBVIOUS
  <2>1. ASSUME NEW r \in Calls, Connect(r) PROVE PolledOrEnded'
    <3>1. CASE conn' = conn /\ routine' = routine
      BY <3>1 DEF PolledOrEnded
    <3>2. CASE StartPolling(r)
      BY <3>2 DEF StartPolling, Set, PolledOrEnded, TypeOK
    <3>3. QED
      BY <2>1, <3>1, <3>2 DEF Connect
  <2>2. ASSUME UNCHANGED conn, \A r \in Calls : routine[r] # "none" => routine'[r] # "none"
        PROVE  PolledOrEnded'
    BY <2>2 DEF PolledOrEnded
  <2>3. ASSUME NEW r \in Calls, Routine(r) PROVE PolledOrEnded'
    <3>1. UNCHANGED conn
      BY <2>3 DEF Routine, Poll, Answer, PollFails
    <3>2. \E to \in {"timer", "polling", "ended"} : routine' = [routine EXCEPT ![r] = to]
      BY <2>3 DEF Routine, Poll, Answer, PollFails, Set, Rearmed
    <3>3. QED
      BY <2>2, <3>1, <3>2 DEF TypeOK
  <2>4. ASSUME NEW r \in Calls, RequestDevice(r) \/ GetConfig(r) \/ DeviceSends(r)
        PROVE  PolledOrEnded'
    BY <2>2, <2>4 DEF RequestDevice, GetConfig, DeviceSends
  <2>5. CASE OnDeviceMsg \/ UNCHANGED vars
    BY <2>2, <2>5 DEF OnDeviceMsg, vars
  <2>6. QED
    BY <2>1, <2>3, <2>4, <2>5 DEF Next
<1>3. QED
  BY <1>1, <1>2, Typing, PTL DEF Spec

=============================================================================
