-------------------------------- MODULE Mailbox --------------------------------
(***************************************************************************)
(* What a connector promises of the messages of its connections, however   *)
(* it polls for them: it takes those of a connection in the order of the   *)
(* device's log, each one once, and from the first one it takes it passes  *)
(* over none.                                                              *)
(***************************************************************************)
EXTENDS Naturals

CONSTANT Conns

VARIABLES log,     \* how many messages the device has sent in a connection
          taken    \* those that were taken, by their place in the log

Init == log = [c \in Conns |-> 0] /\ taken = [c \in Conns |-> {}]

Write(c) ==
    /\ log' = [log EXCEPT ![c] = @ + 1]
    /\ UNCHANGED taken

Take(c) ==
    /\ \E first, last \in 1..log[c] :
        /\ first <= last /\ first \notin taken[c]
        /\ taken[c] # {} => first - 1 \in taken[c]
        /\ taken' = [taken EXCEPT ![c] = @ \cup (first..last)]
    /\ UNCHANGED log

Next == \E c \in Conns : Write(c) \/ Take(c)

Spec == Init /\ [][Next]_<<log, taken>>

=============================================================================
