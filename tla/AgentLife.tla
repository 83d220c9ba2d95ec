------------------------------- MODULE AgentLife -------------------------------
(***************************************************************************)
(* What a connection agent shows to the rest of the system, whatever goes  *)
(* on inside: it looks for another agent, connects, makes its control      *)
(* socket, serves and stops, in that order and once.  Its forwarder never  *)
(* comes back, it makes its socket only when the forwarder has an outcome, *)
(* and it removes the socket only after the forwarder was stopped.         *)
(***************************************************************************)
CONSTANT MayKill    \* whether the process can be killed

VARIABLES
    stage,       \* how far the agent is
    forwarding,  \* its forwarder: "init", "up" or "down" for good
    socket       \* its control socket is in the directory

vars == <<stage, forwarding, socket>>

Init ==
    /\ stage \in {"looking", "connecting"}
    /\ forwarding = "init"
    /\ socket = FALSE

Begin ==
    /\ stage = "looking" /\ stage' = "connecting"
    /\ UNCHANGED <<forwarding, socket>>

(* The data channel opened. *)
Open ==
    /\ stage = "connecting"
    /\ forwarding = "init" /\ forwarding' = "up"
    /\ UNCHANGED <<stage, socket>>

(* The forwarder is up or has failed: the agent can answer. *)
Ready ==
    /\ stage = "connecting" /\ stage' = "registering"
    /\ forwarding' = (IF forwarding = "init" THEN "up" ELSE forwarding)
    /\ UNCHANGED socket

Register ==
    /\ stage = "registering" /\ stage' = "serving"
    /\ socket' = TRUE
    /\ UNCHANGED forwarding

(* The connection is lost; the agent stays. *)
Lose ==
    /\ stage \in {"connecting", "registering", "serving"}
    /\ forwarding' = "down"
    /\ UNCHANGED <<stage, socket>>

Stop ==
    /\ stage = "serving" /\ stage' = "stopping"
    /\ forwarding' = "down"
    /\ UNCHANGED socket

Exit ==
    /\ stage = "stopping" /\ stage' = "gone"
    /\ socket' = FALSE
    /\ UNCHANGED forwarding

(* The agent gives up: it found another one, or something failed. *)
GiveUp ==
    /\ stage \in {"looking", "connecting", "registering"} /\ stage' = "gone"
    /\ forwarding' = "down"
    /\ UNCHANGED socket

Kill ==
    /\ MayKill
    /\ stage # "gone" /\ stage' = "gone"
    /\ forwarding' = "down"
    /\ UNCHANGED socket

Next == Begin \/ Open \/ Ready \/ Register \/ Lose \/ Stop \/ Exit \/ GiveUp \/ Kill

Spec == Init /\ [][Next]_vars

=============================================================================
