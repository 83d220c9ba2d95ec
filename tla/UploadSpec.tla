------------------------------ MODULE UploadSpec ------------------------------
(***************************************************************************)
(* What filesUploader.Upload promises, whatever goroutines it uses: it     *)
(* ends once, with an error or with every chunk stored on the host.        *)
(***************************************************************************)
EXTENDS Naturals

CONSTANT NumJobs    \* the chunks of all the files

VARIABLES stored,   \* the chunks the host has
          outcome   \* what Upload returned, "pending" before it did

Jobs == 1..NumJobs

Init == stored = {} /\ outcome = "pending"

(* A chunk reaches the host; after an error one may still be on its way. *)
Store ==
    /\ \E j \in Jobs : stored' = stored \cup {j}
    /\ UNCHANGED outcome

Finish ==
    /\ outcome = "pending"
    /\ \/ outcome' = "ok" /\ stored = Jobs
       \/ outcome' = "error"
    /\ UNCHANGED stored

Next == Store \/ Finish

vars == <<stored, outcome>>

Spec == Init /\ [][Next]_vars

=============================================================================
