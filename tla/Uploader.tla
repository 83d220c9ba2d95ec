------------------------------- MODULE Uploader -------------------------------
(***************************************************************************)
(* The chunked upload of pkg/client/client.go.                             *)
(*                                                                         *)
(* Upload starts a goroutine that offers the jobs one by one on jobsChan   *)
(* (sendJobs) and a number of workers that take them.  A worker retries    *)
(* its chunk until it is stored or its backoff says stop, then reports the *)
(* result on a channel of its own; a relay goroutine per worker copies     *)
(* that channel to one aggregated channel, which is closed when all relays *)
(* are done and which Upload reads until then.  The first error cancels    *)
(* the context all of them share.  Every channel is unbuffered.            *)
(*                                                                         *)
(* A job stands for one chunk of one file, numbered in the order of        *)
(* sendJobs.  The time a backoff has left is not measured: after a failure *)
(* it may allow another try or not, MaxTries times at most.                *)
(***************************************************************************)
EXTENDS Naturals

CONSTANTS
    NumJobs,   \* the chunks of all the files
    Workers,   \* the goroutines of startWorkers, openConnections of them
    MaxTries   \* tries between two resets of a backoff (MaxElapsedTime)

ASSUME UploaderAssumption ==
    /\ NumJobs \in Nat
    /\ Workers # {}
    /\ MaxTries \in Nat \ {0}

Jobs  == 1..NumJobs
NoJob == 0

VARIABLES
    sender,     \* sendJobs: "sending", or "closed" once jobsChan is closed
    nextJob,    \* the job it offers next
    worker,     \* where each worker is
    job,        \* the job it works on, or NoJob
    failed,     \* err: whether that job is given up
    tries,      \* failures since the last reset of its backoff
    relay,      \* per worker: "idle", "result" or "done"
    carried,    \* the job whose result the relay carries, or NoJob
    bad,        \* whether that result is an error
    aggClosed,  \* the aggregated channel is closed
    returnErr,  \* the job whose error Upload will return, or NoJob
    cancelled,  \* the context is done
    main,       \* Upload: "collecting" or "returned"
    stored,     \* the chunks the host has
    late        \* chunks of failed requests the host may still process

workVars  == <<worker, job, failed, tries>>
relayVars == <<relay, carried, bad>>
mainVars  == <<aggClosed, returnErr, cancelled, main>>
hostVars  == <<stored, late>>
vars == <<sender, nextJob, workVars, relayVars, mainVars, hostVars>>

-----------------------------------------------------------------------------
(* sendJobs *)

(* Mutant of SendJob: the loop runs once too often. *)
SendJobTooMany(w) ==
    /\ sender = "sending"
    /\ nextJob <= NumJobs + 1
    /\ worker[w] = "waiting"
    /\ nextJob' = nextJob + 1
    /\ worker' = [worker EXCEPT ![w] = "uploading"]
    /\ job' = [job EXCEPT ![w] = nextJob]
    /\ UNCHANGED <<sender, failed, tries, relayVars, mainVars, hostVars>>

(* The select takes the send: a waiting worker gets the next job.  It can  *)
(* be taken although the context is done, as both branches are ready then. *)
SendJob(w) ==
    /\ sender = "sending"
    /\ nextJob <= NumJobs
    /\ worker[w] = "waiting"
    /\ nextJob' = nextJob + 1
    /\ worker' = [worker EXCEPT ![w] = "uploading"]
    /\ job' = [job EXCEPT ![w] = nextJob]
    /\ UNCHANGED <<sender, failed, tries, relayVars, mainVars, hostVars>>

(* All jobs are sent, or the select takes ctx.Done; jobsChan is closed. *)
CloseJobs ==
    /\ sender = "sending"
    /\ nextJob > NumJobs \/ cancelled
    /\ sender' = "closed"
    /\ UNCHANGED <<nextJob, workVars, relayVars, mainVars, hostVars>>

-----------------------------------------------------------------------------
(* uploadChunkWorker *)

(* The host stored the chunk and said so.  The backoff starts afresh. *)
UploadOk(w) ==
    /\ worker[w] = "uploading"
    /\ ~cancelled
    /\ stored' = stored \cup {job[w]}
    /\ worker' = [worker EXCEPT ![w] = "reporting"]
    /\ failed' = [failed EXCEPT ![w] = FALSE]
    /\ tries' = [tries EXCEPT ![w] = 0]
    /\ UNCHANGED <<sender, nextJob, job, relayVars, mainVars, late>>

(* The request failed as far as the client can tell; the host may have     *)
(* stored the chunk, or do so later.  NextBackOff either allows another    *)
(* try, also when the context is done, or says stop.  Nothing resets the   *)
(* backoff then, so the next failure of this worker stops it at once.      *)
UploadFails(w) ==
    /\ worker[w] = "uploading"
    /\ \/ late' = late \cup {job[w]} /\ UNCHANGED stored
       \/ stored' = stored \cup {job[w]} /\ UNCHANGED late
       \/ UNCHANGED hostVars
    /\ \/ /\ tries[w] + 1 < MaxTries
          /\ tries' = [tries EXCEPT ![w] = @ + 1]
          /\ UNCHANGED <<worker, failed>>
       \/ /\ tries' = [tries EXCEPT ![w] = MaxTries]
          /\ worker' = [worker EXCEPT ![w] = "reporting"]
          /\ failed' = [failed EXCEPT ![w] = TRUE]
    /\ UNCHANGED <<sender, nextJob, job, relayVars, mainVars>>

(* The send on the worker's channel meets its relay's receive. *)
Report(w) ==
    /\ worker[w] = "reporting"
    /\ relay[w] = "idle"
    /\ worker' = [worker EXCEPT ![w] = "waiting"]
    /\ job' = [job EXCEPT ![w] = NoJob]
    /\ relay' = [relay EXCEPT ![w] = "result"]
    /\ carried' = [carried EXCEPT ![w] = job[w]]
    /\ bad' = [bad EXCEPT ![w] = failed[w]]
    /\ failed' = [failed EXCEPT ![w] = FALSE]
    /\ UNCHANGED <<sender, nextJob, tries, mainVars, hostVars>>

(* jobsChan is closed: the worker closes its channel and ends. *)
WorkerEnds(w) ==
    /\ worker[w] = "waiting"
    /\ sender = "closed"
    /\ worker' = [worker EXCEPT ![w] = "ended"]
    /\ UNCHANGED <<sender, nextJob, job, failed, tries, relayVars, mainVars,
                   hostVars>>

-----------------------------------------------------------------------------
(* startWorkers and Upload *)

(* Mutants of Collect: Upload stops reading at the first error; the last    *)
(* result overwrites the error.                                            *)
CollectAndReturn(w) ==
    /\ relay[w] = "result"
    /\ main = "collecting"
    /\ relay' = [relay EXCEPT ![w] = "idle"]
    /\ carried' = [carried EXCEPT ![w] = NoJob]
    /\ bad' = [bad EXCEPT ![w] = FALSE]
    /\ IF bad[w]
       THEN returnErr' = carried[w] /\ cancelled' = TRUE /\ main' = "returned"
       ELSE UNCHANGED <<returnErr, cancelled, main>>
    /\ UNCHANGED <<sender, nextJob, workVars, aggClosed, hostVars>>

CollectLast(w) ==
    /\ relay[w] = "result"
    /\ main = "collecting"
    /\ relay' = [relay EXCEPT ![w] = "idle"]
    /\ carried' = [carried EXCEPT ![w] = NoJob]
    /\ bad' = [bad EXCEPT ![w] = FALSE]
    /\ returnErr' = (IF bad[w] THEN carried[w] ELSE NoJob)
    /\ cancelled' = (cancelled \/ bad[w])
    /\ UNCHANGED <<sender, nextJob, workVars, aggClosed, main, hostVars>>

(* A relay hands its result to Upload, which keeps the first error.  Later *)
(* results are read and dropped.                                           *)
Collect(w) ==
    /\ relay[w] = "result"
    /\ main = "collecting"
    /\ relay' = [relay EXCEPT ![w] = "idle"]
    /\ carried' = [carried EXCEPT ![w] = NoJob]
    /\ bad' = [bad EXCEPT ![w] = FALSE]
    /\ IF bad[w] /\ returnErr = NoJob
       THEN returnErr' = carried[w] /\ cancelled' = TRUE
       ELSE UNCHANGED <<returnErr, cancelled>>
    /\ UNCHANGED <<sender, nextJob, workVars, aggClosed, main, hostVars>>

(* The worker's channel is closed and drained: wg.Done. *)
RelayEnds(w) ==
    /\ relay[w] = "idle"
    /\ worker[w] = "ended"
    /\ relay' = [relay EXCEPT ![w] = "done"]
    /\ UNCHANGED <<sender, nextJob, workVars, carried, bad, mainVars, hostVars>>

(* Mutant of CloseResults: the wait group counts one relay only. *)
CloseResultsEarly ==
    /\ ~aggClosed
    /\ \E w \in Workers : relay[w] = "done"
    /\ aggClosed' = TRUE
    /\ UNCHANGED <<sender, nextJob, workVars, relayVars, returnErr, cancelled,
                   main, hostVars>>

(* wg.Wait returns and the aggregated channel is closed. *)
CloseResults ==
    /\ ~aggClosed
    /\ \A w \in Workers : relay[w] = "done"
    /\ aggClosed' = TRUE
    /\ UNCHANGED <<sender, nextJob, workVars, relayVars, returnErr, cancelled,
                   main, hostVars>>

(* The range over resultsChan ends. *)
Return ==
    /\ main = "collecting"
    /\ aggClosed
    /\ main' = "returned"
    /\ UNCHANGED <<sender, nextJob, workVars, relayVars, aggClosed, returnErr,
                   cancelled, hostVars>>

(* The host orchestrator processes a request the client has given up. *)
StoreLate ==
    /\ \E j \in late :
        /\ stored' = stored \cup {j}
        /\ late' = late \ {j}
    /\ UNCHANGED <<sender, nextJob, workVars, relayVars, mainVars>>

-----------------------------------------------------------------------------
Init ==
    /\ sender = "sending"
    /\ nextJob = 1
    /\ worker = [w \in Workers |-> "waiting"]
    /\ job = [w \in Workers |-> NoJob]
    /\ failed = [w \in Workers |-> FALSE]
    /\ tries = [w \in Workers |-> 0]
    /\ relay = [w \in Workers |-> "idle"]
    /\ carried = [w \in Workers |-> NoJob]
    /\ bad = [w \in Workers |-> FALSE]
    /\ aggClosed = FALSE
    /\ returnErr = NoJob
    /\ cancelled = FALSE
    /\ main = "collecting"
    /\ stored = {}
    /\ late = {}

Upload(w) == UploadOk(w) \/ UploadFails(w)

Next ==
    \/ \E w \in Workers :
        \/ SendJob(w) \/ Upload(w) \/ Report(w) \/ WorkerEnds(w)
        \/ Collect(w) \/ RelayEnds(w)
    \/ CloseJobs \/ CloseResults \/ Return
    \/ StoreLate

Spec == Init /\ [][Next]_vars

(* Every goroutine that can step does; an HTTP request ends one way or the *)
(* other.  Nothing is asked of requests the client has given up.           *)
Fairness ==
    /\ WF_vars(\E w \in Workers : SendJob(w)) /\ WF_vars(CloseJobs)
    /\ \A w \in Workers :
        /\ WF_vars(Upload(w)) /\ WF_vars(Report(w)) /\ WF_vars(WorkerEnds(w))
        /\ WF_vars(Collect(w)) /\ WF_vars(RelayEnds(w))
    /\ WF_vars(CloseResults) /\ WF_vars(Return)

FairSpec == Spec /\ Fairness

-----------------------------------------------------------------------------
(* Properties *)

(* Every variable has its type: the type invariant of the module. *)
TypeOK ==
    /\ sender \in {"sending", "closed"}
    /\ nextJob \in 1..(NumJobs + 1)
    /\ worker \in [Workers -> {"waiting", "uploading", "reporting", "ended"}]
    /\ job \in [Workers -> Jobs \cup {NoJob}]
    /\ failed \in [Workers -> BOOLEAN]
    /\ tries \in [Workers -> 0..MaxTries]
    /\ relay \in [Workers -> {"idle", "result", "done"}]
    /\ carried \in [Workers -> Jobs \cup {NoJob}]
    /\ bad \in [Workers -> BOOLEAN]
    /\ aggClosed \in BOOLEAN
    /\ returnErr \in Jobs \cup {NoJob}
    /\ cancelled \in BOOLEAN
    /\ main \in {"collecting", "returned"}
    /\ stored \subseteq Jobs
    /\ late \subseteq Jobs

(* When Upload returns, its goroutines are gone: no worker is still sending *)
(* a chunk on behalf of an upload that is over, and no result is pending.   *)
Quiescent ==
    main = "returned" =>
        \A w \in Workers : worker[w] = "ended" /\ relay[w] = "done"

(* The comment in Upload: after an error the cancellation propagates and    *)
(* resultsChan is closed eventually.  Upload returns and every goroutine    *)
(* ends, errors or not.                                                     *)
Terminates ==
    <>(main = "returned" /\ \A w \in Workers : worker[w] = "ended")

outcome ==
    IF main = "collecting" THEN "pending"
    ELSE IF returnErr = NoJob THEN "ok" ELSE "error"

Promise == INSTANCE UploadSpec
           WITH NumJobs <- NumJobs, stored <- stored, outcome <- outcome

(* Upload keeps its promise: it returns once, and without an error only     *)
(* when every chunk is stored.                                              *)
KeepsPromise == Promise!Spec

=============================================================================
