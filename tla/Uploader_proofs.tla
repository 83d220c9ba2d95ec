---------------------------- MODULE Uploader_proofs ----------------------------
(***************************************************************************)
(* Theorems about Uploader and FileUpload, for every number of chunks and  *)
(* tries and every set of workers: what Upload tells its caller is true,   *)
(* and it always has a step to its end.                                    *)
(***************************************************************************)
EXTENDS FileUpload, TLAPS

(***************************************************************************)
(* The types, with the fact that a worker at work has a job.               *)
(***************************************************************************)
TypeInv ==
    /\ TypeOK
    /\ \A w \in Workers : worker[w] \in {"uploading", "reporting"} => job[w] \in Jobs

LEMMA TypeInductive ==
    ASSUME TypeInv, [Next]_vars
    PROVE  TypeInv'
<1> USE UploaderAssumption DEF UploaderAssumption, TypeInv, TypeOK, Jobs, NoJob,
        workVars, relayVars, mainVars, hostVars
<1>1. ASSUME NEW w \in Workers, SendJob(w) PROVE TypeInv'
  BY <1>1 DEF SendJob
<1>2. ASSUME NEW w \in Workers, UploadOk(w) PROVE TypeInv'
  <2>1. job[w] \in Jobs /\ stored' \subseteq Jobs
    BY <1>2 DEF UploadOk
  <2>2. tries' \in [Workers -> 0..MaxTries]
    BY <1>2 DEF UploadOk
  <2>3. worker' \in [Workers -> {"waiting", "uploading", "reporting", "ended"}]
    BY <1>2 DEF UploadOk
  <2>4. QED
    BY <1>2, <2>1, <2>2, <2>3 DEF UploadOk
<1>3. ASSUME NEW w \in Workers, UploadFails(w) PROVE TypeInv'
  <2>1. stored' \subseteq Jobs /\ late' \subseteq Jobs
    <3>1. job[w] \in Jobs
      BY <1>3 DEF UploadFails
    <3>2. stored' \subseteq stored \cup {job[w]} /\ late' \subseteq late \cup {job[w]}
      BY <1>3 DEF UploadFails
    <3>3. QED
      BY <3>1, <3>2
  <2>2. tries' \in [Workers -> 0..MaxTries]
    BY <1>3 DEF UploadFails
  <2>3. /\ worker' \in [Workers -> {"waiting", "uploading", "reporting", "ended"}]
        /\ failed' \in [Workers -> BOOLEAN]
    BY <1>3 DEF UploadFails
  <2>4. \A v \in Workers : worker'[v] \in {"uploading", "reporting"} => job[v] \in Jobs
    BY <1>3 DEF UploadFails
  <2>5. QED
    BY <1>3, <2>1, <2>2, <2>3, <2>4 DEF UploadFails
<1>4. ASSUME NEW w \in Workers, Report(w) PROVE TypeInv'
  BY <1>4 DEF Report
<1>5. ASSUME NEW w \in Workers, WorkerEnds(w) PROVE TypeInv'
  BY <1>5 DEF WorkerEnds
<1>6. ASSUME NEW w \in Workers, Collect(w) PROVE TypeInv'
  BY <1>6 DEF Collect
<1>7. ASSUME NEW w \in Workers, RelayEnds(w) PROVE TypeInv'
  BY <1>7 DEF RelayEnds
<1>8. CASE CloseJobs
  BY <1>8 DEF CloseJobs
<1>9. CASE CloseResults
  BY <1>9 DEF CloseResults
<1>10. CASE Return
  BY <1>10 DEF Return
<1>11. CASE StoreLate
  BY <1>11 DEF StoreLate
<1>12. CASE UNCHANGED vars
  BY <1>12 DEF vars
<1>13. QED
  BY <1>1, <1>2, <1>3, <1>4, <1>5, <1>6, <1>7, <1>8, <1>9, <1>10, <1>11, <1>12
     DEF Next, Upload

LEMMA TypeInvInvariant == Spec => []TypeInv
<1>1. Init => TypeInv
  <2> SUFFICES ASSUME Init PROVE TypeInv
    OBVIOUS
  <2>1. nextJob \in 1..(NumJobs + 1)
    BY UploaderAssumption DEF UploaderAssumption, Init
  <2>2. tries \in [Workers -> 0..MaxTries]
    BY UploaderAssumption DEF UploaderAssumption, Init
  <2>3. QED
    BY <2>1, <2>2 DEF Init, TypeInv, TypeOK, NoJob
<1>2. TypeInv /\ [Next]_vars => TypeInv'
  BY TypeInductive
<1>3. QED
  BY <1>1, <1>2, PTL DEF Spec

(* Type correctness: in every reachable state each variable has the type   *)
(* TypeOK gives it.                                                        *)
THEOREM Typing == Spec => []TypeOK
<1>1. TypeInv => TypeOK
  BY DEF TypeInv
<1>2. QED
  BY <1>1, TypeInvInvariant, PTL

-----------------------------------------------------------------------------
(***************************************************************************)
(* The order in which the goroutines end, and where a job is while it is   *)
(* neither stored nor given up.                                            *)
(***************************************************************************)
EndInv ==
    /\ sender = "closed" => nextJob = NumJobs + 1 \/ cancelled
    /\ cancelled => returnErr # NoJob
    /\ \A w \in Workers : worker[w] = "ended" => sender = "closed"
    /\ \A w \in Workers : relay[w] = "done" => worker[w] = "ended"
    /\ aggClosed => \A w \in Workers : relay[w] = "done"
    /\ main = "returned" => aggClosed

(* No result is lost between the worker that produced it and Upload: every  *)
(* job that was handed out is stored, or being worked on, or its error is   *)
(* on its way, or Upload has an error to return.                            *)
Accounted ==
    \A j \in 1..(nextJob - 1) :
        \/ j \in stored
        \/ returnErr # NoJob
        \/ \E w \in Workers : job[w] = j /\ (worker[w] = "uploading" \/ failed[w])
        \/ \E w \in Workers : carried[w] = j /\ bad[w]

JobInv ==
    /\ \A w \in Workers :
        /\ worker[w] \in {"uploading", "reporting"} <=> job[w] # NoJob
        /\ failed[w] => worker[w] = "reporting"
        /\ worker[w] = "reporting" /\ ~failed[w] => job[w] \in stored
        /\ bad[w] => relay[w] = "result"
        /\ relay[w] = "result" => carried[w] # NoJob
    /\ Accounted

LEMMA EndInductive ==
    ASSUME TypeOK, EndInv, JobInv, [Next]_vars
    PROVE  EndInv'
<1> USE UploaderAssumption DEF UploaderAssumption, TypeOK, Jobs, NoJob, EndInv, JobInv,
        workVars, relayVars, mainVars, hostVars
<1>1. ASSUME NEW w \in Workers, SendJob(w) PROVE EndInv'
  BY <1>1 DEF SendJob
<1>2. ASSUME NEW w \in Workers, UploadOk(w) PROVE EndInv'
  BY <1>2 DEF UploadOk
<1>3. ASSUME NEW w \in Workers, UploadFails(w) PROVE EndInv'
  BY <1>3 DEF UploadFails
<1>4. ASSUME NEW w \in Workers, Report(w) PROVE EndInv'
  BY <1>4 DEF Report
<1>5. ASSUME NEW w \in Workers, WorkerEnds(w) PROVE EndInv'
  BY <1>5 DEF WorkerEnds
<1>6. ASSUME NEW w \in Workers, Collect(w) PROVE EndInv'
  BY <1>6 DEF Collect
<1>7. ASSUME NEW w \in Workers, RelayEnds(w) PROVE EndInv'
  BY <1>7 DEF RelayEnds
<1>8. CASE CloseJobs
  BY <1>8 DEF CloseJobs
<1>9. CASE CloseResults
  BY <1>9 DEF CloseResults
<1>10. CASE Return
  BY <1>10 DEF Return
<1>11. CASE StoreLate
  BY <1>11 DEF StoreLate
<1>12. CASE UNCHANGED vars
  BY <1>12 DEF vars
<1>13. QED
  BY <1>1, <1>2, <1>3, <1>4, <1>5, <1>6, <1>7, <1>8, <1>9, <1>10, <1>11, <1>12
     DEF Next, Upload

LEMMA JobInductive ==
    ASSUME TypeOK, EndInv, JobInv, [Next]_vars
    PROVE  JobInv'
<1> USE UploaderAssumption DEF UploaderAssumption, TypeOK, Jobs, NoJob, EndInv, JobInv,
        Accounted, workVars, relayVars, mainVars, hostVars
<1>1. ASSUME NEW w \in Workers, SendJob(w) PROVE JobInv'
  BY <1>1 DEF SendJob
<1>2. ASSUME NEW w \in Workers, UploadOk(w) PROVE JobInv'
  BY <1>2 DEF UploadOk
<1>3. ASSUME NEW w \in Workers, UploadFails(w) PROVE JobInv'
  BY <1>3 DEF UploadFails
<1>4. ASSUME NEW w \in Workers, Report(w) PROVE JobInv'
  BY <1>4 DEF Report
<1>5. ASSUME NEW w \in Workers, WorkerEnds(w) PROVE JobInv'
  BY <1>5 DEF WorkerEnds
<1>6. ASSUME NEW w \in Workers, Collect(w) PROVE JobInv'
  BY <1>6 DEF Collect
<1>7. ASSUME NEW w \in Workers, RelayEnds(w) PROVE JobInv'
  BY <1>7 DEF RelayEnds
<1>8. CASE CloseJobs
  BY <1>8 DEF CloseJobs
<1>9. CASE CloseResults
  BY <1>9 DEF CloseResults
<1>10. CASE Return
  BY <1>10 DEF Return
<1>11. CASE StoreLate
  BY <1>11 DEF StoreLate
<1>12. CASE UNCHANGED vars
  BY <1>12 DEF vars
<1>13. QED
  BY <1>1, <1>2, <1>3, <1>4, <1>5, <1>6, <1>7, <1>8, <1>9, <1>10, <1>11, <1>12
     DEF Next, Upload

LEMMA Invariance == Spec => [](TypeOK /\ EndInv /\ JobInv)
<1>1. Init => EndInv /\ JobInv
  BY UploaderAssumption
     DEF UploaderAssumption, Init, EndInv, JobInv, Accounted, NoJob
<1>2. TypeOK /\ EndInv /\ JobInv /\ [Next]_vars => (EndInv /\ JobInv)'
  BY EndInductive, JobInductive
<1>3. QED
  BY <1>1, <1>2, Typing, PTL DEF Spec

(* Between a worker and Upload no result is lost.                          *)
THEOREM NothingLost == Spec => []Accounted
<1>1. JobInv => Accounted
  BY DEF JobInv
<1>2. QED
  BY <1>1, Invariance, PTL

(* When Upload returns its workers and relays have ended.                  *)
THEOREM ReturnsQuiescent == Spec => []Quiescent
<1>1. EndInv => Quiescent
  BY DEF EndInv, Quiescent
<1>2. QED
  BY <1>1, Invariance, PTL

(* When Upload returns without an error every chunk is stored.             *)
LEMMA OkMeansStored ==
    ASSUME TypeOK, EndInv, JobInv, aggClosed, returnErr = NoJob
    PROVE  stored = Jobs
<1>1. PICK w0 \in Workers : relay[w0] = "done"
  BY UploaderAssumption DEF UploaderAssumption, EndInv
<1>2. nextJob = NumJobs + 1
  BY <1>1 DEF EndInv
<1>3. \A w \in Workers : worker[w] = "ended" /\ ~failed[w] /\ ~bad[w]
  BY DEF EndInv, JobInv
<1>4. \A j \in 1..(nextJob - 1) : j \in stored
  BY <1>3 DEF JobInv, Accounted
<1>5. 1..(nextJob - 1) = Jobs
  BY <1>2, UploaderAssumption DEF UploaderAssumption, Jobs
<1>6. QED
  BY <1>4, <1>5 DEF TypeOK

(* The goroutines of Upload together implement UploadSpec: it returns once, *)
(* and without an error only when the host has every chunk.                *)
THEOREM UploadImplementsSpec == Spec => KeepsPromise
<1> USE DEF Promise!Jobs, Jobs
<1>1. Init => Promise!Init
  BY DEF Init, Promise!Init, outcome
<1>2. ASSUME TypeOK, EndInv, JobInv, TypeOK', [Next]_vars
      PROVE  [Promise!Next]_Promise!vars
  <2> USE DEF Promise!Next, Promise!Store, Promise!Finish, Promise!vars, outcome,
              mainVars, hostVars
  <2>1. ASSUME NEW w \in Workers, UploadOk(w) PROVE Promise!Store
    BY <1>2, <2>1 DEF UploadOk, TypeOK, JobInv, NoJob
  <2>2. ASSUME NEW w \in Workers, UploadFails(w)
        PROVE  Promise!Store \/ UNCHANGED Promise!vars
    BY <1>2, <2>2 DEF UploadFails, TypeOK, JobInv, NoJob
  <2>3. CASE Return
    BY <1>2, <2>3, OkMeansStored DEF Return, EndInv
  <2>4. CASE StoreLate
    BY <1>2, <2>4 DEF StoreLate, TypeOK
  <2>5. ASSUME NEW w \in Workers,
               SendJob(w) \/ Report(w) \/ WorkerEnds(w) \/ RelayEnds(w)
        PROVE  UNCHANGED Promise!vars
    BY <2>5 DEF SendJob, Report, WorkerEnds, RelayEnds
  <2>6. ASSUME NEW w \in Workers, Collect(w) PROVE UNCHANGED Promise!vars
    BY <2>6 DEF Collect
  <2>7. CASE CloseJobs \/ CloseResults
    BY <2>7 DEF CloseJobs, CloseResults
  <2>8. CASE UNCHANGED vars
    BY <2>8 DEF vars
  <2>9. QED
    BY <1>2, <2>1, <2>2, <2>3, <2>4, <2>5, <2>6, <2>7, <2>8 DEF Next, Upload
<1>3. QED
  BY <1>1, <1>2, Invariance, PTL DEF Spec, KeepsPromise, Promise!Spec

-----------------------------------------------------------------------------
(***************************************************************************)
(* Why Upload returns: it cannot stop on its way, and every step but a     *)
(* late one of the host's brings it closer.  With fairness this is         *)
(* Terminates; here it is shown for any number of chunks and workers.      *)
(***************************************************************************)

(* What a worker and its relay have yet to do before the next job. *)
Effort(w) ==
    (IF worker[w] = "uploading" THEN 4 + (MaxTries - tries[w])
     ELSE IF worker[w] = "reporting" THEN 3
     ELSE IF worker[w] = "waiting" THEN 1 ELSE 0)
    + (IF relay[w] = "result" THEN 2 ELSE IF relay[w] = "idle" THEN 1 ELSE 0)

(* What is left for the goroutines that serve all workers. *)
Closings ==
    (IF sender = "sending" THEN 1 ELSE 0) + (IF aggClosed THEN 0 ELSE 1)
    + (IF main = "collecting" THEN 1 ELSE 0)

(* A job is handed out, or one goroutine has less to do and no other more. *)
Closer ==
    \/ nextJob' = nextJob + 1
    \/ /\ UNCHANGED nextJob
       /\ \/ /\ \E w \in Workers :
                /\ Effort(w)' < Effort(w)
                /\ \A v \in Workers \ {w} : Effort(v)' = Effort(v)
             /\ Closings' = Closings
          \/ /\ Closings' < Closings
             /\ \A w \in Workers : Effort(w)' = Effort(w)

HostOnly == UNCHANGED <<sender, nextJob, workVars, relayVars, mainVars>>

(* No goroutine of Upload goes round in circles: jobs are finitely many, and *)
(* between two of them every step leaves less to do.                        *)
WindsDown == [][Closer \/ HostOnly]_vars

Measured ==
    /\ nextJob <= NumJobs + 1
    /\ Closings \in Nat
    /\ \A w \in Workers : Effort(w) \in Nat

(* Some goroutine can step: a channel has both ends ready, a request is     *)
(* under way, or something is closed that others wait for.                  *)
CanStep ==
    \/ sender = "sending" /\ nextJob <= NumJobs /\ \E w \in Workers : worker[w] = "waiting"
    \/ sender = "sending" /\ (nextJob > NumJobs \/ cancelled)
    \/ \E w \in Workers :
        \/ worker[w] = "uploading"
        \/ worker[w] = "reporting" /\ relay[w] = "idle"
        \/ worker[w] = "waiting" /\ sender = "closed"
        \/ relay[w] = "result" /\ main = "collecting"
        \/ relay[w] = "idle" /\ worker[w] = "ended"
    \/ ~aggClosed /\ \A w \in Workers : relay[w] = "done"
    \/ main = "collecting" /\ aggClosed

NeverStuck == main = "returned" \/ CanStep

LEMMA CloserStep ==
    ASSUME TypeOK, [Next]_vars
    PROVE  Closer \/ HostOnly
<1> USE UploaderAssumption DEF UploaderAssumption, TypeOK, workVars, relayVars, mainVars,
        hostVars
<1>1. ASSUME NEW w \in Workers, SendJob(w) PROVE Closer
  BY <1>1 DEF SendJob, Closer
<1>2. ASSUME NEW w \in Workers, Effort(w)' < Effort(w),
             \A v \in Workers \ {w} : worker'[v] = worker[v] /\ relay'[v] = relay[v]
                                      /\ tries'[v] = tries[v],
             UNCHANGED <<nextJob, sender, aggClosed, main>>
      PROVE  Closer
  <2>1. \A v \in Workers \ {w} : Effort(v)' = Effort(v)
    BY <1>2 DEF Effort
  <2>2. Closings' = Closings
    BY <1>2 DEF Closings
  <2>3. QED
    BY <1>2, <2>1, <2>2 DEF Closer
<1>3. ASSUME NEW w \in Workers, Upload(w) PROVE Closer
  <2>1. worker[w] = "uploading" /\ UNCHANGED relay
    BY <1>3 DEF Upload, UploadOk, UploadFails
  <2>2. \/ worker'[w] = "reporting"
        \/ worker'[w] = "uploading" /\ tries'[w] = tries[w] + 1 /\ tries[w] + 1 < MaxTries
    BY <1>3, <2>1 DEF Upload, UploadOk, UploadFails
  <2>3. Effort(w)' < Effort(w)
    BY <2>1, <2>2 DEF Effort
  <2>4. \A v \in Workers \ {w} : worker'[v] = worker[v] /\ tries'[v] = tries[v]
    BY <1>3 DEF Upload, UploadOk, UploadFails
  <2>5. UNCHANGED <<nextJob, sender, aggClosed, main>>
    BY <1>3 DEF Upload, UploadOk, UploadFails
  <2>6. QED
    BY <1>2, <2>1, <2>3, <2>4, <2>5
<1>4. ASSUME NEW w \in Workers, Report(w) PROVE Closer
  <2>1. Effort(w)' < Effort(w)
    BY <1>4 DEF Report, Effort
  <2>2. QED
    BY <1>2, <1>4, <2>1 DEF Report
<1>5. ASSUME NEW w \in Workers, WorkerEnds(w) PROVE Closer
  <2>1. Effort(w)' < Effort(w)
    BY <1>5 DEF WorkerEnds, Effort
  <2>2. QED
    BY <1>2, <1>5, <2>1 DEF WorkerEnds
<1>6. ASSUME NEW w \in Workers, Collect(w) PROVE Closer
  <2>1. Effort(w)' < Effort(w)
    BY <1>6 DEF Collect, Effort
  <2>2. QED
    BY <1>2, <1>6, <2>1 DEF Collect
<1>7. ASSUME NEW w \in Workers, RelayEnds(w) PROVE Closer
  <2>1. Effort(w)' < Effort(w)
    BY <1>7 DEF RelayEnds, Effort
  <2>2. QED
    BY <1>2, <1>7, <2>1 DEF RelayEnds
<1>8. CASE CloseJobs \/ CloseResults \/ Return
  <2>1. UNCHANGED <<nextJob, worker, relay, tries>>
    BY <1>8 DEF CloseJobs, CloseResults, Return
  <2>2. Closings' < Closings
    BY <1>8 DEF CloseJobs, CloseResults, Return, Closings
  <2>3. \A w \in Workers : Effort(w)' = Effort(w)
    BY <2>1 DEF Effort
  <2>4. QED
    BY <2>1, <2>2, <2>3 DEF Closer
<1>9. CASE StoreLate \/ UNCHANGED vars
  BY <1>9 DEF StoreLate, vars, HostOnly
<1>10. QED
  BY <1>1, <1>3, <1>4, <1>5, <1>6, <1>7, <1>8, <1>9 DEF Next

(* Every step of Upload's goroutines leaves less to do, by a measure that    *)
(* cannot fall for ever: no retry, relay or closing is repeated endlessly.  *)
THEOREM UploadWindsDown == Spec => WindsDown /\ []Measured
<1>1. TypeOK => Measured
  <2> SUFFICES ASSUME TypeOK PROVE Measured
    OBVIOUS
  <2> USE UploaderAssumption DEF UploaderAssumption, TypeOK
  <2>1. \A w \in Workers : Effort(w) \in Nat
    BY DEF Effort
  <2>2. Closings \in Nat
    BY DEF Closings
  <2>3. QED
    BY <2>1, <2>2 DEF Measured
<1>2. TypeOK /\ [Next]_vars => [Closer \/ HostOnly]_vars
  BY CloserStep
<1>3. QED
  BY <1>1, <1>2, Typing, PTL DEF Spec, WindsDown

(* Until Upload has returned some goroutine can step: nobody waits for a    *)
(* channel whose other end is gone, also after errors and cancellation.     *)
THEOREM UploadNeverStuck == Spec => []NeverStuck
<1>1. TypeOK /\ EndInv => NeverStuck
  <2> SUFFICES ASSUME TypeOK, EndInv, main = "collecting" PROVE CanStep
    BY DEF TypeOK, NeverStuck
  <2> USE UploaderAssumption DEF UploaderAssumption, TypeOK, EndInv, CanStep
  <2>1. CASE \E w \in Workers : worker[w] \in {"uploading", "reporting"}
    BY <2>1
  <2>2. CASE /\ \A w \in Workers : worker[w] \in {"waiting", "ended"}
             /\ \E w \in Workers : worker[w] = "waiting"
    BY <2>2
  <2>3. CASE \A w \in Workers : worker[w] = "ended"
    BY <2>3
  <2>4. QED
    BY <2>1, <2>2, <2>3
<1>2. QED
  BY <1>1, Invariance, PTL

-----------------------------------------------------------------------------
(* Bytes *)

(* Rounding up leaves the last chunk with at least one byte and at most     *)
(* ChunkSize of them.                                                      *)
LEMMA ChunksOfSize ==
    ASSUME NEW f \in Files
    PROVE  /\ ChunkSize \in Nat \ {0} /\ Sizes[f] \in Nat /\ TotalChunks(f) \in Nat
           /\ (TotalChunks(f) - 1) * ChunkSize < Sizes[f]
           /\ Sizes[f] <= TotalChunks(f) * ChunkSize
<1>1. ChunkSize \in Nat \ {0} /\ Sizes[f] \in Nat
  BY FileUploadAssumption DEF FileUploadAssumption, Files
<1> DEFINE m == Sizes[f] + ChunkSize - 1
           n == TotalChunks(f)
<1>2. m \in Nat /\ n = m \div ChunkSize
  BY <1>1 DEF TotalChunks
<1> HIDE DEF m, n
<1>3. n \in Nat /\ n * ChunkSize <= m /\ m < n * ChunkSize + ChunkSize
  BY <1>1, <1>2
<1>4. (n - 1) * ChunkSize = n * ChunkSize - ChunkSize
  BY <1>1, <1>3
<1>5. QED
  BY <1>1, <1>3, <1>4 DEF m, n

LEMMA ProductOrder ==
    ASSUME NEW a \in Int, NEW b \in Int, NEW c \in Nat, a <= b
    PROVE  a * c <= b * c
OBVIOUS

LEMMA IntervalWithin ==
    ASSUME NEW a \in Nat, NEW b \in Int, NEW c \in Int, b <= c
    PROVE  a .. b \subseteq 0 .. c
OBVIOUS

(* The segments of a file lie within it and leave no byte out. *)
LEMMA SegmentInFile ==
    ASSUME NEW f \in Files, NEW n \in 1..TotalChunks(f)
    PROVE  Segment([file |-> f, chunk |-> n]) \subseteq 0 .. (Sizes[f] - 1)
<1> DEFINE start == (n - 1) * ChunkSize
<1>1. start \in Nat
  BY ChunksOfSize
<1>2. CASE n < TotalChunks(f)
  <2>1. n * ChunkSize <= (TotalChunks(f) - 1) * ChunkSize
    BY <1>2, ChunksOfSize, ProductOrder
  <2>2. start + ChunkSize = n * ChunkSize
    BY ChunksOfSize
  <2>3. start + ChunkSize - 1 <= Sizes[f] - 1
    BY <1>1, <2>1, <2>2, ChunksOfSize
  <2>4. Segment([file |-> f, chunk |-> n]) = start .. (start + ChunkSize - 1)
    BY <1>2 DEF Segment
  <2>5. start + ChunkSize - 1 \in Int /\ Sizes[f] - 1 \in Int
    BY <1>1, ChunksOfSize
  <2>6. start .. (start + ChunkSize - 1) \subseteq 0 .. (Sizes[f] - 1)
    BY <1>1, <2>3, <2>5, IntervalWithin
  <2>7. QED
    BY <2>4, <2>6
<1>3. CASE ~(n < TotalChunks(f))
  <2>1. Segment([file |-> f, chunk |-> n]) = start .. (Sizes[f] - 1)
    BY <1>3 DEF Segment
  <2>2. QED
    BY <1>1, <2>1, ChunksOfSize
<1>4. QED
  BY <1>2, <1>3

LEMMA SegmentsCover ==
    ASSUME NEW f \in Files, NEW b \in 0 .. (Sizes[f] - 1)
    PROVE  \E n \in 1..TotalChunks(f) : b \in Segment([file |-> f, chunk |-> n])
<1> DEFINE q == b \div ChunkSize
           n == q + 1
<1>1. b \in Nat /\ b < Sizes[f]
  BY ChunksOfSize
<1>2. q \in Nat /\ q * ChunkSize <= b /\ b < q * ChunkSize + ChunkSize
  BY <1>1, ChunksOfSize
<1> HIDE DEF q
<1>3. n <= TotalChunks(f)
  <2> SUFFICES ASSUME TotalChunks(f) <= q PROVE FALSE
    BY <1>2, ChunksOfSize
  <2>1. TotalChunks(f) * ChunkSize <= q * ChunkSize
    BY <1>2, ChunksOfSize, ProductOrder
  <2>2. q * ChunkSize \in Nat /\ TotalChunks(f) * ChunkSize \in Nat
    BY <1>2, ChunksOfSize
  <2>3. QED
    BY <1>1, <1>2, <2>1, <2>2, ChunksOfSize
<1>4. b \in Segment([file |-> f, chunk |-> n])
  <2>1. (n - 1) * ChunkSize = q * ChunkSize
    BY <1>2, ChunksOfSize
  <2>2. q * ChunkSize \in Nat
    BY <1>2, ChunksOfSize
  <2>3. Segment([file |-> f, chunk |-> n]) =
          IF n < TotalChunks(f) THEN (q * ChunkSize) .. (q * ChunkSize + ChunkSize - 1)
                                ELSE (q * ChunkSize) .. (Sizes[f] - 1)
    BY <2>1 DEF Segment
  <2>4. CASE n < TotalChunks(f)
    <3>1. b \in (q * ChunkSize) .. (q * ChunkSize + ChunkSize - 1)
      BY <1>1, <1>2, <2>2, ChunksOfSize
    <3>2. QED
      BY <2>3, <2>4, <3>1
  <2>5. CASE ~(n < TotalChunks(f))
    <3>1. b \in (q * ChunkSize) .. (Sizes[f] - 1)
      BY <1>1, <1>2, <2>2, ChunksOfSize
    <3>2. QED
      BY <2>3, <2>5, <3>1
  <2>6. QED
    BY <2>4, <2>5
<1>5. QED
  BY <1>2, <1>3, <1>4, ChunksOfSize

(* When Upload returns without an error the host has every byte of every   *)
(* file, for any sizes and any chunk size.                                 *)
THEOREM FilesArriveWhole == Spec => []FilesWhole
<1>1. ASSUME TypeOK, EndInv, JobInv, NEW f \in Files
      PROVE  /\ Received(f) \subseteq 0 .. (Sizes[f] - 1)
             /\ main = "returned" /\ returnErr = NoJob => Received(f) = 0 .. (Sizes[f] - 1)
  <2>1. ASSUME NEW j \in stored, SendOrder[j].file = f
        PROVE  Segment(SendOrder[j]) \subseteq 0 .. (Sizes[f] - 1)
    <3>1. j \in Jobs /\ SendOrder[j] \in Chunks
      BY <1>1, FileUploadAssumption DEF FileUploadAssumption, TypeOK
    <3>2. PICK n \in 1..TotalChunks(f) : SendOrder[j] = [file |-> f, chunk |-> n]
      BY <2>1, <3>1 DEF Chunks
    <3>3. QED
      BY <3>2, SegmentInFile
  <2>2. Received(f) \subseteq 0 .. (Sizes[f] - 1)
    BY <2>1 DEF Received
  <2>3. ASSUME main = "returned", returnErr = NoJob, NEW b \in 0 .. (Sizes[f] - 1)
        PROVE  b \in Received(f)
    <3>1. PICK n \in 1..TotalChunks(f) : b \in Segment([file |-> f, chunk |-> n])
      BY SegmentsCover
    <3>2. [file |-> f, chunk |-> n] \in Chunks
      BY DEF Chunks
    <3>3. PICK j \in Jobs : SendOrder[j] = [file |-> f, chunk |-> n]
      BY <3>2, FileUploadAssumption DEF FileUploadAssumption
    <3>4. j \in stored
      BY <1>1, <2>3, OkMeansStored DEF EndInv
    <3>5. QED
      BY <3>1, <3>3, <3>4 DEF Received
  <2>4. QED
    BY <2>2, <2>3
<1>2. TypeOK /\ EndInv /\ JobInv => FilesWhole
  BY <1>1 DEF FilesWhole
<1>3. QED
  BY <1>2, Invariance, PTL

=============================================================================
