------------------------ MODULE RequestPipelineProofs ------------------------
(***************************************************************************)
(* Proofs about RequestPipeline and the BehaviourGuard below it, for every *)
(* traffic, every number of requests and addresses and every               *)
(* configuration that the assumptions on the constants allow.              *)
(***************************************************************************)
EXTENDS RequestPipeline, TLAPS, FiniteSetTheorems, SequenceTheorems

USE GuardAssumption, PipelineAssumption

LEMMA Bounds == MaxFiles \in Nat /\ None \notin GuardTasks /\ Partial \notin GuardTasks
BY TrafficAssumption

USE Bounds

----------------------------------------------------------------------------
(***************************************************************************)
(* What a step does to a request                                           *)
(***************************************************************************)
uploadVars == <<req, pc, files, fileNo, tmp, registered, found, crowded, jobs,
                running>>

\* The handler of t ends; its request is dropped with its files.
Ended(t) ==
    /\ pc[t] # "done"
    /\ pc' = [pc EXCEPT ![t] = "done"]
    /\ tmp' = [k \in FileNumbers |-> IF k \in files[t] THEN None ELSE tmp[k]]
    /\ UNCHANGED <<req, files, fileNo, registered, found, crowded, jobs, running>>

\* It goes on to another await.
Moved(t) ==
    /\ pc[t] # "done"
    /\ \E label \in Stages \ {"done"} : pc' = [pc EXCEPT ![t] = label]
    /\ UNCHANGED <<req, files, fileNo, tmp, registered, found, crowded, jobs,
                   running>>

LEMMA StepKinds ==
    ASSUME [Next]_vars
    PROVE  \/ \E t \in GuardTasks :
                  \/ Ended(t) \/ Moved(t) \/ UploadPart(t) \/ SendJob(t)
                  \/ ExecRun(t) \/ ExecEnd(t)
           \/ ExecTake \/ ExecDies
           \/ UNCHANGED uploadVars
<1>1. ASSUME NEW t \in GuardTasks, pc[t] # "done", NEW status, NEW maker, NEW p,
             End(t, status, maker), Drop(t, p), UNCHANGED PipeRest
      PROVE  Ended(t)
  BY <1>1, Zenon DEF End, Drop, PipeRest, Ended
<1>2. ASSUME NEW t \in GuardTasks, HandleInternal(t) \/ Cancel(t)
      PROVE  Ended(t) \/ Moved(t)
  <2>1. CASE t \in Unblockers /\ UnblockStart(t)
    BY <2>1 DEF UnblockStart, Internal, PipeRest, Moved, Stages
  <2>2. CASE ~(t \in Unblockers /\ UnblockStart(t))
    <3>1. /\ pc[t] # "done" /\ UNCHANGED PipeRest
          /\ \E status \in {"204", "200", "401", "404", "413", "400", "gone"} :
                 Answer(t, status)
      BY <1>2, <2>2 DEF HandleInternal, Cancel, Preflight, InternalAnswer,
         CacheClear, Challenge, UnblockRefused, UnblockDone, Internal
    <3>. QED
      BY <1>1, <3>1 DEF Answer
  <2>. QED
    BY <2>1, <2>2
<1>3. ASSUME NEW t \in GuardTasks, HandlePage(t)
      PROVE  Ended(t) \/ Moved(t) \/ UploadPart(t) \/ SendJob(t)
  <2>1. CASE BodyRead(t) \/ (t \in Checks /\ StartScan(t)) \/ CacheMiss(t)
    BY <2>1 DEF BodyRead, Page, StartScan, CacheMiss, Readied, Admitted,
       Scanned, PipeRest, Moved, Stages
  <2>2. CASE Subscribe(t)
    BY <2>2 DEF Subscribe, PipeRest, Moved, Stages
  <2>3. CASE \/ ServeStatic(t) \/ BodyRefused(t) \/ NotFound(t)
             \/ NotListed(t) \/ InDataDir(t) \/ Blocked(t) \/ Invalid(t)
             \/ SourceUnreadable(t) \/ SendFails(t) \/ RespondError(t)
             \/ RequestTimeout(t)
    <3>1. /\ pc[t] # "done" /\ UNCHANGED PipeRest
          /\ \E status \in {"304", "200", "413", "400", "403", "404", "500", "504"} :
                 Answer(t, status)
      BY <2>3 DEF ServeStatic, BodyRefused, Page, NotFound, NotListed, InDataDir,
         Blocked, Invalid, Scanned, SourceUnreadable, Admitted, SendFails,
         RespondError, Waiting, RequestTimeout
    <3>. QED
      BY <1>1, <3>1 DEF Answer
  <2>4. CASE CacheHit(t) \/ Respond(t)
    <3>1. /\ pc[t] # "done" /\ UNCHANGED PipeRest
          /\ \E maker, p : End(t, "200", maker) /\ Drop(t, p)
      BY <2>4, Zenon DEF CacheHit, Readied, Admitted, Scanned, Respond, Waiting
    <3>. QED
      BY <1>1, <3>1
  <2>5. CASE Follow(t)
    <3>1. CASE shared[t] = "aborted"
      BY <2>5, <3>1 DEF Follow, PipeRest, Moved, Stages
    <3>2. CASE shared[t] # "aborted"
      BY <1>1, <2>5, <3>2 DEF Follow
    <3>. QED
      BY <3>1, <3>2
  <2>. QED
    BY <1>3, <2>1, <2>2, <2>3, <2>4, <2>5 DEF HandlePage
<1>4. ASSUME NEW t \in GuardTasks, Guarding(t) PROVE UNCHANGED uploadVars
  BY <1>4 DEF Guarding, pipeVars, uploadVars
<1>5. CASE (Tick /\ UNCHANGED pipeVars) \/ UNCHANGED vars
  BY <1>5 DEF vars, pipeVars, uploadVars
<1>. QED
  BY <1>2, <1>3, <1>4, <1>5 DEF Next, Handle, Executor

----------------------------------------------------------------------------
(***************************************************************************)
(* The executor's queue                                                    *)
(***************************************************************************)
\* The channel is bounded and the executor runs one script at a time.
QueueOK ==
    /\ jobs \in Seq(GuardTasks) /\ Len(jobs) <= QueueCapacity
    /\ running \subseteq GuardTasks
    /\ \A t, u \in running : t = u

LEMMA NextQueueOK ==
    ASSUME QueueOK, [Next]_vars
    PROVE  QueueOK'
<1>1. ASSUME NEW t \in GuardTasks, SendJob(t) PROVE QueueOK'
  <2>1. /\ jobs' = Append(jobs, t) /\ Len(jobs) < QueueCapacity
        /\ UNCHANGED running
    BY <1>1 DEF SendJob
  <2>2. jobs' \in Seq(GuardTasks) /\ Len(jobs') = Len(jobs) + 1 /\ Len(jobs) \in Nat
    BY <2>1, AppendProperties DEF QueueOK
  <2>3. Len(jobs') <= QueueCapacity
    BY <2>1, <2>2
  <2>. QED
    BY <2>1, <2>2, <2>3, Zenon DEF QueueOK
<1>2. CASE ExecTake
  <2>1. /\ jobs # <<>> /\ jobs' = Tail(jobs) /\ running' = {Head(jobs)}
    BY <1>2 DEF ExecTake
  <2>2. /\ jobs' \in Seq(GuardTasks) /\ Len(jobs') = Len(jobs) - 1
        /\ Len(jobs) \in Nat /\ Head(jobs) \in GuardTasks
    BY <2>1, HeadTailProperties DEF QueueOK
  <2>3. Len(jobs') <= QueueCapacity
    BY <2>2 DEF QueueOK
  <2>. QED
    BY <2>1, <2>2, <2>3, Zenon DEF QueueOK
<1>3. CASE ExecDies
  <2>1. jobs' = <<>> /\ running' = {}
    BY <1>3 DEF ExecDies
  <2>2. jobs' \in Seq(GuardTasks) /\ Len(jobs') = 0
    BY <2>1
  <2>. QED
    BY <2>1, <2>2 DEF QueueOK
<1>4. ASSUME NEW t \in GuardTasks, ExecRun(t) \/ ExecEnd(t) PROVE QueueOK'
  BY <1>4 DEF ExecRun, ExecEnd, QueueOK
<1>5. UNCHANGED <<jobs, running>> => QueueOK'
  BY DEF QueueOK
<1>. QED
  BY <1>1, <1>2, <1>3, <1>4, <1>5, StepKinds
     DEF Ended, Moved, UploadPart, uploadVars

LEMMA InitQueueOK == Init => QueueOK
<1>. SUFFICES ASSUME Init PROVE QueueOK
  OBVIOUS
<1>1. jobs = <<>> /\ running = {}
  BY DEF Init, PipeInit
<1>2. jobs \in Seq(GuardTasks) /\ Len(jobs) = 0
  BY <1>1
<1>. QED
  BY <1>1, <1>2 DEF QueueOK

----------------------------------------------------------------------------
(***************************************************************************)
(* Uploads: their numbers, the files on disk and who wrote them            *)
(***************************************************************************)
\* The files of a request are numbered from 0 in the order of their writes,
\* and there are not more of them than parts.
FilesOK ==
    /\ pc \in [GuardTasks -> Stages]
    /\ files \in [GuardTasks -> SUBSET FileNumbers]
    /\ fileNo \in [GuardTasks -> Nat]
    /\ tmp \in [FileNumbers -> GuardTasks \union {None, Partial}]
    /\ registered \subseteq FileNumbers
    /\ \A t \in GuardTasks :
           /\ Len(req[t].parts) \in 0 .. MaxFiles
           /\ \E n \in Nat : files[t] = 0 .. n - 1 /\ n < fileNo[t]
           /\ fileNo[t] <= Len(req[t].parts) + 1

LEMMA Numbered ==
    ASSUME NEW n \in Nat
    PROVE  Cardinality(0 .. n - 1) = n
<1>1. n - 1 \in Int /\ 0 \in Int
  OBVIOUS
<1>2. Cardinality(0 .. n - 1) = IF 0 > n - 1 THEN 0 ELSE (n - 1) - 0 + 1
  BY <1>1, FS_Interval
<1>. QED
  BY <1>2

\* What a part does, with the number it may get: it is dropped, its write
\* fails, or it becomes the next file.
LEMMA PartWritten ==
    ASSUME FilesOK, NEW t \in GuardTasks, UploadPart(t)
    PROVE  \E k \in FileNumbers :
               /\ pc[t] = "files" /\ UNCHANGED <<req, pc, registered, found, jobs, running>>
               /\ files[t] = 0 .. k - 1 /\ k < fileNo[t]
               /\ fileNo[t] <= Len(req[t].parts)
               /\ fileNo' = [fileNo EXCEPT ![t] = @ + 1]
               /\ \/ UNCHANGED <<tmp, files, crowded>>
                  \/ /\ \/ UNCHANGED <<tmp, files>>
                        \/ tmp' = [tmp EXCEPT ![k] = Partial] /\ UNCHANGED files
                        \/ /\ tmp' = [tmp EXCEPT ![k] = t]
                           /\ files' = [files EXCEPT ![t] = @ \union {k}]
                     /\ crowded' = IF Uploaders \ {t} = {} THEN crowded
                                   ELSE crowded \union Uploaders \union {t}
<1>1. PICK n \in Nat : files[t] = 0 .. n - 1 /\ n < fileNo[t]
  BY DEF FilesOK
<1>2. Cardinality(files[t]) = n
  BY <1>1, Numbered
<1>3. fileNo[t] <= Len(req[t].parts) /\ fileNo[t] \in Nat
      /\ Len(req[t].parts) \in 0 .. MaxFiles
  BY DEF UploadPart, FilesOK
<1>4. n \in FileNumbers
  <2>1. \A a, b, c, d \in Nat : a < b /\ b <= c /\ c <= d => a \in 0 .. d - 1
    OBVIOUS
  <2>2. PICK c \in Nat : c = Len(req[t].parts) /\ c <= MaxFiles
    BY <1>3
  <2>3. PICK b \in Nat : b = fileNo[t]
    BY <1>3
  <2>. QED
    BY <1>1, <1>3, <2>1, <2>2, <2>3, MaxFiles \in Nat DEF FileNumbers
<1>5. /\ pc[t] = "files" /\ UNCHANGED <<req, pc, registered, found, jobs, running>>
      /\ fileNo' = [fileNo EXCEPT ![t] = @ + 1]
  BY DEF UploadPart
<1>6. \/ UNCHANGED <<tmp, files, crowded>>
      \/ /\ \/ UNCHANGED <<tmp, files>>
            \/ tmp' = [tmp EXCEPT ![n] = Partial] /\ UNCHANGED files
            \/ /\ tmp' = [tmp EXCEPT ![n] = t]
               /\ files' = [files EXCEPT ![t] = @ \union {n}]
         /\ crowded' = IF Uploaders \ {t} = {} THEN crowded
                       ELSE crowded \union Uploaders \union {t}
  BY <1>2, Zenon DEF UploadPart
<1>. QED
  BY <1>1, <1>3, <1>4, <1>5, <1>6, Zenon

LEMMA NextFilesOK ==
    ASSUME FilesOK, QueueOK, [Next]_vars
    PROVE  FilesOK'
<1>1. ASSUME NEW t \in GuardTasks, Ended(t) PROVE FilesOK'
  BY <1>1 DEF FilesOK, Ended, Stages
<1>2. ASSUME NEW t \in GuardTasks, Moved(t) PROVE FilesOK'
  BY <1>2 DEF FilesOK, Moved, Stages
<1>3. ASSUME NEW t \in GuardTasks, UploadPart(t) PROVE FilesOK'
  <2>1. PICK k \in FileNumbers :
            /\ UNCHANGED <<req, pc, registered>>
            /\ files[t] = 0 .. k - 1 /\ k < fileNo[t]
            /\ fileNo[t] <= Len(req[t].parts)
            /\ fileNo' = [fileNo EXCEPT ![t] = @ + 1]
            /\ \/ UNCHANGED <<tmp, files>>
               \/ tmp' = [tmp EXCEPT ![k] = Partial] /\ UNCHANGED files
               \/ /\ tmp' = [tmp EXCEPT ![k] = t]
                  /\ files' = [files EXCEPT ![t] = @ \union {k}]
    BY <1>3, PartWritten, Zenon
  <2>2. k \in Nat /\ fileNo[t] \in Nat /\ Len(req[t].parts) \in Nat
    BY DEF FilesOK, FileNumbers
  <2>3. /\ files' \in [GuardTasks -> SUBSET FileNumbers]
        /\ fileNo' \in [GuardTasks -> Nat]
        /\ tmp' \in [FileNumbers -> GuardTasks \union {None, Partial}]
    <3>1. files' \in [GuardTasks -> SUBSET FileNumbers]
      <4>1. [files EXCEPT ![t] = @ \union {k}] \in [GuardTasks -> SUBSET FileNumbers]
        <5>1. files[t] \union {k} \in SUBSET FileNumbers
          BY <2>1 DEF FilesOK
        <5>. QED
          BY <5>1, Zenon DEF FilesOK
      <4>. QED
        BY <2>1, <4>1, Zenon DEF FilesOK
    <3>2. fileNo' \in [GuardTasks -> Nat]
      <4>1. fileNo[t] + 1 \in Nat
        BY <2>2
      <4>. QED
        BY <2>1, <4>1, Zenon DEF FilesOK
    <3>3. tmp' \in [FileNumbers -> GuardTasks \union {None, Partial}]
      BY <2>1, Zenon DEF FilesOK
    <3>. QED
      BY <3>1, <3>2, <3>3
  <2>4. ASSUME NEW u \in GuardTasks
        PROVE  /\ \E n \in Nat : files'[u] = 0 .. n - 1 /\ n < fileNo'[u]
               /\ fileNo'[u] <= Len(req[u].parts) + 1
    <3>1. CASE u # t
      BY <2>1, <3>1 DEF FilesOK
    <3>2. CASE u = t
      <4>1. fileNo'[t] = fileNo[t] + 1
        BY <2>1 DEF FilesOK
      <4>2. files'[t] = files[t] \/ files'[t] = files[t] \union {k}
        BY <2>1 DEF FilesOK
      <4>3. (0 .. k - 1) \union {k} = 0 .. (k + 1) - 1
        BY <2>2
      <4>4. CASE files'[t] = files[t]
        BY <2>1, <2>2, <3>2, <4>1, <4>4
      <4>5. CASE files'[t] = files[t] \union {k}
        <5>1. files'[t] = 0 .. (k + 1) - 1
          BY <2>1, <4>3, <4>5
        <5>2. k + 1 \in Nat /\ k + 1 < fileNo'[t] /\ fileNo'[t] <= Len(req[t].parts) + 1
          <6>1. \A a, b, c \in Nat : a < b /\ b <= c =>
                    a + 1 \in Nat /\ a + 1 < b + 1 /\ b + 1 <= c + 1
            OBVIOUS
          <6>2. PICK b, c \in Nat : b = fileNo[t] /\ c = Len(req[t].parts)
            BY <2>2
          <6>3. k < b /\ b <= c /\ fileNo'[t] = b + 1
            BY <2>1, <4>1, <6>2, Zenon
          <6>4. k + 1 \in Nat /\ k + 1 < b + 1 /\ b + 1 <= c + 1
            BY <2>2, <6>1, <6>3, Zenon
          <6>. QED
            BY <6>2, <6>3, <6>4, Zenon
        <5>. QED
          BY <3>2, <5>1, <5>2
      <4>. QED
        BY <4>2, <4>4, <4>5
    <3>. QED
      BY <3>1, <3>2
  <2>. QED
    BY <2>1, <2>3, <2>4 DEF FilesOK
<1>4. ASSUME NEW t \in GuardTasks, ExecRun(t) PROVE FilesOK'
  <2>1. PICK moved :
            /\ tmp' = [k \in FileNumbers |-> IF k \in moved THEN None ELSE tmp[k]]
            /\ registered' = registered \ moved
    BY <1>4 DEF ExecRun
  <2>2. UNCHANGED <<req, pc, files, fileNo>>
    BY <1>4 DEF ExecRun
  <2>. QED
    BY <2>1, <2>2 DEF FilesOK
<1>5. ASSUME NEW t \in GuardTasks, ExecEnd(t) PROVE FilesOK'
  BY <1>5 DEF FilesOK, ExecEnd, reset_request
<1>6. CASE ExecTake
  <2>1. Head(jobs) \in GuardTasks
    BY <1>6, HeadTailProperties DEF ExecTake, QueueOK
  <2>. QED
    BY <1>6, <2>1 DEF FilesOK, ExecTake, Register
<1>7. CASE ExecDies
  BY <1>7 DEF FilesOK, ExecDies
<1>8. ASSUME NEW t \in GuardTasks, SendJob(t) PROVE FilesOK'
  BY <1>8 DEF FilesOK, SendJob, Stages
<1>9. CASE UNCHANGED uploadVars
  BY <1>9 DEF FilesOK, uploadVars
<1>. QED
  BY <1>1, <1>2, <1>3, <1>4, <1>5, <1>6, <1>7, <1>8, <1>9, StepKinds

LEMMA InitFilesOK == Init => FilesOK
<1>. SUFFICES ASSUME Init PROVE FilesOK
  OBVIOUS
<1>1. \A t \in GuardTasks : Len(req[t].parts) \in 0 .. MaxFiles
  BY TrafficAssumption, Zenon DEF Init, PipeInit
<1>2. /\ pc \in [GuardTasks -> Stages]
      /\ files \in [GuardTasks -> SUBSET FileNumbers]
      /\ tmp \in [FileNumbers -> GuardTasks \union {None, Partial}]
      /\ registered \subseteq FileNumbers
      /\ fileNo \in [GuardTasks -> Nat]
      /\ \A t \in GuardTasks : files[t] = {} /\ fileNo[t] = 1
  BY DEF Init, PipeInit, Stages
<1>3. ASSUME NEW t \in GuardTasks
      PROVE  /\ \E n \in Nat : files[t] = 0 .. n - 1 /\ n < fileNo[t]
             /\ fileNo[t] <= Len(req[t].parts) + 1
  <2>1. files[t] = 0 .. 0 - 1
    BY <1>2
  <2>. QED
    BY <1>1, <1>2, <2>1
<1>. QED
  BY <1>1, <1>2, <1>3 DEF FilesOK

\* A file on disk is one of the request that wrote it last, which is still
\* being handled.
Owned ==
    \A k \in FileNumbers :
        tmp[k] \in GuardTasks => k \in files[tmp[k]] /\ pc[tmp[k]] # "done"

LEMMA NextOwned ==
    ASSUME FilesOK, Owned, [Next]_vars
    PROVE  Owned'
<1>1. ASSUME NEW t \in GuardTasks, Ended(t) PROVE Owned'
  BY <1>1 DEF FilesOK, Owned, Ended
<1>2. ASSUME NEW t \in GuardTasks, Moved(t) PROVE Owned'
  BY <1>2 DEF FilesOK, Owned, Moved
<1>3. ASSUME NEW t \in GuardTasks, UploadPart(t) PROVE Owned'
  <2>1. PICK k \in FileNumbers :
            /\ pc[t] = "files" /\ UNCHANGED pc
            /\ \/ UNCHANGED <<tmp, files>>
               \/ tmp' = [tmp EXCEPT ![k] = Partial] /\ UNCHANGED files
               \/ /\ tmp' = [tmp EXCEPT ![k] = t]
                  /\ files' = [files EXCEPT ![t] = @ \union {k}]
    BY <1>3, PartWritten, Zenon
  <2>2. CASE UNCHANGED <<tmp, files>>
    BY <2>1, <2>2 DEF Owned
  <2>3. CASE tmp' = [tmp EXCEPT ![k] = Partial] /\ UNCHANGED files
    <3>1. \A i \in FileNumbers : tmp'[i] \in GuardTasks => tmp'[i] = tmp[i]
      BY <2>3 DEF FilesOK
    <3>. QED
      BY <2>1, <2>3, <3>1, Zenon DEF Owned
  <2>4. CASE /\ tmp' = [tmp EXCEPT ![k] = t]
             /\ files' = [files EXCEPT ![t] = @ \union {k}]
    <3>1. \A i \in FileNumbers : tmp'[i] = IF i = k THEN t ELSE tmp[i]
      BY <2>4 DEF FilesOK
    <3>2. /\ \A u \in GuardTasks : files[u] \subseteq files'[u]
          /\ k \in files'[t]
      BY <2>4 DEF FilesOK
    <3>3. ASSUME NEW i \in FileNumbers, tmp'[i] \in GuardTasks
          PROVE  i \in files'[tmp'[i]] /\ pc'[tmp'[i]] # "done"
      <4>1. CASE i = k
        BY <2>1, <3>1, <3>2, <4>1
      <4>2. CASE i # k
        BY <2>1, <3>1, <3>2, <3>3, <4>2 DEF Owned
      <4>. QED
        BY <4>1, <4>2
    <3>. QED
      BY <3>3 DEF Owned
  <2>. QED
    BY <2>1, <2>2, <2>3, <2>4
<1>4. ASSUME NEW t \in GuardTasks, ExecRun(t) PROVE Owned'
  <2>1. PICK moved :
            tmp' = [k \in FileNumbers |-> IF k \in moved THEN None ELSE tmp[k]]
    BY <1>4 DEF ExecRun
  <2>2. UNCHANGED <<pc, files>>
    BY <1>4 DEF ExecRun
  <2>. QED
    BY <2>1, <2>2 DEF Owned
<1>5. ASSUME NEW t \in GuardTasks, ExecEnd(t) PROVE Owned'
  BY <1>5 DEF Owned, ExecEnd, reset_request
<1>6. ASSUME NEW t \in GuardTasks, SendJob(t) PROVE Owned'
  BY <1>6 DEF FilesOK, Owned, SendJob
<1>7. CASE ExecTake \/ ExecDies \/ UNCHANGED uploadVars
  BY <1>7 DEF Owned, ExecTake, ExecDies, uploadVars
<1>. QED
  BY <1>1, <1>2, <1>3, <1>4, <1>5, <1>6, <1>7, StepKinds

\* Uploads that are in progress together are both marked; one that was
\* always alone has its files until its script has run; and PHP holds names
\* of the request it executes.
Marked ==
    /\ found \in [GuardTasks -> {None, "own", "abandoned", "other"}]
    /\ crowded \subseteq GuardTasks
    /\ \A t, u \in Uploaders : t # u => t \in crowded
    /\ \A t \in Uploaders \ crowded :
           pc[t] # "done" /\ found[t] = None => \A k \in files[t] : tmp[k] = t
    /\ \A k \in registered : \E u \in running : k \in files[u]
    /\ LoneUploadIntact

\* What the queue holds after a job was sent or taken.
LEMMA QueueChange ==
    ASSUME QueueOK
    PROVE  /\ \A t \in GuardTasks :
                  jobs' = Append(jobs, t) => \A u : Queued(u)' => Queued(u) \/ u = t
           /\ jobs # <<>> =>
                  /\ Queued(Head(jobs))
                  /\ jobs' = Tail(jobs) => \A u : Queued(u)' => Queued(u)
<1>1. PICK n \in Nat : n = Len(jobs) /\ DOMAIN jobs = 1 .. n
  BY LenProperties DEF QueueOK
<1>2. ASSUME NEW t \in GuardTasks, jobs' = Append(jobs, t), NEW u, Queued(u)'
      PROVE  Queued(u) \/ u = t
  <2>1. PICK i \in DOMAIN jobs' : jobs'[i] = u
    BY <1>2 DEF Queued
  <2>2. /\ DOMAIN jobs' = 1 .. n + 1
        /\ \A j \in 1 .. n : jobs'[j] = jobs[j]
        /\ jobs'[n + 1] = t
    BY <1>1, <1>2, AppendProperties, LenProperties DEF QueueOK
  <2>3. i \in 1 .. n \/ i = n + 1
    BY <2>1, <2>2
  <2>. QED
    BY <1>1, <2>1, <2>2, <2>3 DEF Queued
<1>3. ASSUME jobs # <<>> PROVE Queued(Head(jobs))
  <2>1. n >= 1 /\ Head(jobs) = jobs[1]
    BY <1>1, <1>3, EmptySeq DEF QueueOK
  <2>. QED
    BY <1>1, <2>1 DEF Queued
<1>4. ASSUME jobs # <<>>, jobs' = Tail(jobs), NEW u, Queued(u)'
      PROVE  Queued(u)
  <2>1. PICK i \in DOMAIN jobs' : jobs'[i] = u
    BY <1>4 DEF Queued
  <2>2. /\ n >= 1 /\ DOMAIN jobs' = 1 .. n - 1
        /\ \A j \in 1 .. n - 1 : jobs'[j] = jobs[j + 1]
    BY <1>1, <1>4, HeadTailProperties, LenProperties, EmptySeq DEF QueueOK
  <2>3. i \in 1 .. n - 1 /\ i + 1 \in 1 .. n
    BY <2>1, <2>2
  <2>. QED
    BY <1>1, <2>1, <2>2, <2>3 DEF Queued
<1>. QED
  BY <1>2, <1>3, <1>4, Zenon

\* Only writing a part adds an upload.
LEMMA UploadersShrink ==
    ASSUME FilesOK, QueueOK, [Next]_vars
    PROVE  \/ \E t \in GuardTasks : UploadPart(t)
           \/ Uploaders' \subseteq Uploaders
<1>. USE DEF FilesOK, QueueOK
<1>1. ASSUME NEW t \in GuardTasks, Ended(t) PROVE Uploaders' \subseteq Uploaders
  BY <1>1 DEF Ended, Uploaders, Queued
<1>2. ASSUME NEW t \in GuardTasks, Moved(t) PROVE Uploaders' \subseteq Uploaders
  BY <1>2 DEF Moved, Uploaders, Queued
<1>3. ASSUME NEW t \in GuardTasks, SendJob(t) PROVE Uploaders' \subseteq Uploaders
  <2>1. /\ pc[t] = "send" /\ UNCHANGED <<files, running>>
        /\ pc' = [pc EXCEPT ![t] = "wait"]
        /\ jobs' = Append(jobs, t)
    BY <1>3 DEF SendJob
  <2>2. \A u : Queued(u)' => Queued(u) \/ u = t
    BY <2>1, QueueChange, Zenon
  <2>. QED
    BY <2>1, <2>2 DEF Uploaders
<1>4. ASSUME NEW t \in GuardTasks, ExecRun(t) \/ ExecEnd(t)
      PROVE  Uploaders' \subseteq Uploaders
  BY <1>4 DEF ExecRun, ExecEnd, Uploaders, Queued
<1>5. CASE ExecTake
  <2>1. /\ jobs # <<>> /\ jobs' = Tail(jobs) /\ running' = {Head(jobs)}
        /\ UNCHANGED <<pc, files>>
    BY <1>5 DEF ExecTake
  <2>2. \A u : Queued(u)' => Queued(u)
    BY <2>1, QueueChange, Zenon
  <2>3. Queued(Head(jobs))
    BY <2>1, QueueChange, Zenon
  <2>. QED
    BY <2>1, <2>2, <2>3 DEF Uploaders
<1>6. CASE ExecDies
  <2>1. jobs' = <<>> /\ running' = {} /\ UNCHANGED <<pc, files>>
    BY <1>6 DEF ExecDies
  <2>2. \A u : ~Queued(u)'
    BY <2>1 DEF Queued
  <2>. QED
    BY <2>1, <2>2 DEF Uploaders
<1>7. CASE UNCHANGED uploadVars
  BY <1>7 DEF uploadVars, Uploaders, Queued
<1>. QED
  BY <1>1, <1>2, <1>3, <1>4, <1>5, <1>6, <1>7, StepKinds

\* A request with files that is handled or executed is an upload.
LEMMA InProgress ==
    ASSUME FilesOK, QueueOK, NEW t \in GuardTasks, NEW k \in files[t],
           pc[t] # "done" \/ t \in running
    PROVE  t \in Uploaders
  BY DEF Uploaders

LEMMA NextMarked ==
    ASSUME FilesOK, QueueOK, Marked, [Next]_vars
    PROVE  Marked'
<1>1. ASSUME Uploaders' \subseteq Uploaders, UNCHANGED <<files, found, crowded>>,
             DOMAIN pc = GuardTasks,
             \A t \in Uploaders' \ crowded :
                 pc'[t] # "done" /\ found[t] = None
                     => pc[t] # "done" /\ \A k \in files[t] : tmp'[k] = tmp[k],
             \A k \in registered' : \E u \in running' : k \in files[u]
      PROVE  Marked'
  BY <1>1 DEF Marked, LoneUploadIntact
<1>2. ASSUME NEW t \in GuardTasks, Ended(t) PROVE Marked'
  <2>1. Uploaders' \subseteq Uploaders
    BY <1>2 DEF Ended, Uploaders, Queued, FilesOK
  <2>2. ASSUME NEW u \in Uploaders' \ crowded, pc'[u] # "done", NEW k \in files[u]
        PROVE  pc[u] # "done" /\ tmp'[k] = tmp[k]
    <3>1. u # t /\ pc[u] # "done" /\ u \in GuardTasks
      BY <1>2, <2>2 DEF Ended, FilesOK, Uploaders
    <3>2. k \notin files[t]
      BY <1>2, <2>1, <2>2, <3>1, InProgress DEF Ended, Marked
    <3>. QED
      BY <1>2, <2>2, <3>1, <3>2 DEF Ended, FilesOK
  <2>3. ASSUME NEW u \in Uploaders', pc'[u] # "done" PROVE pc[u] # "done"
    BY <1>2, <2>3 DEF Ended, FilesOK, Uploaders
  <2>4. UNCHANGED <<files, found, crowded, registered, running>>
    BY <1>2 DEF Ended
  <2>. QED
    BY <1>1, <2>1, <2>2, <2>3, <2>4 DEF Marked, FilesOK
<1>3. ASSUME NEW t \in GuardTasks, Moved(t) PROVE Marked'
  <2>1. Uploaders' \subseteq Uploaders
    BY <1>3 DEF Moved, Uploaders, Queued, FilesOK
  <2>2. ASSUME NEW u \in Uploaders', pc'[u] # "done" PROVE pc[u] # "done"
    BY <1>3, <2>2 DEF Moved, FilesOK, Uploaders
  <2>3. UNCHANGED <<tmp, files, found, crowded, registered, running>>
    BY <1>3 DEF Moved
  <2>. QED
    BY <1>1, <2>1, <2>2, <2>3 DEF Marked, FilesOK
<1>4. ASSUME NEW t \in GuardTasks, SendJob(t) PROVE Marked'
  <2>1. /\ pc[t] = "send" /\ pc' = [pc EXCEPT ![t] = "wait"]
        /\ jobs' = Append(jobs, t)
        /\ UNCHANGED <<tmp, files, found, crowded, registered, running>>
    BY <1>4 DEF SendJob
  <2>2. Uploaders' \subseteq Uploaders
    <3>1. \A u : Queued(u)' => Queued(u) \/ u = t
      BY <2>1 DEF Queued, QueueOK
    <3>. QED
      BY <2>1, <3>1 DEF Uploaders, FilesOK
  <2>3. ASSUME NEW u \in Uploaders', pc'[u] # "done" PROVE pc[u] # "done"
    BY <2>1, <2>3 DEF FilesOK, Uploaders
  <2>. QED
    BY <1>1, <2>1, <2>2, <2>3 DEF Marked, FilesOK
<1>5. CASE ExecTake
  <2>1. Uploaders' \subseteq Uploaders
    BY <1>5, UploadersShrink DEF ExecTake, UploadPart
  <2>2. /\ running = {} /\ running' = {Head(jobs)}
        /\ registered' = registered \union files[Head(jobs)]
        /\ UNCHANGED <<pc, tmp, files, found, crowded>>
    BY <1>5 DEF ExecTake, Register
  <2>3. registered = {}
    BY <2>2 DEF Marked
  <2>. QED
    BY <1>1, <2>1, <2>2, <2>3 DEF FilesOK
<1>6. CASE ExecDies
  <2>1. jobs' = <<>> /\ running' = {} /\ registered' = {}
        /\ UNCHANGED <<pc, tmp, files, found, crowded>>
    BY <1>6 DEF ExecDies
  <2>2. Uploaders' \subseteq Uploaders
    <3>1. \A u : ~Queued(u)'
      BY <2>1 DEF Queued
    <3>. QED
      BY <2>1, <3>1 DEF Uploaders
  <2>. QED
    BY <1>1, <2>1, <2>2 DEF FilesOK
<1>7. ASSUME NEW t \in GuardTasks, ExecEnd(t) PROVE Marked'
  <2>1. /\ t \in running /\ found[t] # None /\ running' = {} /\ registered' = {}
        /\ tmp' = [k \in FileNumbers |-> IF k \in registered THEN None ELSE tmp[k]]
        /\ UNCHANGED <<pc, jobs, files, found, crowded>>
    BY <1>7 DEF ExecEnd, reset_request
  <2>2. Uploaders' \subseteq Uploaders
    BY <2>1 DEF Uploaders, Queued
  <2>3. ASSUME NEW u \in Uploaders' \ crowded, found[u] = None, NEW k \in files[u]
        PROVE  tmp'[k] = tmp[k]
    <3>1. u # t /\ u \in Uploaders /\ u \in GuardTasks
      BY <2>1, <2>2, <2>3 DEF Uploaders
    <3>2. k \notin files[t]
      BY <2>1, <2>3, <3>1, InProgress DEF Marked
    <3>3. k \notin registered
      BY <2>1, <3>2 DEF Marked, QueueOK
    <3>. QED
      BY <2>1, <2>3, <3>1, <3>3 DEF FilesOK
  <2>. QED
    BY <1>1, <2>1, <2>2, <2>3 DEF FilesOK
<1>8. ASSUME NEW t \in GuardTasks, ExecRun(t) PROVE Marked'
  <2>1. PICK moved \in SUBSET registered :
            /\ tmp' = [k \in FileNumbers |-> IF k \in moved THEN None ELSE tmp[k]]
            /\ registered' = registered \ moved
    BY <1>8 DEF ExecRun
  <2>2. /\ t \in running /\ found[t] = None
        /\ found' = [found EXCEPT ![t] =
               IF \A k \in files[t] : tmp[k] = t THEN "own"
               ELSE IF pc[t] = "done" THEN "abandoned" ELSE "other"]
        /\ UNCHANGED <<pc, files, crowded, jobs, running>>
    BY <1>8 DEF ExecRun
  <2>3. Uploaders' = Uploaders
    BY <2>2 DEF Uploaders, Queued
  <2>4. found'[t] = "other" => t \in crowded
    <3>. SUFFICES ASSUME found'[t] = "other" PROVE t \in crowded
      OBVIOUS
    <3>1. ~(\A k \in files[t] : tmp[k] = t) /\ pc[t] # "done"
      BY <2>2 DEF Marked
    <3>2. t \in Uploaders
      BY <3>1, InProgress
    <3>. QED
      BY <2>2, <3>1, <3>2 DEF Marked
  <2>5. ASSUME NEW u \in Uploaders \ crowded, pc[u] # "done", found'[u] = None,
               NEW k \in files[u]
        PROVE  tmp'[k] = u
    <3>1. u # t /\ u \in GuardTasks /\ found[u] = None
      BY <2>2, <2>5 DEF Marked, Uploaders, None
    <3>2. k \notin files[t]
      BY <2>2, <2>5, <3>1, InProgress DEF Marked
    <3>3. k \notin moved
      BY <2>1, <2>2, <3>2 DEF Marked, QueueOK
    <3>4. tmp[k] = u
      BY <2>5, <3>1 DEF Marked
    <3>. QED
      BY <2>1, <2>5, <3>1, <3>3, <3>4 DEF FilesOK
  <2>6. found' \in [GuardTasks -> {None, "own", "abandoned", "other"}]
    BY <2>2 DEF Marked
  <2>7. \A u \in GuardTasks : found'[u] = "other" => u \in crowded
    BY <2>2, <2>4 DEF Marked, LoneUploadIntact
  <2>8. \A k \in registered' : \E u \in running' : k \in files'[u]
    BY <2>1, <2>2 DEF Marked
  <2>. QED
    BY <2>2, <2>3, <2>5, <2>6, <2>7, <2>8 DEF Marked, LoneUploadIntact
<1>9. ASSUME NEW t \in GuardTasks, UploadPart(t) PROVE Marked'
  <2>1. PICK k \in FileNumbers :
            /\ pc[t] = "files" /\ UNCHANGED <<req, pc, registered, found, jobs, running>>
            /\ files[t] = 0 .. k - 1
            /\ \/ UNCHANGED <<tmp, files, crowded>>
               \/ /\ \/ UNCHANGED <<tmp, files>>
                     \/ tmp' = [tmp EXCEPT ![k] = Partial] /\ UNCHANGED files
                     \/ /\ tmp' = [tmp EXCEPT ![k] = t]
                        /\ files' = [files EXCEPT ![t] = @ \union {k}]
                  /\ crowded' = IF Uploaders \ {t} = {} THEN crowded
                                ELSE crowded \union Uploaders \union {t}
    BY <1>9, PartWritten, Zenon
  <2>2. k \notin files[t]
    BY <2>1 DEF FileNumbers
  <2>3. CASE UNCHANGED <<tmp, files, crowded>>
    BY <2>1, <2>3 DEF Marked, Uploaders, Queued, LoneUploadIntact
  <2>4. CASE ~UNCHANGED <<tmp, files, crowded>>
    <3>1. crowded' = IF Uploaders \ {t} = {} THEN crowded
                     ELSE crowded \union Uploaders \union {t}
      BY <2>1, <2>4
    <3>2. /\ \A u \in GuardTasks \ {t} : files'[u] = files[u]
          /\ files[t] \subseteq files'[t] /\ files'[t] \subseteq files[t] \union {k}
          /\ k \in files'[t] => tmp'[k] = t
          /\ \A j \in FileNumbers \ {k} : tmp'[j] = tmp[j]
      <4>1. CASE UNCHANGED <<tmp, files>>
        BY <2>2, <4>1
      <4>2. CASE tmp' = [tmp EXCEPT ![k] = Partial] /\ UNCHANGED files
        BY <2>2, <4>2 DEF FilesOK
      <4>3. CASE /\ tmp' = [tmp EXCEPT ![k] = t]
                 /\ files' = [files EXCEPT ![t] = @ \union {k}]
        BY <4>3 DEF FilesOK
      <4>. QED
        BY <2>1, <2>4, <4>1, <4>2, <4>3
    <3>3. Uploaders' \subseteq Uploaders \union {t} /\ Uploaders \subseteq GuardTasks
      BY <2>1, <3>2 DEF Uploaders, Queued
    <3>4. \A j \in registered' : \E u \in running' : j \in files'[u]
      BY <2>1, <3>2 DEF Marked, QueueOK
    <3>5. CASE Uploaders \ {t} = {}
      <4>1. Uploaders' \subseteq {t} /\ UNCHANGED crowded
        BY <3>1, <3>3, <3>5
      <4>2. ASSUME t \notin crowded, found[t] = None, NEW j \in files'[t]
            PROVE  tmp'[j] = t
        <5>1. j \in files[t] => tmp[j] = t
          BY <2>1, <4>2, InProgress DEF Marked
        <5>2. j \in FileNumbers
          BY <3>2, <4>2 DEF FilesOK
        <5>. QED
          BY <3>2, <4>2, <5>1, <5>2
      <4>3. UNCHANGED <<pc, found>>
        BY <2>1
      <4>. QED
        BY <3>4, <4>1, <4>2, <4>3 DEF Marked, LoneUploadIntact
    <3>6. CASE Uploaders \ {t} # {}
      <4>1. crowded' = crowded \union Uploaders \union {t}
        BY <3>1, <3>6
      <4>2. UNCHANGED <<pc, found>>
        BY <2>1
      <4>. QED
        BY <3>3, <3>4, <4>1, <4>2 DEF Marked, LoneUploadIntact
    <3>. QED
      BY <3>5, <3>6
  <2>. QED
    BY <2>3, <2>4
<1>10. CASE UNCHANGED uploadVars
  BY <1>10 DEF Marked, Uploaders, Queued, LoneUploadIntact, uploadVars
<1>. QED
  BY <1>2, <1>3, <1>4, <1>5, <1>6, <1>7, <1>8, <1>9, <1>10, StepKinds

\* However a request ends - answered, refused after its body was parsed,
\* timed out or given up by its client - and whatever writes fail and PHP
\* moves or unlinks, none of its uploads stays: UploadedFile::drop.
THEOREM UploadsAreDropped == Spec => []NoOrphanUpload
<1>. DEFINE Inv == FilesOK /\ QueueOK /\ Owned
<1>1. Init => Inv
  <2>1. Init => Owned
    BY DEF Init, PipeInit, Owned
  <2>. QED
    BY <2>1, InitFilesOK, InitQueueOK
<1>2. Inv /\ [Next]_vars => Inv'
  BY NextFilesOK, NextQueueOK, NextOwned
<1>3. Inv => NoOrphanUpload
  BY DEF FilesOK, Owned, NoOrphanUpload
<1>. QED
  BY <1>1, <1>2, <1>3, PTL DEF Spec

\* A script whose upload was alone from its first write to its execution
\* finds its own files under tmp_name, although names are shared and PHP
\* moves and unlinks what was registered with it.
THEOREM LoneUploadsFindTheirFiles == Spec => []LoneUploadIntact
<1>. DEFINE Inv == FilesOK /\ QueueOK /\ Marked
<1>1. Init => Inv
  <2>1. Init => Marked
    BY DEF Init, PipeInit, Marked, Uploaders, LoneUploadIntact, None
  <2>. QED
    BY <2>1, InitFilesOK, InitQueueOK
<1>2. Inv /\ [Next]_vars => Inv'
  BY NextFilesOK, NextQueueOK, NextMarked
<1>3. Inv => LoneUploadIntact
  BY DEF Marked
<1>. QED
  BY <1>1, <1>2, <1>3, PTL DEF Spec

----------------------------------------------------------------------------
(***************************************************************************)
(* Who made the answer                                                     *)
(***************************************************************************)
Shareable(u) == u \in GuardTasks /\ ~req[u].private

\* What is stored or was handed to a follower may be shared.
Public ==
    /\ source \in [GuardTasks -> GuardTasks \union {None}]
    /\ DOMAIN shared = GuardTasks
    /\ \A c \in cache : Shareable(c.by)
    /\ \A t \in GuardTasks : shared[t] \notin {None, "aborted"} => Shareable(shared[t])
    /\ PrivateAnswersStay

sharingVars == <<req, source, shared, cache>>

LEMMA SharingKinds ==
    ASSUME [Next]_vars
    PROVE  \/ UNCHANGED sharingVars
           \/ \E t \in GuardTasks :
                  \/ Respond(t) \/ CacheHit(t) \/ (Follow(t) /\ shared[t] # "aborted")
                  \/ /\ \E status : End(t, status, None)
                     /\ Drop(t, None) /\ UNCHANGED req
                     /\ cache' \in {cache, {}}
<1>1. ASSUME NEW t \in GuardTasks, HandleInternal(t) \/ Cancel(t)
      PROVE  \/ UNCHANGED sharingVars
             \/ /\ \E status : End(t, status, None)
                /\ Drop(t, None) /\ UNCHANGED req
                /\ cache' \in {cache, {}}
  BY <1>1, ZenonT(30) DEF HandleInternal, Cancel, Preflight, InternalAnswer,
     CacheClear, Challenge, UnblockRefused, UnblockStart, UnblockDone, Answer,
     PipeRest, sharingVars
<1>2. ASSUME NEW t \in GuardTasks,
             \/ BodyRead(t) \/ UploadPart(t) \/ StartScan(t) \/ CacheMiss(t)
             \/ Subscribe(t) \/ SendJob(t) \/ (Follow(t) /\ shared[t] = "aborted")
      PROVE  UNCHANGED sharingVars
  BY <1>2 DEF BodyRead, UploadPart, StartScan, CacheMiss, Subscribe, SendJob, Follow,
     PipeRest, sharingVars
<1>3. ASSUME NEW t \in GuardTasks,
             \/ ServeStatic(t) \/ BodyRefused(t) \/ NotFound(t)
             \/ NotListed(t) \/ InDataDir(t) \/ Blocked(t) \/ Invalid(t)
             \/ SourceUnreadable(t) \/ SendFails(t) \/ RespondError(t)
             \/ RequestTimeout(t)
      PROVE  /\ \E status : End(t, status, None)
             /\ Drop(t, None) /\ UNCHANGED <<req, cache>>
  BY <1>3, ZenonT(30) DEF ServeStatic, BodyRefused, NotFound, NotListed, InDataDir,
     Blocked, Invalid, SourceUnreadable, SendFails, RespondError, RequestTimeout,
     Answer, PipeRest
<1>4. CASE Executor
  BY <1>4 DEF Executor, ExecTake, ExecRun, ExecEnd, ExecDies, sharingVars
<1>5. ASSUME NEW t \in GuardTasks, Guarding(t) PROVE UNCHANGED sharingVars
  BY <1>5 DEF Guarding, pipeVars, sharingVars
<1>6. CASE (Tick /\ UNCHANGED pipeVars) \/ UNCHANGED vars
  BY <1>6 DEF vars, pipeVars, sharingVars
<1>. QED
  BY <1>1, <1>2, <1>3, <1>4, <1>5, <1>6 DEF Next, Handle, HandlePage

LEMMA NextPublic ==
    ASSUME Public, [Next]_vars
    PROVE  Public'
<1>. USE DEF Shareable
<1>1. ASSUME NEW t \in GuardTasks, NEW status, NEW maker, NEW p,
             End(t, status, maker), Drop(t, p), UNCHANGED req,
             p \in GuardTasks \union {None}, p # None => Shareable(p),
             maker \in GuardTasks \union {None}, maker \notin {None, t} => Shareable(maker),
             \A c \in cache' : Shareable(c.by)
      PROVE  Public'
  <2>1. source' = [source EXCEPT ![t] = maker]
    BY <1>1 DEF End
  <2>2. \A u \in GuardTasks : shared'[u] \in {shared[u], "aborted", p}
    BY <1>1 DEF Drop
  <2>3. DOMAIN shared' = GuardTasks
    BY <1>1 DEF Drop
  <2>4. PrivateAnswersStay'
    BY <1>1, <2>1 DEF Public, PrivateAnswersStay
  <2>5. source' \in [GuardTasks -> GuardTasks \union {None}]
    BY <1>1, <2>1 DEF Public
  <2>6. \A u \in GuardTasks :
            shared'[u] \notin {None, "aborted"} => Shareable(shared'[u])
    BY <1>1, <2>2 DEF Public
  <2>. QED
    BY <1>1, <2>3, <2>4, <2>5, <2>6 DEF Public
<1>2. ASSUME NEW t \in GuardTasks, Respond(t) PROVE Public'
  <2>. DEFINE p == IF req[t].private THEN None ELSE t
  <2>1. /\ End(t, "200", t) /\ Drop(t, p) /\ UNCHANGED req
        /\ cache' = IF req[t].private \/ ~Cacheable(t) THEN cache
                    ELSE {c \in cache : c.key # Key(t)}
                             \union {[key |-> Key(t), by |-> t]}
    BY <1>2 DEF Respond, PipeRest
  <2>2. \A c \in cache' : Shareable(c.by)
    <3>1. CASE req[t].private \/ ~Cacheable(t)
      BY <2>1, <3>1 DEF Public
    <3>2. CASE ~(req[t].private \/ ~Cacheable(t))
      <4>1. ASSUME NEW c \in cache' PROVE c \in cache \/ c.by = t
        BY <2>1, <3>2, <4>1
      <4>. QED
        BY <3>2, <4>1 DEF Public
    <3>. QED
      BY <3>1, <3>2
  <2>3. p \in GuardTasks \union {None} /\ (p # None => Shareable(p))
    OBVIOUS
  <2>. HIDE DEF p
  <2>. QED
    BY <1>1, <2>1, <2>2, <2>3
<1>3. ASSUME NEW t \in GuardTasks, CacheHit(t) PROVE Public'
  <2>1. PICK c \in cache : End(t, "200", c.by)
    BY <1>3 DEF CacheHit, Cached
  <2>2. Drop(t, None) /\ UNCHANGED <<req, cache>>
    BY <1>3 DEF CacheHit, PipeRest
  <2>. QED
    BY <1>1, <2>1, <2>2 DEF Public
<1>4. ASSUME NEW t \in GuardTasks, Follow(t), shared[t] # "aborted" PROVE Public'
  <2>1. /\ End(t, "200", shared[t]) /\ Drop(t, None) /\ UNCHANGED <<req, cache>>
        /\ shared[t] # None
    BY <1>4 DEF Follow, PipeRest
  <2>. QED
    BY <1>1, <1>4, <2>1 DEF Public
<1>5. ASSUME NEW t \in GuardTasks, NEW status, End(t, status, None), Drop(t, None),
             UNCHANGED req, cache' \in {cache, {}}
      PROVE  Public'
  <2>1. \A c \in cache' : Shareable(c.by)
    BY <1>5 DEF Public
  <2>. QED
    BY <1>1, <1>5, <2>1
<1>6. CASE UNCHANGED sharingVars
  BY <1>6 DEF sharingVars, Public, PrivateAnswersStay
<1>. QED
  BY <1>2, <1>3, <1>4, <1>5, <1>6, SharingKinds

LEMMA InitPublic == Init => Public
  BY DEF Init, PipeInit, Public, PrivateAnswersStay, None

\* Whatever is taken from the cache or from the leader of a flight was made
\* by a response that response_prevents_caching lets through: one made for a
\* single client never reaches a second one.
THEOREM PrivateAnswersStayPrivate == Spec => []PrivateAnswersStay
<1>1. Public /\ [Next]_vars => Public'
  BY NextPublic
<1>2. Public => PrivateAnswersStay
  BY DEF Public
<1>. QED
  BY InitPublic, <1>1, <1>2, PTL DEF Spec

----------------------------------------------------------------------------
(***************************************************************************)
(* The security layer: types, and a block that nobody can clear            *)
(***************************************************************************)
ProfileRec == [tracked : {TRUE}, requests : Nat, errors : Nat, sqli : Nat,
               start : Nat, blocked : BOOLEAN, until : Nat]

Labels == Locked \union
          {"idle", "get", "insert", "patterns", "sqli", "sqliEntry", "done"}

\* A profile is never removed, so a handler under its lock always has one;
\* a handler's clock is not ahead of the time.
GuardOK ==
    /\ now \in 1 .. MaxTime
    /\ profile \in [IPs -> ProfileRec \union {NoProfile}]
    /\ exclusive \subseteq GuardTasks
    /\ gpc \in [GuardTasks -> Labels]
    /\ at \in [GuardTasks -> Nat] /\ count \in [GuardTasks -> Nat]
    /\ verdict \in [GuardTasks -> {"none", "allow", "block"}]
    /\ condemned \in [IPs -> Nat]
    /\ \A t \in GuardTasks :
           at[t] <= now /\ (gpc[t] \in Locked => profile[ipOf[t]] \in ProfileRec)

\* The labels from which no store to the flag or the deadline of a block
\* follows without another look at them.
Harmless == {"roll", "rollRequests", "rollErrors", "rollLook", "blocked", "until"}

\* Until its deadline a block for SQLi attempts stands in the profile, and
\* whoever holds the lock has not yet looked at it.
BlockStands ==
    \A i \in IPs : now < condemned[i] =>
        /\ profile[i] \in ProfileRec
        /\ profile[i].blocked /\ profile[i].until = condemned[i]
        /\ \A t \in Holders(i) : gpc[t] \in Harmless

\* The security layer's share of a step of the pipeline.
GuardNext ==
    \/ \E t \in Checks : CheckInput(t) \/ GuardSteps(t)
    \/ \E t \in Unblockers : UnblockBegin(t) \/ UnblockStores(t)
    \/ \E i \in IPs, b \in BOOLEAN : ErrorCounted(i, b)
    \/ Tick
    \/ UNCHANGED guardVars

LEMMA GuardShare ==
    ASSUME [Next]_vars PROVE GuardNext
<1>1. ASSUME NEW t \in GuardTasks, HandleInternal(t) \/ Cancel(t) PROVE GuardNext
  BY <1>1 DEF HandleInternal, Cancel, Preflight, InternalAnswer, CacheClear,
     Challenge, UnblockRefused, UnblockStart, UnblockDone, GuardNext
<1>2. ASSUME NEW t \in GuardTasks, HandlePage(t) PROVE GuardNext
  <2>1. CASE t \in Checks /\ StartScan(t)
    BY <2>1 DEF StartScan, GuardNext
  <2>2. CASE RespondError(t)
    <3>1. ipOf[t] \in IPs /\ (reply[t] = "err") \in BOOLEAN
      BY DEF GuardTasks
    <3>. QED
      BY <2>2, <3>1, Zenon DEF RespondError, GuardNext
  <2>3. CASE ~(t \in Checks /\ StartScan(t)) /\ ~RespondError(t)
    BY <1>2, <2>3 DEF HandlePage, ServeStatic, BodyRefused, BodyRead, UploadPart,
       NotListed, InDataDir, Blocked, Invalid, NotFound, SourceUnreadable,
       CacheHit, CacheMiss, Subscribe, Follow, SendJob, SendFails, Respond, RequestTimeout, GuardNext
  <2>. QED
    BY <2>1, <2>2, <2>3
<1>3. ASSUME NEW t \in GuardTasks, Guarding(t) PROVE GuardNext
  BY <1>3, Zenon DEF Guarding, GuardNext
<1>4. CASE Executor
  BY <1>4 DEF Executor, ExecTake, ExecDies, ExecRun, ExecEnd, GuardNext
<1>5. CASE (Tick /\ UNCHANGED pipeVars) \/ UNCHANGED vars
  BY <1>5 DEF vars, GuardNext
<1>. QED
  BY <1>1, <1>2, <1>3, <1>4, <1>5 DEF Next, Handle

\* One store keeps a profile a profile.
LEMMA Stored ==
    ASSUME NEW p \in ProfileRec
    PROVE  /\ \A v \in Nat :
                  /\ [p EXCEPT !["requests"] = v] \in ProfileRec
                  /\ [p EXCEPT !["errors"] = v] \in ProfileRec
                  /\ [p EXCEPT !["sqli"] = v] \in ProfileRec
                  /\ [p EXCEPT !["start"] = v] \in ProfileRec
                  /\ [p EXCEPT !["until"] = v] \in ProfileRec
           /\ \A v \in BOOLEAN : [p EXCEPT !["blocked"] = v] \in ProfileRec
BY DEF ProfileRec

LEMMA Incremented ==
    ASSUME NEW p \in ProfileRec
    PROVE  /\ p.requests + 1 \in Nat /\ p.sqli + 1 \in Nat
           /\ [p EXCEPT !.requests = @ + 1] \in ProfileRec
           /\ [p EXCEPT !.errors = @ + 1] \in ProfileRec
           /\ [p EXCEPT !.sqli = @ + 1] \in ProfileRec
           /\ \A u \in Nat :
                 [p EXCEPT !.sqli = @ + 1, !.blocked = TRUE, !.until = u] \in ProfileRec
<1>1. /\ p.requests \in Nat /\ p.errors \in Nat /\ p.sqli \in Nat
      /\ p.start \in Nat /\ p.until \in Nat /\ p.blocked \in BOOLEAN /\ p.tracked = TRUE
      /\ p = [tracked |-> p.tracked, requests |-> p.requests, errors |-> p.errors,
              sqli |-> p.sqli, start |-> p.start, blocked |-> p.blocked,
              until |-> p.until]
  BY DEF ProfileRec
<1>2. p.requests + 1 \in Nat /\ p.errors + 1 \in Nat /\ p.sqli + 1 \in Nat
  BY <1>1
<1>3. [p EXCEPT !.requests = p.requests + 1] \in ProfileRec
  BY <1>2 DEF ProfileRec
<1>4. [p EXCEPT !.errors = p.errors + 1] \in ProfileRec
  BY <1>2 DEF ProfileRec
<1>5. [p EXCEPT !.sqli = p.sqli + 1] \in ProfileRec
  BY <1>2 DEF ProfileRec
<1>6. ASSUME NEW u \in Nat
      PROVE  [p EXCEPT !.sqli = p.sqli + 1, !.blocked = TRUE, !.until = u] \in ProfileRec
  BY <1>2 DEF ProfileRec
<1>. QED
  BY <1>2, <1>3, <1>4, <1>5, <1>6

LEMMA NewIsProfile ==
    ASSUME NEW n \in Nat PROVE NewProfile(n) \in ProfileRec
BY DEF NewProfile, ProfileRec

\* The profile entry().or_insert_with gives.
LEMMA EntryIsProfile ==
    ASSUME GuardOK, NEW i \in IPs
    PROVE  /\ profile[i].tracked => profile[i] \in ProfileRec
           /\ \A t \in GuardTasks :
                 (IF profile[i].tracked THEN profile[i] ELSE NewProfile(at[t]))
                     \in ProfileRec
<1>1. profile[i].tracked => profile[i] \in ProfileRec
  BY DEF GuardOK, NoProfile
<1>2. \A t \in GuardTasks : NewProfile(at[t]) \in ProfileRec
  BY NewIsProfile DEF GuardOK
<1>. QED
  BY <1>1, <1>2

LEMMA NextGuardOK ==
    ASSUME GuardOK, GuardNext
    PROVE  GuardOK'
<1>1. ASSUME NEW t \in GuardTasks, NEW from \in Locked, NEW field, NEW value,
             NEW to \in Labels, Store(t, from, field, value, to),
             [profile[ipOf[t]] EXCEPT ![field] = value] \in ProfileRec
      PROVE  GuardOK'
  <2>1. ipOf[t] \in IPs
    BY DEF GuardTasks
  <2>2. profile' = [profile EXCEPT ![ipOf[t]] =
                        [profile[ipOf[t]] EXCEPT ![field] = value]]
    BY <1>1 DEF Store
  <2>. QED
    BY <1>1, <2>1, <2>2 DEF Store, Goto, GuardOK
<1>2. ASSUME NEW t \in GuardTasks, NEW from \in Labels, NEW to \in Labels,
             Test(t, from, to), to \in Locked => profile[ipOf[t]] \in ProfileRec
      PROVE  GuardOK'
  BY <1>2 DEF Test, Goto, GuardOK
<1>3. ASSUME NEW t \in GuardTasks, gpc[t] \in Locked
      PROVE  profile[ipOf[t]] \in ProfileRec
  BY <1>3 DEF GuardOK
<1>4. ASSUME NEW t \in GuardTasks PROVE ipOf[t] \in IPs
  BY DEF GuardTasks
<1>5. ASSUME NEW t \in GuardTasks, BlockRequest(t) PROVE GuardOK'
  BY <1>5 DEF BlockRequest, Leave, Goto, Return, GuardOK, Labels, Locked
<1>6. ASSUME NEW t \in GuardTasks, CheckInput(t) PROVE GuardOK'
  BY <1>6 DEF CheckInput, Goto, Return, GuardOK, Labels, Locked
<1>7. ASSUME NEW t \in GuardTasks, GetProfile(t) PROVE GuardOK'
  <2>1. ipOf[t] \in Tracked => profile[ipOf[t]] \in ProfileRec
    BY DEF Tracked, GuardOK, NoProfile
  <2>2. CASE ipOf[t] \in Tracked
    <3>1. Test(t, "get", "roll")
      BY <1>7, <2>2 DEF GetProfile
    <3>. QED
      BY <1>2, <2>1, <2>2, <3>1 DEF Labels, Locked
  <2>3. CASE ipOf[t] \notin Tracked
    <3>1. Test(t, "get", "insert")
      BY <1>7, <2>3 DEF GetProfile
    <3>. QED
      BY <1>2, <3>1 DEF Labels, Locked
  <2>. QED
    BY <2>2, <2>3
<1>8. ASSUME NEW t \in GuardTasks, InsertProfile(t) PROVE GuardOK'
  <2>. DEFINE q == IF profile[ipOf[t]].tracked THEN profile[ipOf[t]]
                   ELSE NewProfile(at[t])
  <2>1. q \in ProfileRec
    BY <1>4, EntryIsProfile
  <2>2. profile' = [profile EXCEPT ![ipOf[t]] = q]
    BY <1>8 DEF InsertProfile
  <2>. HIDE DEF q
  <2>. QED
    BY <1>4, <1>8, <2>1, <2>2 DEF InsertProfile, Goto, GuardOK, Labels, Locked
<1>9. ASSUME NEW t \in GuardTasks, Rollover(t) PROVE GuardOK'
  <2>. DEFINE p == profile[ipOf[t]]
  <2>1. gpc[t] \in Locked /\ p \in ProfileRec /\ at[t] \in Nat
    BY <1>3, <1>9 DEF Rollover, Store, Test, Locked, GuardOK
  <2>2. \/ Store(t, "roll", "start", at[t], "rollRequests")
        \/ Store(t, "rollRequests", "requests", 0, "rollErrors")
        \/ Store(t, "rollErrors", "errors", 0, "rollLook")
        \/ Store(t, "rollClear", "blocked", FALSE, "rollUntil")
        \/ Store(t, "rollUntil", "until", 0, "rollSqli")
        \/ Store(t, "rollSqli", "sqli", 0, "blocked")
        \/ \E from \in {"roll", "rollLook"}, to \in {"blocked", "rollClear"} :
               Test(t, from, to)
    BY <1>9 DEF Rollover
  <2>3. \A to \in {"rollRequests", "rollErrors", "rollLook", "rollUntil",
                   "rollSqli", "blocked", "rollClear", "roll"} :
            to \in Labels /\ to \in Locked
    BY DEF Labels, Locked
  <2>4. \A from \in Locked : from \in Labels
    BY DEF Labels
  <2>. HIDE DEF p
  <2>. QED
    BY <1>1, <1>2, <2>1, <2>2, <2>3, <2>4, Stored, Zenon DEF p
<1>10. ASSUME NEW t \in GuardTasks, StillBlocked(t) PROVE GuardOK'
  <2>1. /\ gpc[t] \in Locked /\ profile[ipOf[t]] \in ProfileRec
    BY <1>3, <1>10 DEF StillBlocked, Store, Test, Locked
  <2>2. \/ Store(t, "clear", "blocked", FALSE, "clearUntil")
        \/ Store(t, "clearUntil", "until", 0, "add")
        \/ BlockRequest(t)
        \/ \E from \in {"blocked", "until"}, to \in {"until", "add", "clear"} :
               Test(t, from, to)
    BY <1>10 DEF StillBlocked
  <2>3. \A to \in {"clear", "clearUntil", "add", "blocked", "until"} :
            to \in Labels /\ to \in Locked
    BY DEF Labels, Locked
  <2>4. \A from \in Locked : from \in Labels
    BY DEF Labels
  <2>. QED
    BY <1>1, <1>2, <1>5, <2>1, <2>2, <2>3, <2>4, Stored, Zenon
<1>11. ASSUME NEW t \in GuardTasks, CountRequest(t) PROVE GuardOK'
  <2>1. /\ gpc[t] \in Locked /\ profile[ipOf[t]] \in ProfileRec
    BY <1>3, <1>11 DEF CountRequest, Locked
  <2>2. CASE gpc[t] = "rate"
    <3>1. BlockRequest(t) \/ Test(t, "rate", "scan")
      BY <1>11, <2>2 DEF CountRequest
    <3>. QED
      BY <1>2, <1>5, <2>1, <3>1 DEF Labels, Locked
  <2>3. CASE gpc[t] = "add"
    <3>. DEFINE q == [profile[ipOf[t]] EXCEPT !.requests = @ + 1]
    <3>1. /\ profile' = [profile EXCEPT ![ipOf[t]] = q]
          /\ count' = [count EXCEPT ![t] = profile[ipOf[t]].requests + 1]
          /\ \E to \in {"rate", "scan"} : Goto(t, to)
          /\ UNCHANGED <<security, now, exclusive, at, verdict, condemned>>
      BY <1>11, <2>3 DEF CountRequest
    <3>2. q \in ProfileRec /\ profile[ipOf[t]].requests + 1 \in Nat
      BY <2>1, Incremented
    <3>3. gpc' \in [GuardTasks -> Labels]
      BY <3>1 DEF Goto, GuardOK, Labels, Locked
    <3>. HIDE DEF q
    <3>. QED
      BY <1>4, <2>1, <3>1, <3>2, <3>3 DEF Goto, GuardOK
  <2>. QED
    BY <1>11, <2>2, <2>3 DEF CountRequest
<1>12. ASSUME NEW t \in GuardTasks, DetectScan(t) PROVE GuardOK'
  <2>1. gpc[t] \in Locked /\ profile[ipOf[t]] \in ProfileRec
    BY <1>3, <1>12 DEF DetectScan, Store, Locked
  <2>2. CASE Store(t, "scanBlock", "blocked", TRUE, "scanUntil")
    BY <1>1, <2>1, <2>2, Stored DEF Labels, Locked
  <2>3. CASE gpc[t] = "scan"
    <3>1. CASE Test(t, "scan", "scanBlock")
      BY <1>2, <2>1, <3>1 DEF Labels, Locked
    <3>2. CASE ~Test(t, "scan", "scanBlock")
      <4>1. /\ Leave(t, "patterns")
            /\ UNCHANGED <<security, now, profile, at, count, verdict, condemned>>
        BY <1>12, <2>3, <3>2 DEF DetectScan, Store
      <4>. QED
        BY <4>1 DEF Leave, Goto, GuardOK, Labels, Locked
    <3>. QED
      BY <3>1, <3>2
  <2>4. CASE gpc[t] = "scanUntil"
    <3>. DEFINE q == [profile[ipOf[t]] EXCEPT !.until = at[t] + ScanBlock]
    <3>1. /\ profile' = [profile EXCEPT ![ipOf[t]] = q]
          /\ Leave(t, "done") /\ Return(t, "block")
          /\ UNCHANGED <<security, now, at, count, condemned>>
      BY <1>12, <2>4 DEF DetectScan, Store
    <3>2. q \in ProfileRec
      <4>1. at[t] + ScanBlock \in Nat
        BY DEF GuardOK
      <4>. QED
        BY <2>1, <4>1 DEF ProfileRec
    <3>. HIDE DEF q
    <3>. QED
      BY <1>4, <3>1, <3>2 DEF Leave, Goto, Return, GuardOK, Labels, Locked
  <2>. QED
    BY <1>12, <2>2, <2>3, <2>4 DEF DetectScan
<1>13. ASSUME NEW t \in GuardTasks, CheckPatterns(t) PROVE GuardOK'
  <2>1. /\ UNCHANGED <<security, now, profile, exclusive, at, count, condemned>>
        /\ \/ Goto(t, "sqli") /\ UNCHANGED verdict
           \/ Goto(t, "done") /\ \E v \in {"block", "allow"} : Return(t, v)
    BY <1>13 DEF CheckPatterns
  <2>. QED
    BY <2>1 DEF Goto, Return, GuardOK, Labels, Locked
<1>14. ASSUME NEW t \in GuardTasks, SqliBegin(t) PROVE GuardOK'
  BY <1>14 DEF SqliBegin, Goto, Return, GuardOK, Labels, Locked
<1>15. ASSUME NEW t \in GuardTasks, SqliRecord(t) PROVE GuardOK'
  <2>1. PICK q \in ProfileRec : profile' = [profile EXCEPT ![ipOf[t]] = q]
    <3>. DEFINE p == IF profile[ipOf[t]].tracked THEN profile[ipOf[t]]
                     ELSE NewProfile(at[t])
    <3>1. p \in ProfileRec
      BY <1>4, EntryIsProfile
    <3>2. at[t] + SqliBlock \in Nat
      BY DEF GuardOK
    <3>3. \/ profile' = [profile EXCEPT ![ipOf[t]] =
                 [p EXCEPT !.sqli = @ + 1, !.blocked = TRUE, !.until = at[t] + SqliBlock]]
          \/ profile' = [profile EXCEPT ![ipOf[t]] = [p EXCEPT !.sqli = @ + 1]]
      BY <1>15 DEF SqliRecord
    <3>. HIDE DEF p
    <3>4. /\ [p EXCEPT !.sqli = @ + 1, !.blocked = TRUE, !.until = at[t] + SqliBlock]
                  \in ProfileRec
          /\ [p EXCEPT !.sqli = @ + 1] \in ProfileRec
      BY <3>1, <3>2, Incremented, Zenon
    <3>. QED
      BY <3>3, <3>4
  <2>2. condemned' \in [IPs -> Nat]
    <3>1. at[t] + SqliBlock \in Nat
      BY DEF GuardOK
    <3>2. \/ condemned' = [condemned EXCEPT ![ipOf[t]] = at[t] + SqliBlock]
          \/ condemned' = condemned
      BY <1>15 DEF SqliRecord
    <3>. QED
      BY <1>4, <3>1, <3>2 DEF GuardOK
  <2>3. /\ Goto(t, "done") /\ Return(t, "block")
        /\ UNCHANGED <<security, now, exclusive, at, count>>
    BY <1>15 DEF SqliRecord
  <2>. QED
    BY <1>4, <2>1, <2>2, <2>3 DEF Goto, Return, GuardOK, Labels, Locked
<1>16. ASSUME NEW t \in GuardTasks, UnblockBegin(t) PROVE GuardOK'
  <2>1. ipOf[t] \in Tracked => profile[ipOf[t]] \in ProfileRec
    BY DEF Tracked, GuardOK, NoProfile
  <2>. QED
    BY <1>4, <1>16, <2>1 DEF UnblockBegin, Goto, GuardOK, Labels, Locked
<1>17. ASSUME NEW t \in GuardTasks, UnblockStores(t) PROVE GuardOK'
  <2>1. profile[ipOf[t]] \in ProfileRec
    BY <1>3, <1>17 DEF UnblockStores, Store, Locked
  <2>2. \A to \in {"unblock", "unblockUntil", "unblockSqli"} :
            to \in Labels /\ to \in Locked
    BY DEF Labels, Locked
  <2>3. "done" \in Labels
    BY DEF Labels
  <2>. QED
    BY <1>1, <1>17, <2>1, <2>2, <2>3, Stored, Zenon DEF UnblockStores
<1>18. ASSUME NEW i \in IPs, NEW b, ErrorCounted(i, b) PROVE GuardOK'
  <2>1. CASE profile[i].tracked /\ profile' # profile
    <3>. DEFINE q == [profile[i] EXCEPT !.errors = @ + 1]
    <3>1. profile' = [profile EXCEPT ![i] = q]
      BY <1>18, <2>1 DEF ErrorCounted
    <3>2. q \in ProfileRec
      BY <2>1, EntryIsProfile, Incremented
    <3>. HIDE DEF q
    <3>. QED
      BY <1>18, <3>1, <3>2 DEF ErrorCounted, guardLocals, GuardOK
  <2>2. CASE ~(profile[i].tracked /\ profile' # profile)
    BY <1>18, <2>2 DEF ErrorCounted, guardLocals, GuardOK
  <2>. QED
    BY <2>1, <2>2
<1>19. CASE Tick
  BY <1>19 DEF Tick, guardLocals, GuardOK
<1>20. CASE UNCHANGED guardVars
  BY <1>20 DEF guardVars, guardLocals, GuardOK
<1>. QED
  BY <1>6, <1>7, <1>8, <1>9, <1>10, <1>11, <1>12, <1>13, <1>14, <1>15, <1>16,
     <1>17, <1>18, <1>19, <1>20 DEF GuardNext, GuardSteps, Evaluate, GuardTasks

LEMMA InitGuardOK == Init => GuardOK /\ BlockStands
<1>. SUFFICES ASSUME Init PROVE GuardOK /\ BlockStands
  OBVIOUS
<1>1. now \in 1 .. MaxTime
  BY TrafficAssumption, Zenon DEF Init, PipeInit
<1>2. GuardOK
  <2>1. \A i \in IPs : profile[i] = NoProfile
    BY DEF Init, GuardInit
  <2>. QED
    BY <1>1, <2>1 DEF Init, GuardInit, GuardOK, Labels, Locked
<1>3. \A i \in IPs : ~(now < condemned[i])
  BY <1>1 DEF Init, GuardInit
<1>. QED
  BY <1>2, <1>3 DEF BlockStands

\* What a step of one handler has to keep for its own address.
LEMMA StandsElsewhere ==
    ASSUME GuardOK, BlockStands, NEW t \in GuardTasks, NEW label, Goto(t, label),
           now' = now,
           \A j \in IPs \ {ipOf[t]} :
               profile'[j] = profile[j] /\ condemned'[j] = condemned[j],
           now < condemned'[ipOf[t]] =>
               /\ profile'[ipOf[t]] \in ProfileRec
               /\ profile'[ipOf[t]].blocked
               /\ profile'[ipOf[t]].until = condemned'[ipOf[t]]
               /\ label \in Locked => label \in Harmless
               /\ \A u \in Holders(ipOf[t]) \ {t} : gpc[u] \in Harmless
    PROVE  BlockStands'
<1>. SUFFICES ASSUME NEW i \in IPs, now < condemned'[i]
              PROVE  /\ profile'[i] \in ProfileRec
                     /\ profile'[i].blocked /\ profile'[i].until = condemned'[i]
                     /\ \A u \in Holders(i)' : gpc'[u] \in Harmless
  BY DEF BlockStands
<1>1. /\ gpc'[t] = label
      /\ \A u \in GuardTasks \ {t} : gpc'[u] = gpc[u]
  BY DEF Goto, GuardOK
<1>2. \A u \in Holders(i)' : /\ u \in GuardTasks /\ ipOf[u] = i /\ gpc'[u] \in Locked
                             /\ u # t => u \in Holders(i)
  BY <1>1 DEF Holders
<1>3. CASE i = ipOf[t]
  BY <1>1, <1>2, <1>3
<1>4. CASE i # ipOf[t]
  BY <1>1, <1>2, <1>4 DEF BlockStands
<1>. QED
  BY <1>3, <1>4

LEMMA NextBlockStands ==
    ASSUME GuardOK, BlockStands, GuardNext
    PROVE  BlockStands'
<1>1. ASSUME NEW t \in GuardTasks
      PROVE  /\ ipOf[t] \in IPs /\ at[t] \in Nat /\ at[t] <= now /\ now \in Nat
             /\ condemned[ipOf[t]] \in Nat
             /\ now < condemned[ipOf[t]] =>
                   /\ profile[ipOf[t]] \in ProfileRec
                   /\ profile[ipOf[t]].blocked
                   /\ profile[ipOf[t]].until = condemned[ipOf[t]]
                   /\ \A u \in Holders(ipOf[t]) : gpc[u] \in Harmless
             /\ gpc[t] \in Locked => t \in Holders(ipOf[t])
  BY DEF GuardTasks, GuardOK, BlockStands, Holders
\* A handler that may clear or replace the block is not there before the
\* deadline.
<1>2. ASSUME NEW t \in GuardTasks, gpc[t] \in Locked \ Harmless, NEW label,
             Goto(t, label), UNCHANGED <<now, condemned>>,
             \A j \in IPs \ {ipOf[t]} : profile'[j] = profile[j]
      PROVE  BlockStands'
  <2>1. ~(now < condemned[ipOf[t]])
    BY <1>1, <1>2
  <2>. QED
    BY <1>2, <2>1, StandsElsewhere
\* One that has not looked yet, or leaves the lock, keeps it.
<1>3. ASSUME NEW t \in GuardTasks, NEW label, Goto(t, label),
             now < condemned[ipOf[t]] => (label \in Locked => label \in Harmless),
             UNCHANGED <<now, condemned, profile>>
      PROVE  BlockStands'
  BY <1>1, <1>3, StandsElsewhere
<1>4. ASSUME NEW t \in GuardTasks, NEW from \in Harmless, NEW to \in Harmless,
             NEW field \in {"start", "requests", "errors"}, NEW v \in Nat,
             Store(t, from, field, v, to)
      PROVE  BlockStands'
  <2>. DEFINE q == [profile[ipOf[t]] EXCEPT ![field] = v]
  <2>1. /\ profile' = [profile EXCEPT ![ipOf[t]] = q]
        /\ Goto(t, to) /\ UNCHANGED <<now, condemned>>
    BY <1>4 DEF Store
  <2>2. profile[ipOf[t]] \in ProfileRec =>
            /\ q \in ProfileRec /\ q.blocked = profile[ipOf[t]].blocked
            /\ q.until = profile[ipOf[t]].until
    BY <1>4 DEF ProfileRec
  <2>. HIDE DEF q
  <2>3. /\ profile'[ipOf[t]] = q
        /\ \A j \in IPs \ {ipOf[t]} : profile'[j] = profile[j]
    BY <1>1, <2>1 DEF GuardOK
  <2>. QED
    BY <1>1, <1>4, <2>1, <2>2, <2>3, StandsElsewhere
<1>5. ASSUME NEW t \in GuardTasks, NEW from \in Locked \ Harmless, NEW to,
             NEW field, NEW v, Store(t, from, field, v, to)
      PROVE  BlockStands'
  <2>1. \A j \in IPs \ {ipOf[t]} : profile'[j] = profile[j]
    BY <1>1, <1>5 DEF Store, GuardOK
  <2>. QED
    BY <1>2, <1>5, <2>1 DEF Store
<1>6. ASSUME NEW t \in GuardTasks, BlockRequest(t) PROVE BlockStands'
  BY <1>3, <1>6 DEF BlockRequest, Leave, Locked
<1>7. ASSUME NEW t \in GuardTasks, CheckInput(t) PROVE BlockStands'
  <2>1. /\ UNCHANGED <<now, condemned, profile>>
        /\ \E label \in {"done", "get", "patterns"} : Goto(t, label)
    BY <1>7 DEF CheckInput
  <2>. QED
    BY <1>3, <2>1 DEF Locked
<1>8. ASSUME NEW t \in GuardTasks, GetProfile(t) PROVE BlockStands'
  <2>1. /\ UNCHANGED <<now, condemned, profile>>
        /\ \E label \in {"roll", "insert"} : Goto(t, label)
    BY <1>8 DEF GetProfile, Test
  <2>. QED
    BY <1>3, <2>1 DEF Locked, Harmless
<1>9. ASSUME NEW t \in GuardTasks, InsertProfile(t) PROVE BlockStands'
  <2>. DEFINE q == IF profile[ipOf[t]].tracked THEN profile[ipOf[t]]
                   ELSE NewProfile(at[t])
  <2>1. /\ profile' = [profile EXCEPT ![ipOf[t]] = q]
        /\ Goto(t, "roll") /\ UNCHANGED <<now, condemned>>
    BY <1>9 DEF InsertProfile
  <2>2. profile[ipOf[t]] \in ProfileRec => q = profile[ipOf[t]]
    BY DEF ProfileRec
  <2>. HIDE DEF q
  <2>3. /\ profile'[ipOf[t]] = q
        /\ \A j \in IPs \ {ipOf[t]} : profile'[j] = profile[j]
    BY <1>1, <2>1 DEF GuardOK
  <2>4. "roll" \in Harmless
    BY DEF Harmless
  <2>. QED
    BY <1>1, <2>1, <2>2, <2>3, <2>4, StandsElsewhere
<1>10. ASSUME NEW t \in GuardTasks, Rollover(t) PROVE BlockStands'
  <2>1. CASE \/ Store(t, "rollClear", "blocked", FALSE, "rollUntil")
             \/ Store(t, "rollUntil", "until", 0, "rollSqli")
             \/ Store(t, "rollSqli", "sqli", 0, "blocked")
    <3>1. {"rollClear", "rollUntil", "rollSqli"} \subseteq Locked \ Harmless
      BY DEF Locked, Harmless
    <3>. QED
      BY <1>5, <2>1, <3>1
  <2>2. CASE \/ Store(t, "roll", "start", at[t], "rollRequests")
             \/ Store(t, "rollRequests", "requests", 0, "rollErrors")
             \/ Store(t, "rollErrors", "errors", 0, "rollLook")
    <3>1. {"roll", "rollRequests", "rollErrors", "rollLook"} \subseteq Harmless
      BY DEF Harmless
    <3>. QED
      BY <1>1, <1>4, <2>2, <3>1
  <2>3. CASE Test(t, "roll", "blocked")
    BY <1>3, <2>3 DEF Test, Harmless
  <2>4. CASE Test(t, "rollLook", IF profile[ipOf[t]].until # 0 /\ profile[ipOf[t]].until <= at[t]
                                 THEN "rollClear" ELSE "blocked")
    <3>1. now < condemned[ipOf[t]] =>
              ~(profile[ipOf[t]].until # 0 /\ profile[ipOf[t]].until <= at[t])
      BY <1>1
    <3>. QED
      BY <1>3, <2>4, <3>1 DEF Test, Harmless
  <2>. QED
    BY <1>10, <2>1, <2>2, <2>3, <2>4 DEF Rollover
<1>11. ASSUME NEW t \in GuardTasks, StillBlocked(t) PROVE BlockStands'
  <2>1. CASE \/ Store(t, "clear", "blocked", FALSE, "clearUntil")
             \/ Store(t, "clearUntil", "until", 0, "add")
    <3>1. {"clear", "clearUntil"} \subseteq Locked \ Harmless
      BY DEF Locked, Harmless
    <3>. QED
      BY <1>5, <2>1, <3>1
  <2>2. CASE Test(t, "blocked", IF profile[ipOf[t]].blocked THEN "until" ELSE "add")
    BY <1>1, <1>3, <2>2 DEF Test, Harmless
  <2>3. CASE BlockRequest(t)
    BY <1>6, <2>3
  <2>4. CASE /\ ~(profile[ipOf[t]].until # 0 /\ at[t] < profile[ipOf[t]].until)
             /\ Test(t, "until", "clear")
    <3>1. ~(now < condemned[ipOf[t]])
      BY <1>1, <2>4
    <3>. QED
      BY <1>3, <2>4, <3>1 DEF Test
  <2>. QED
    BY <1>11, <2>1, <2>2, <2>3, <2>4 DEF StillBlocked
<1>12. ASSUME NEW t \in GuardTasks, CountRequest(t) \/ DetectScan(t)
       PROVE  BlockStands'
  <2>1. /\ gpc[t] \in Locked \ Harmless /\ UNCHANGED <<now, condemned>>
        /\ \E label : Goto(t, label)
    BY <1>12 DEF CountRequest, DetectScan, Store, Test, BlockRequest, Leave,
       Locked, Harmless
  <2>2. \A j \in IPs \ {ipOf[t]} : profile'[j] = profile[j]
    BY <1>1, <1>12 DEF CountRequest, DetectScan, Store, Test, BlockRequest, GuardOK
  <2>. QED
    BY <1>2, <2>1, <2>2
<1>13. ASSUME NEW t \in GuardTasks, CheckPatterns(t) \/ SqliBegin(t)
       PROVE  BlockStands'
  <2>1. /\ UNCHANGED <<now, condemned, profile>>
        /\ \E label \in {"sqli", "done", "sqliEntry"} : Goto(t, label)
    BY <1>13 DEF CheckPatterns, SqliBegin
  <2>. QED
    BY <1>3, <2>1 DEF Locked
<1>14. ASSUME NEW t \in GuardTasks, SqliRecord(t) PROVE BlockStands'
  <2>. DEFINE p == IF profile[ipOf[t]].tracked THEN profile[ipOf[t]]
                   ELSE NewProfile(at[t])
              q1 == [p EXCEPT !.sqli = @ + 1, !.blocked = TRUE,
                              !.until = at[t] + SqliBlock]
              q2 == [p EXCEPT !.sqli = @ + 1]
  <2>1. /\ Goto(t, "done") /\ now' = now /\ Holders(ipOf[t]) = {}
        /\ \/ /\ profile' = [profile EXCEPT ![ipOf[t]] = q1]
              /\ condemned' = [condemned EXCEPT ![ipOf[t]] = at[t] + SqliBlock]
           \/ /\ profile' = [profile EXCEPT ![ipOf[t]] = q2]
              /\ UNCHANGED condemned
    BY <1>14 DEF SqliRecord
  <2>2. p \in ProfileRec
    BY <1>1, EntryIsProfile
  <2>3. profile[ipOf[t]] \in ProfileRec => p = profile[ipOf[t]]
    BY DEF ProfileRec
  <2>4. at[t] + SqliBlock \in Nat
    BY <1>1
  <2>5. "done" \notin Locked
    BY DEF Locked
  <2>. HIDE DEF p
  <2>6. /\ q1 \in ProfileRec /\ q2 \in ProfileRec
    BY <2>2, <2>4, Incremented, Zenon
  <2>7. /\ q1.blocked /\ q1.until = at[t] + SqliBlock
        /\ q2.blocked = p.blocked /\ q2.until = p.until
    BY <2>2, <2>4 DEF ProfileRec
  <2>. HIDE DEF q1, q2
  <2>8. CASE /\ profile' = [profile EXCEPT ![ipOf[t]] = q1]
             /\ condemned' = [condemned EXCEPT ![ipOf[t]] = at[t] + SqliBlock]
    <3>1. /\ profile'[ipOf[t]] = q1 /\ condemned'[ipOf[t]] = at[t] + SqliBlock
          /\ \A j \in IPs \ {ipOf[t]} :
                 profile'[j] = profile[j] /\ condemned'[j] = condemned[j]
      BY <1>1, <2>8 DEF GuardOK
    <3>. QED
      BY <2>1, <2>5, <2>6, <2>7, <3>1, StandsElsewhere
  <2>9. CASE /\ profile' = [profile EXCEPT ![ipOf[t]] = q2]
             /\ UNCHANGED condemned
    <3>1. /\ profile'[ipOf[t]] = q2
          /\ \A j \in IPs \ {ipOf[t]} : profile'[j] = profile[j]
      BY <1>1, <2>9 DEF GuardOK
    <3>. QED
      BY <1>1, <2>1, <2>3, <2>5, <2>6, <2>7, <2>9, <3>1, StandsElsewhere
  <2>. QED
    BY <2>1, <2>8, <2>9
<1>15. ASSUME NEW t \in GuardTasks, UnblockBegin(t) PROVE BlockStands'
  <2>1. /\ UNCHANGED <<now, profile>> /\ \E label : Goto(t, label)
        /\ condemned' = [condemned EXCEPT ![ipOf[t]] = 0]
    BY <1>15 DEF UnblockBegin
  <2>2. ~(now < condemned'[ipOf[t]])
    BY <1>1, <2>1 DEF GuardOK
  <2>3. \A j \in IPs \ {ipOf[t]} : condemned'[j] = condemned[j]
    BY <1>1, <2>1 DEF GuardOK
  <2>. QED
    BY <2>1, <2>2, <2>3, StandsElsewhere
<1>16. ASSUME NEW t \in GuardTasks, UnblockStores(t) PROVE BlockStands'
  <2>1. {"unblock", "unblockUntil", "unblockSqli"} \subseteq Locked \ Harmless
    BY DEF Locked, Harmless
  <2>. QED
    BY <1>5, <1>16, <2>1 DEF UnblockStores
<1>17. ASSUME NEW i \in IPs, NEW b, ErrorCounted(i, b) PROVE BlockStands'
  <2>1. /\ UNCHANGED <<now, gpc, condemned>>
    BY <1>17 DEF ErrorCounted, guardLocals
  <2>2. ASSUME NEW j \in IPs, profile[j] \in ProfileRec
        PROVE  /\ profile'[j] \in ProfileRec
               /\ profile'[j].blocked = profile[j].blocked
               /\ profile'[j].until = profile[j].until
    <3>1. \/ profile' = profile
          \/ profile' = [profile EXCEPT ![i] = [profile[i] EXCEPT !.errors = @ + 1]]
      BY <1>17 DEF ErrorCounted
    <3>2. \/ profile'[j] = profile[j]
          \/ profile'[j] = [profile[j] EXCEPT !.errors = @ + 1]
      BY <3>1 DEF GuardOK
    <3>3. /\ [profile[j] EXCEPT !.errors = @ + 1] \in ProfileRec
          /\ [profile[j] EXCEPT !.errors = @ + 1].blocked = profile[j].blocked
          /\ [profile[j] EXCEPT !.errors = @ + 1].until = profile[j].until
      <4>1. [profile[j] EXCEPT !.errors = @ + 1] \in ProfileRec
        BY <2>2, Incremented
      <4>. QED
        BY <2>2, <4>1 DEF ProfileRec
    <3>. QED
      BY <2>2, <3>2, <3>3
  <2>. QED
    BY <2>1, <2>2 DEF BlockStands, Holders
<1>18. CASE Tick
  <2>1. /\ now' = now + 1 /\ UNCHANGED <<profile, gpc, condemned>>
    BY <1>18 DEF Tick, guardLocals
  <2>2. \A i \in IPs : now' < condemned[i] => now < condemned[i]
    BY <2>1 DEF GuardOK
  <2>. QED
    BY <2>1, <2>2 DEF BlockStands, Holders
<1>19. CASE UNCHANGED guardVars
  BY <1>19 DEF guardVars, guardLocals, BlockStands, Holders
<1>. QED
  BY <1>7, <1>8, <1>9, <1>10, <1>11, <1>12, <1>13, <1>14, <1>15, <1>16, <1>17,
     <1>18, <1>19 DEF GuardNext, GuardSteps, Evaluate, GuardTasks

\* A request that evaluate lets pass was not where it would have seen a
\* block for the first time.
LEMMA PassedLooked ==
    ASSUME GuardOK, GuardNext, NEW t \in Checks,
           gpc[t] \in Locked, gpc'[t] = "patterns"
    PROVE  gpc[t] \notin Harmless
<1>. SUFFICES ASSUME gpc[t] \in Harmless PROVE FALSE
  OBVIOUS
<1>1. "patterns" \notin Locked
  BY DEF Locked
<1>2. ASSUME NEW u \in GuardTasks, NEW label, Goto(u, label)
      PROVE  u = t /\ label = "patterns"
  BY <1>1, <1>2 DEF Goto, GuardOK
<1>3. ASSUME NEW u \in GuardTasks, NEW from, NEW to, Test(u, from, to)
      PROVE  u = t /\ to = "patterns"
  BY <1>2, <1>3 DEF Test
<1>4. ASSUME NEW u \in GuardTasks, NEW from, NEW field, NEW v, NEW to,
             Store(u, from, field, v, to)
      PROVE  u = t /\ to = "patterns"
  BY <1>2, <1>4 DEF Store
<1>5. ASSUME NEW u \in GuardTasks, BlockRequest(u) PROVE FALSE
  BY <1>2, <1>5 DEF BlockRequest, Leave
<1>6. ASSUME NEW u \in GuardTasks, CheckInput(u) PROVE FALSE
  <2>1. gpc[u] = "idle" /\ \E label : Goto(u, label)
    BY <1>6 DEF CheckInput
  <2>. QED
    BY <1>2, <2>1 DEF Harmless
<1>7. ASSUME NEW u \in GuardTasks, GetProfile(u) \/ InsertProfile(u) PROVE FALSE
  <2>1. \/ \E to \in {"roll", "insert"} : Test(u, "get", to)
        \/ Goto(u, "roll")
    BY <1>7 DEF GetProfile, InsertProfile
  <2>. QED
    BY <1>2, <1>3, <2>1
<1>8. ASSUME NEW u \in GuardTasks, Rollover(u) PROVE FALSE
  <2>1. \/ Store(u, "roll", "start", at[u], "rollRequests")
        \/ Store(u, "rollRequests", "requests", 0, "rollErrors")
        \/ Store(u, "rollErrors", "errors", 0, "rollLook")
        \/ Store(u, "rollClear", "blocked", FALSE, "rollUntil")
        \/ Store(u, "rollUntil", "until", 0, "rollSqli")
        \/ Store(u, "rollSqli", "sqli", 0, "blocked")
        \/ \E from \in {"roll", "rollLook"}, to \in {"blocked", "rollClear"} :
               Test(u, from, to)
    BY <1>8 DEF Rollover
  <2>2. \A to \in {"rollRequests", "rollErrors", "rollLook", "rollUntil", "rollSqli",
                   "blocked", "rollClear"} : to # "patterns"
    OBVIOUS
  <2>. QED
    BY <1>3, <1>4, <2>1, <2>2, Zenon
<1>9. ASSUME NEW u \in GuardTasks, StillBlocked(u) PROVE FALSE
  <2>1. \/ Store(u, "clear", "blocked", FALSE, "clearUntil")
        \/ Store(u, "clearUntil", "until", 0, "add")
        \/ BlockRequest(u)
        \/ \E from \in {"blocked", "until"}, to \in {"until", "add", "clear"} :
               Test(u, from, to)
    BY <1>9 DEF StillBlocked
  <2>2. \A to \in {"clearUntil", "until", "add", "clear"} : to # "patterns"
    OBVIOUS
  <2>. QED
    BY <1>3, <1>4, <1>5, <2>1, <2>2, Zenon
<1>10. ASSUME NEW u \in GuardTasks, \/ CountRequest(u) \/ DetectScan(u)
              \/ CheckPatterns(u) \/ SqliBegin(u) \/ SqliRecord(u)
       PROVE  FALSE
  <2>1. gpc[u] \notin Harmless /\ \E label : Goto(u, label)
    BY <1>10 DEF CountRequest, DetectScan, CheckPatterns, SqliBegin, SqliRecord,
       Store, Test, BlockRequest, Leave, Harmless
  <2>. QED
    BY <1>2, <2>1
<1>11. ASSUME NEW u \in Unblockers, UnblockBegin(u) \/ UnblockStores(u) PROVE FALSE
  <2>1. \E label : Goto(u, label)
    BY <1>11 DEF UnblockBegin, UnblockStores, Store
  <2>. QED
    BY <1>2, <2>1 DEF GuardTasks
<1>12. UNCHANGED gpc => FALSE
  BY <1>1
<1>. QED
  BY <1>6, <1>7, <1>8, <1>9, <1>10, <1>11, <1>12 DEF GuardNext, GuardSteps, Evaluate,
     GuardTasks, ErrorCounted, Tick, guardVars, guardLocals

\* An address that reached the SQLi threshold is not let in before its
\* deadline by evaluate, whatever handlers of the same address do to the
\* atomics of its profile and however old the clock they read is, unless
\* unblock_ip was called.
THEOREM SqliBlocksHold == Spec => SqliBlockHolds
<1>1. Init => GuardOK /\ BlockStands
  BY InitGuardOK
<1>2. GuardOK /\ BlockStands /\ [Next]_vars => (GuardOK /\ BlockStands)'
  BY GuardShare, NextGuardOK, NextBlockStands
<1>3. GuardOK /\ BlockStands /\ [Next]_vars =>
          [\A t \in Checks :
               gpc[t] \in Locked /\ gpc'[t] = "patterns"
                   => condemned[ipOf[t]] <= now]_guardVars
  <2>. SUFFICES ASSUME GuardOK, BlockStands, [Next]_vars, NEW t \in Checks,
                       gpc[t] \in Locked, gpc'[t] = "patterns"
                PROVE  condemned[ipOf[t]] <= now
    OBVIOUS
  <2>1. gpc[t] \notin Harmless
    BY GuardShare, PassedLooked
  <2>2. t \in Holders(ipOf[t]) /\ ipOf[t] \in IPs
    BY DEF Holders, GuardTasks
  <2>3. ~(now < condemned[ipOf[t]])
    BY <2>1, <2>2 DEF BlockStands
  <2>. QED
    BY <2>2, <2>3 DEF GuardOK
<1>. QED
  BY <1>1, <1>2, <1>3, PTL DEF Spec, SqliBlockHolds

----------------------------------------------------------------------------
(***************************************************************************)
(* Types                                                                   *)
(***************************************************************************)
LEMMA QueueImpliesOne == QueueOK => Cardinality(running) <= 1
<1>. SUFFICES ASSUME QueueOK PROVE Cardinality(running) <= 1
  OBVIOUS
<1>1. CASE running = {}
  <2>1. Cardinality(running) = 0
    BY <1>1, FS_EmptySet, Zenon
  <2>. QED
    BY <2>1
<1>2. ASSUME NEW t \in running PROVE Cardinality(running) <= 1
  <2>1. running = {t}
    BY DEF QueueOK
  <2>2. Cardinality(running) = 1
    BY <2>1, FS_Singleton, Zenon
  <2>. QED
    BY <2>2
<1>. QED
  BY <1>1, <1>2

\* The profile has its fields whenever a handler is in it, file numbers stay
\* below the parts of a form, the queue of the executor in its capacity and
\* one script runs at a time.
THEOREM PipelineTypes == Spec => []TypeOK
<1>. DEFINE Inv == FilesOK /\ Public /\ GuardOK /\ QueueOK
<1>1. Init => Inv
  BY InitFilesOK, InitPublic, InitGuardOK, InitQueueOK
<1>2. Inv /\ [Next]_vars => Inv'
  BY NextFilesOK, NextPublic, GuardShare, NextGuardOK, NextQueueOK
<1>3. Inv => TypeOK
  <2>. SUFFICES ASSUME Inv PROVE TypeOK
    OBVIOUS
  <2>1. GuardTypeOK
    <3>1. ASSUME NEW i \in Tracked PROVE profile[i] \in ProfileRec
      BY <3>1, EntryIsProfile DEF Tracked
    <3>2. ASSUME NEW i \in Tracked
          PROVE  /\ {profile[i].requests, profile[i].errors, profile[i].sqli,
                     profile[i].start, profile[i].until} \subseteq Nat
                 /\ profile[i].blocked \in BOOLEAN
      BY <3>1 DEF ProfileRec
    <3>. QED
      BY <3>2, Zenon DEF GuardOK, GuardTypeOK, Labels
  <2>2. Len(jobs) <= QueueCapacity /\ Cardinality(running) <= 1
    BY QueueImpliesOne DEF QueueOK
  <2>. QED
    BY <2>1, <2>2 DEF TypeOK, FilesOK, Public
<1>. QED
  BY <1>1, <1>2, <1>3, PTL DEF Spec

=============================================================================
