-------------------------- MODULE VoiceJobsProofs --------------------------
(***************************************************************************)
(* Machine-checked properties of the voice-build queue, for every set of   *)
(* jobs and choices and every bound.                                       *)
(***************************************************************************)
EXTENDS VoiceJobs, TLAPS

(***************************************************************************)
(* Type correctness                                                        *)
(***************************************************************************)

\* The worker goes to any of its places with the job it has.
LEMMA GotoType ==
  ASSUME TypeOK, worker.job \in Jobs, NEW pc \in WorkerPc, Goto(pc)
  PROVE  /\ worker' \in [pc : WorkerPc, job : Jobs \cup {NoJob},
                         speaker : Anchors \cup {None}, reference : References \cup {None}]
         /\ worker'.job \in Jobs
         /\ gate' \in {"free", "worker", "sync"}
  BY DEF TypeOK, Goto

\* Writing a metadata file keeps its fields well typed.
LEMMA WriteType ==
  ASSUME TypeOK, NEW j \in Jobs, NEW s \in States, Write(j, s)
  PROVE  state' \in [Jobs -> States] /\ age' \in [Jobs -> {"fresh", "old"}]
  BY DEF TypeOK, Write

LEMMA CheckpointType ==
  ASSUME TypeOK, worker.job \in Jobs, NEW pc \in WorkerPc, Checkpoint(pc)
  PROVE  TypeOK'
<1> DEFINE j == worker.job
<1>1. "running" \in States /\ "cancelled" \in WorkerPc /\ "failed" \in WorkerPc
  BY DEF States, Pending, WorkerPc
<1>2. /\ state' \in [Jobs -> States] 
      /\ age' \in [Jobs -> {"fresh", "old"}]
  BY <1>1, WriteType DEF Checkpoint, TypeOK
<1>3. /\ worker' \in [pc : WorkerPc, job : Jobs \cup {NoJob},
                      speaker : Anchors \cup {None}, reference : References \cup {None}]
      /\ worker'.job \in Jobs
      /\ gate' \in {"free", "worker", "sync"}
  BY <1>1, GotoType DEF Checkpoint
<1>4. faults' \in 0..MaxFaults
  BY ConstantsAssumption DEF Checkpoint, WriteFault, TypeOK
<1> QED
  BY <1>2, <1>3, <1>4 DEF Checkpoint, TypeOK, files, marks, startup

LEMMA TypeInit == Init => TypeOK
<1> SUFFICES ASSUME Init PROVE TypeOK
  OBVIOUS
<1>1. /\ "absent" \in States /\ "none" \in ClientPc /\ "idle" \in WorkerPc /\ "idle" \in PrunerPc
      /\ NoBuild \in Builds
  BY DEF States, ClientPc, WorkerPc, PrunerPc, NoBuild, Builds
<1>2. /\ worker \in [pc : WorkerPc, job : Jobs \cup {NoJob},
                     speaker : Anchors \cup {None}, reference : References \cup {None}]
      /\ pruner \in [pc : PrunerPc, job : Jobs \cup {NoJob}, todo : SUBSET Jobs,
                     done : SUBSET Jobs, old : SUBSET Jobs]
      /\ boot \in [todo : SUBSET Jobs, erase : Jobs \cup {NoJob}]
  BY <1>1 DEF Init, Idle, Resting, Booted
<1>3. \A n \in Nat : 0 \in 0..n
  OBVIOUS
<1> QED
  BY <1>1, <1>2, <1>3, ConstantsAssumption DEF Init, TypeOK, Idle, Resting

\* The requests of the browser and what their threads do afterwards.
LEMMA TypeRequest ==
  ASSUME TypeOK, NEW j \in Jobs, Request(j) \/ ClientStep(j) \/ TimePasses(j)
  PROVE  TypeOK'
<1> USE DEF record, files, marks, bounds, startup
<1>1. /\ {"queued", "cancelled", "cancelling"} \subseteq States
      /\ {"none", "copying", "submit", "enqueue", "erase"} \subseteq ClientPc
  BY DEF States, Pending, Terminal, ClientPc
<1>2. CASE CreateBegin(j)
  BY <1>1, <1>2 DEF CreateBegin, TypeOK
<1>3. CASE \E a \in Anchors : ChooseSpeaker(j, a)
  <2> PICK a \in Anchors : ChooseSpeaker(j, a)
    BY <1>3
  <2> QED
    BY <1>1, WriteType DEF ChooseSpeaker, TypeOK
<1>4. CASE \E r \in References : ChooseReference(j, r)
  <2> PICK r \in References : ChooseReference(j, r)
    BY <1>4
  <2> QED
    BY <1>1, WriteType DEF ChooseReference, TypeOK
<1>5. CASE CancelPaused(j)
  BY <1>1, <1>5, WriteType DEF CancelPaused, TypeOK
<1>6. CASE CancelPending(j)
  <2>1. state' \in [Jobs -> States] /\ age' \in [Jobs -> {"fresh", "old"}]
    BY <1>1, <1>6, WriteType DEF CancelPending, TypeOK
  <2>2. faults' \in 0..MaxFaults
    BY <1>6, ConstantsAssumption DEF CancelPending, WriteFault, TypeOK
  <2> QED
    BY <1>6, <2>1, <2>2 DEF CancelPending, TypeOK
<1>7. CASE CreateWrite(j)
  BY <1>1, <1>7, WriteType DEF CreateWrite, TypeOK
<1>8. CASE CreateFails(j)
  BY <1>1, <1>8 DEF CreateFails, Erase, TypeOK
<1>9. CASE Submit(j)
  BY <1>1, <1>9 DEF Submit, TypeOK
<1>10. CASE Enqueue(j)
  BY <1>1, <1>10 DEF Enqueue, TypeOK
<1>11. CASE EraseCancelled(j)
  BY <1>1, <1>11 DEF EraseCancelled, Erase, TypeOK
<1>12. CASE TimePasses(j)
  BY <1>12 DEF TimePasses, TypeOK
<1> QED
  BY <1>2, <1>3, <1>4, <1>5, <1>6, <1>7, <1>8, <1>9, <1>10, <1>11, <1>12
     DEF Request, ClientStep

\* The worker thread.
LEMMA TypeWorker ==
  ASSUME TypeOK, WorkerStep
  PROVE  TypeOK'
<1> USE DEF record, files, marks, bounds, startup
<1>1. /\ {"idle", "loaded", "gate", "installing", "publish", "askSpeaker", "askReference", "build",
          "packaged", "cancelled", "failed", "cleanup", "finally"} \subseteq WorkerPc
      /\ {"succeeded", "cancelled", "failed", "needs_speaker", "needs_reference"} \subseteq States
  BY DEF WorkerPc, Building, States, Terminal, Paused
<1>2. worker.pc # "idle" => worker.job \in Jobs
  BY DEF TypeOK
<1>3. CASE Take
  <2>1. Head(queue) \in Jobs /\ Tail(queue) \in Seq(Jobs)
    BY <1>3 DEF Take, TypeOK
  <2>2. worker' \in [pc : WorkerPc, job : Jobs \cup {NoJob},
                     speaker : Anchors \cup {None}, reference : References \cup {None}]
    BY <1>1, <1>3, <2>1 DEF Take, TypeOK
  <2> QED
    BY <1>3, <2>1, <2>2 DEF Take, TypeOK
<1>4. CASE Start
  BY <1>1, <1>2, <1>4, CheckpointType, GotoType DEF Start, WorkerOnly, TypeOK
<1>5. CASE AcquireGate
  <2>1. CASE gate = "free"
    BY <1>1, <1>2, <1>5, <2>1 DEF AcquireGate, WorkerOnly, TypeOK
  <2>2. CASE gate # "free"
    BY <1>1, <1>2, <1>5, <2>2, CheckpointType DEF AcquireGate
  <2> QED
    BY <2>1, <2>2
<1>6. CASE Progress \/ AskSpeaker \/ AskReference \/ Complete \/ Install
  BY <1>1, <1>2, <1>6, CheckpointType DEF Progress, AskSpeaker, AskReference, Complete, Install
<1>7. CASE Package
  <2>1. BuildOfAnswers \in Builds
    BY DEF BuildOfAnswers, Builds, TypeOK
  <2> QED
    BY <1>1, <1>2, <1>7, <2>1, GotoType DEF Package, TypeOK
<1>8. CASE BuildFails
  BY <1>1, <1>2, <1>8, GotoType DEF BuildFails, Building, WorkerOnly, TypeOK
<1>9. CASE Succeed \/ Finish("cancelled") \/ Finish("failed")
  <2>1. state' \in [Jobs -> States] /\ age' \in [Jobs -> {"fresh", "old"}]
    BY <1>1, <1>2, <1>9, WriteType DEF Succeed, Finish, TypeOK
  <2>2. /\ worker' \in [pc : WorkerPc, job : Jobs \cup {NoJob},
                        speaker : Anchors \cup {None}, reference : References \cup {None}]
        /\ worker'.job \in Jobs
        /\ gate' \in {"free", "worker", "sync"}
    BY <1>1, <1>2, <1>9, GotoType DEF Succeed, Finish
  <2>3. faults' \in 0..MaxFaults
    BY <1>9, ConstantsAssumption DEF Succeed, Finish, WriteFault, TypeOK
  <2> QED
    BY <1>9, <2>1, <2>2, <2>3 DEF Succeed, Finish, TypeOK
<1>10. ASSUME NEW pc, NEW q \in Paused, pc # "idle", Pause(pc, q)
       PROVE  TypeOK'
  <2>1. q \in States /\ worker.job \in Jobs
    BY <1>2, <1>10 DEF States, Pause
  <2>2. state' \in [Jobs -> States] /\ age' \in [Jobs -> {"fresh", "old"}]
    BY <2>1, <1>10, WriteType DEF Pause, TypeOK
  <2>3. /\ worker' \in [pc : WorkerPc, job : Jobs \cup {NoJob},
                        speaker : Anchors \cup {None}, reference : References \cup {None}]
        /\ worker'.job \in Jobs
        /\ gate' \in {"free", "worker", "sync"}
    BY <1>1, <2>1, <1>10, GotoType DEF Pause
  <2>4. faults' \in 0..MaxFaults
    BY <1>10, ConstantsAssumption DEF Pause, WriteFault, TypeOK
  <2>5. reference' \in [Jobs -> References \cup {None}]
    BY <2>1, <1>10 DEF Pause, TypeOK
  <2> QED
    BY <1>10, <2>2, <2>3, <2>4, <2>5 DEF Pause, Deactivate, TypeOK
<1>11. CASE Cleanup
  BY <1>1, <1>2, <1>11, GotoType DEF Cleanup, Erase, TypeOK
<1>12. CASE Finally
  BY <1>1, <1>2, <1>12 DEF Finally, Idle, TypeOK
<1> QED
  BY <1>3, <1>4, <1>5, <1>6, <1>7, <1>8, <1>9, <1>10, <1>11, <1>12 DEF WorkerStep, Paused

\* The synchronous build, the pruner, the startup hook and the crash.
LEMMA TypeService ==
  ASSUME TypeOK, SyncBegin \/ SyncStep \/ PruneStart \/ PruneStep \/ BootStep \/ Crash
  PROVE  TypeOK'
<1> USE DEF record, files, marks, bounds, startup
<1>1. /\ {"idle", "scan", "expire", "wipe", "sweep"} \subseteq PrunerPc
      /\ {"absent", "queued", "failed", "cancelled"} \subseteq States
      /\ "none" \in ClientPc /\ "idle" \in WorkerPc
  BY DEF PrunerPc, States, Pending, Terminal, ClientPc, WorkerPc
<1>2. Scanning \in [pc : PrunerPc, job : Jobs \cup {NoJob}, todo : SUBSET Jobs,
                    done : SUBSET Jobs, old : SUBSET Jobs]
      /\ Scanning.pc = "scan"
  BY <1>1 DEF Scanning, Resting
<1>3. CASE SyncBegin
  BY <1>3, ConstantsAssumption DEF SyncBegin, TypeOK
<1>4. CASE SyncStep
  BY <1>4 DEF SyncStep, SyncEnter, SyncEnd, TypeOK
<1>5. CASE PruneStart
  BY <1>2, <1>5, ConstantsAssumption DEF PruneStart, TypeOK
<1>6. ASSUME NEW j \in Jobs, PruneRead(j)
      PROVE  TypeOK'
  <2>1. /\ pruner' \in [pc : PrunerPc, job : Jobs \cup {NoJob}, todo : SUBSET Jobs,
                         done : SUBSET Jobs, old : SUBSET Jobs]
        /\ pruner'.pc \in {"expire", "wipe", "sweep"} => pruner'.job \in Jobs
    BY <1>1, <1>6 DEF PruneRead, TypeOK
  <2> QED
    BY <1>6, <2>1 DEF PruneRead, TypeOK
<1>7. CASE PruneExpire
  <2>1. pruner.job \in Jobs /\ Expired \in States
    BY <1>1, <1>7 DEF PruneExpire, Expired, TypeOK
  <2>2. state' \in [Jobs -> States] /\ age' \in [Jobs -> {"fresh", "old"}]
    BY <1>7, <2>1, WriteType DEF PruneExpire, TypeOK
  <2>3. /\ speaker' \in [Jobs -> Anchors \cup {None}]
        /\ reference' \in [Jobs -> References \cup {None}]
    BY <1>7, <2>1 DEF PruneExpire, TypeOK
  <2>4. /\ pruner' \in [pc : PrunerPc, job : Jobs \cup {NoJob}, todo : SUBSET Jobs,
                         done : SUBSET Jobs, old : SUBSET Jobs]
        /\ pruner'.pc \in {"expire", "wipe", "sweep"} => pruner'.job \in Jobs
    BY <1>1, <1>7, <2>1 DEF PruneExpire, TypeOK
  <2>5. faults' \in 0..MaxFaults
    BY <1>7, ConstantsAssumption DEF PruneExpire, WriteFault, TypeOK
  <2> QED
    BY <1>7, <2>2, <2>3, <2>4, <2>5 DEF PruneExpire, TypeOK
<1>8. CASE PruneErase
  <2>1. /\ pruner' \in [pc : PrunerPc, job : Jobs \cup {NoJob}, todo : SUBSET Jobs,
                         done : SUBSET Jobs, old : SUBSET Jobs]
        /\ pruner'.pc = "scan"
    BY <1>1, <1>8 DEF PruneErase, TypeOK
  <2> QED
    BY <1>8, <2>1 DEF PruneErase, Erase, TypeOK
<1>9. CASE PruneDrop
  BY <1>1, <1>9 DEF PruneDrop, Resting, TypeOK
<1>10. ASSUME NEW j \in Jobs, Recover(j)
       PROVE  TypeOK'
  <2>1. state' \in [Jobs -> States] /\ age' \in [Jobs -> {"fresh", "old"}]
    BY <1>1, <1>10, WriteType
       DEF Recover, RecoverCancelling, RecoverPaused, RecoverPending, RecoverFinished, TypeOK
  <2>2. boot' \in [todo : SUBSET Jobs, erase : Jobs \cup {NoJob}]
    BY <1>10 DEF Recover, RecoverCancelling, RecoverPaused, RecoverPending, RecoverFinished,
                 Visit, TypeOK
  <2>3. /\ active' = active \/ active' = active \cup {j}
        /\ queue' = queue \/ queue' = Append(queue, j)
    BY <1>10
       DEF Recover, RecoverCancelling, RecoverPaused, RecoverPending, RecoverFinished
  <2>4. active' \in SUBSET Jobs /\ queue' \in Seq(Jobs)
    <3>1. Append(queue, j) \in Seq(Jobs)
      BY DEF TypeOK
    <3> QED
      BY <2>3, <3>1 DEF TypeOK
  <2> QED
    BY <1>10, <2>1, <2>2, <2>4 DEF Recover, TypeOK
<1>11. CASE RecoverErase
  BY <1>11 DEF RecoverErase, Erase, TypeOK
<1>12. CASE RecoverDone
  BY <1>2, <1>12 DEF RecoverDone, TypeOK
<1>13. CASE Crash
  <2>1. crashes' \in 0..MaxCrashes
    BY <1>13, ConstantsAssumption DEF Crash, TypeOK
  <2> QED
    BY <1>1, <1>13, <2>1 DEF Crash, Idle, Resting, TypeOK
<1> QED
  BY <1>3, <1>4, <1>5, <1>6, <1>7, <1>8, <1>9, <1>10, <1>11, <1>12, <1>13
     DEF PruneStep, BootStep

LEMMA TypeNext == TypeOK /\ [Next]_vars => TypeOK'
<1> SUFFICES ASSUME TypeOK, [Next]_vars PROVE TypeOK'
  OBVIOUS
<1>1. CASE UNCHANGED vars
  BY <1>1 DEF TypeOK, vars, record, files, marks, bounds, startup
<1> QED
  BY <1>1, TypeRequest, TypeWorker, TypeService DEF Next

\* Every variable of the queue keeps its type: in particular the worker that is not
\* idle, and the pruner in the middle of a job, have a job.
THEOREM TypeCorrect == Spec => []TypeOK
  BY TypeInit, TypeNext, PTL DEF Spec

(***************************************************************************)
(* No submission is lost, and no job is built twice                        *)
(***************************************************************************)

\* What the executor's queue holds after a submission, a dequeue, and any other step.
LEMMA QueueAppend ==
  ASSUME queue \in Seq(Jobs), QueuedOnce, NEW j \in Jobs, ~InQueue(j), queue' = Append(queue, j)
  PROVE  QueuedOnce' /\ \A k \in Jobs : InQueue(k)' <=> (InQueue(k) \/ k = j)
<1> DEFINE n == Len(queue)
<1>1. n \in Nat /\ Len(queue') = n + 1 /\ queue'[n + 1] = j /\ \A i \in 1..n : queue'[i] = queue[i]
  OBVIOUS
<1>2. \A i \in 1..n : queue[i] # j
  BY DEF InQueue
<1>3. QueuedOnce'
  BY <1>1, <1>2 DEF QueuedOnce
<1>4. ASSUME NEW k \in Jobs PROVE InQueue(k)' <=> (InQueue(k) \/ k = j)
  <2>1. n + 1 \in 1..(n + 1) /\ \A i \in 1..(n + 1) : i \in 1..n \/ i = n + 1
    BY <1>1
  <2>2. \A i \in 1..n : i \in 1..(n + 1)
    BY <1>1
  <2> QED
    BY <1>1, <2>1, <2>2 DEF InQueue
<1> QED
  BY <1>3, <1>4

LEMMA QueueTake ==
  ASSUME queue \in Seq(Jobs), QueuedOnce, queue # <<>>, queue' = Tail(queue)
  PROVE  /\ QueuedOnce' /\ Head(queue) \in Jobs /\ InQueue(Head(queue))
         /\ \A k \in Jobs : InQueue(k)' <=> (InQueue(k) /\ k # Head(queue))
<1> DEFINE n == Len(queue)
<1>1. /\ n \in Nat /\ n > 0 /\ Len(queue') = n - 1 /\ Head(queue) = queue[1]
      /\ \A i \in 1..(n - 1) : queue'[i] = queue[i + 1]
  OBVIOUS
<1>2. InQueue(Head(queue)) /\ Head(queue) \in Jobs
  BY <1>1 DEF InQueue
<1>3. QueuedOnce'
  BY <1>1 DEF QueuedOnce
<1>4. ASSUME NEW k \in Jobs PROVE InQueue(k)' <=> (InQueue(k) /\ k # Head(queue))
  <2>1. ASSUME InQueue(k)' PROVE InQueue(k) /\ k # Head(queue)
    <3>1. PICK i \in 1..(n - 1) : queue[i + 1] = k
      BY <1>1, <2>1 DEF InQueue
    <3>2. i + 1 \in 1..n /\ 1 \in 1..n /\ i + 1 # 1
      BY <1>1
    <3> QED
      BY <1>1, <3>1, <3>2 DEF InQueue, QueuedOnce
  <2>2. ASSUME InQueue(k), k # Head(queue) PROVE InQueue(k)'
    <3>1. PICK i \in 1..n : queue[i] = k
      BY <2>2 DEF InQueue
    <3>2. i - 1 \in 1..(n - 1) /\ (i - 1) + 1 = i
      BY <1>1, <2>2, <3>1
    <3>3. queue'[i - 1] = k
      BY <1>1, <3>1, <3>2
    <3> QED
      BY <1>1, <3>2, <3>3 DEF InQueue
  <2> QED
    BY <2>1, <2>2
<1> QED
  BY <1>2, <1>3, <1>4

LEMMA QueueSame ==
  ASSUME UNCHANGED queue
  PROVE  (QueuedOnce' <=> QueuedOnce) /\ \A k \in Jobs : InQueue(k)' <=> InQueue(k)
  BY DEF QueuedOnce, InQueue

RunInv == TypeOK /\ SubmissionInv /\ UnfinishedHasRunner

LEMMA RunInit == Init => RunInv
<1> SUFFICES ASSUME Init PROVE RunInv
  OBVIOUS
<1>1. queue = <<>> /\ Len(queue) = 0
  BY DEF Init
<1>2. QueuedOnce /\ \A k : ~InQueue(k)
  BY <1>1 DEF QueuedOnce, InQueue
<1> QED
  BY <1>2, TypeInit, ConstantsAssumption
     DEF Init, RunInv, SubmissionInv, UnfinishedHasRunner, OneRunPerJob, Unknown, Submitting,
         Running, Idle, Resting, Booted, Exists, Paused, Pending

LEMMA RunRequest ==
  ASSUME RunInv, NEW j \in Jobs, Request(j) \/ ClientStep(j) \/ TimePasses(j)
  PROVE  SubmissionInv' /\ UnfinishedHasRunner'
<1> USE DEF RunInv, SubmissionInv, UnfinishedHasRunner, OneRunPerJob, Unknown, Submitting,
            Running, Exists, Write, record, files, marks, bounds, startup
<1>1. TypeOK
  OBVIOUS
<1>2. CASE CreateBegin(j)
  BY <1>2, QueueSame DEF CreateBegin, TypeOK
<1>3. CASE \E a \in Anchors : ChooseSpeaker(j, a)
  BY <1>3, QueueSame DEF ChooseSpeaker, AcceptsSpeaker, TypeOK, Paused, Pending
<1>4. CASE \E r \in References : ChooseReference(j, r)
  BY <1>4, QueueSame DEF ChooseReference, TypeOK, Paused, Pending
<1>5. CASE CancelPaused(j)
  BY <1>5, QueueSame DEF CancelPaused, TypeOK, Paused, Pending
<1>6. CASE CancelPending(j)
  BY <1>6, QueueSame DEF CancelPending, Cancellable, WriteFault, TypeOK, Paused, Pending
<1>7. CASE CreateWrite(j)
  BY <1>7, QueueSame DEF CreateWrite, TypeOK, Paused, Pending
<1>8. CASE CreateFails(j)
  BY <1>8, QueueSame DEF CreateFails, TypeOK
<1>9. CASE Submit(j)
  BY <1>9, QueueSame DEF Submit, TypeOK
<1>10. CASE Enqueue(j)
  BY <1>10, QueueAppend DEF Enqueue, TypeOK
<1>11. CASE EraseCancelled(j)
  BY <1>11, QueueSame DEF EraseCancelled, TypeOK
<1>12. CASE TimePasses(j)
  BY <1>12, QueueSame DEF TimePasses, TypeOK
<1> QED
  BY <1>2, <1>3, <1>4, <1>5, <1>6, <1>7, <1>8, <1>9, <1>10, <1>11, <1>12
     DEF Request, ClientStep

\* A checkpoint leaves the run where it can only go on or end; it writes no state
\* that lets the job be submitted again.
LEMMA RunCheckpoint ==
  ASSUME RunInv, worker.pc \notin {"idle", "cleanup", "finally"},
         NEW pc \in WorkerPc \ {"idle", "cleanup", "finally"}, Checkpoint(pc)
  PROVE  SubmissionInv' /\ UnfinishedHasRunner'
<1> USE DEF RunInv, SubmissionInv, UnfinishedHasRunner, OneRunPerJob, Unknown, Submitting,
            Running, Exists, Write, record, files, marks, bounds, startup
<1>1. worker.job \in Jobs
  BY DEF TypeOK
<1>2. worker'.job = worker.job /\ worker'.pc \notin {"idle", "cleanup", "finally"}
  BY DEF Checkpoint, Goto, TypeOK
<1> QED
  BY <1>1, <1>2, QueueSame DEF Checkpoint, WriteFault, TypeOK, Paused, Pending

LEMMA RunWorker ==
  ASSUME RunInv, WorkerStep
  PROVE  SubmissionInv' /\ UnfinishedHasRunner'
<1> USE DEF RunInv, SubmissionInv, UnfinishedHasRunner, OneRunPerJob, Unknown, Submitting,
            Running, Exists, Write, record, files, marks, bounds, startup
<1>1. worker.pc # "idle" => worker.job \in Jobs
  BY DEF TypeOK
<1>2. {"gate", "installing", "publish", "askSpeaker", "askReference", "build", "failed"}
        \subseteq WorkerPc \ {"idle", "cleanup", "finally"}
  BY DEF WorkerPc, Building
<1>3. CASE Take
  <2>1. /\ QueuedOnce' /\ Head(queue) \in Jobs /\ InQueue(Head(queue))
        /\ \A k \in Jobs : InQueue(k)' <=> (InQueue(k) /\ k # Head(queue))
    BY <1>3, QueueTake DEF Take, TypeOK
  <2>2. worker'.job = Head(queue) /\ worker'.pc \notin {"idle", "cleanup", "finally"}
    BY <1>3 DEF Take
  <2> QED
    BY <1>3, <2>1, <2>2 DEF Take, TypeOK
<1>4. CASE WorkerOnly /\ worker.pc \notin {"idle", "cleanup", "finally"}
           /\ \E pc \in {"build", "failed"} : worker' = [worker EXCEPT !.pc = pc]
  <2>1. worker'.job = worker.job /\ worker'.pc \notin {"idle", "cleanup", "finally"}
    BY <1>4 DEF TypeOK
  <2> QED
    BY <1>1, <1>4, <2>1, QueueSame DEF WorkerOnly, TypeOK
<1>5. CASE Start
  BY <1>2, <1>4, <1>5, RunCheckpoint DEF Start, Goto
<1>6. CASE AcquireGate
  BY <1>2, <1>4, <1>6, RunCheckpoint DEF AcquireGate
<1>7. CASE Progress \/ AskSpeaker \/ AskReference \/ Complete \/ Install
  BY <1>2, <1>7, RunCheckpoint DEF Progress, AskSpeaker, AskReference, Complete, Install
<1>8. CASE Package
  <2>1. worker'.job = worker.job /\ worker'.pc \notin {"idle", "cleanup", "finally"}
    BY <1>8 DEF Package, Goto, TypeOK
  <2> QED
    BY <1>1, <1>8, <2>1, QueueSame DEF Package, TypeOK
<1>9. CASE BuildFails
  BY <1>4, <1>9 DEF BuildFails, Building, Goto
<1>10. CASE Succeed \/ Finish("cancelled") \/ Finish("failed")
  <2>1. worker.job \in Jobs /\ worker.pc \notin {"idle", "cleanup", "finally"}
    BY <1>1, <1>10 DEF Succeed, Finish
  <2>2. worker'.job = worker.job /\ worker'.pc # "idle"
    BY <1>10 DEF Succeed, Finish, Goto, TypeOK
  <2>3. \/ /\ Exists(worker.job) /\ UNCHANGED faults /\ worker'.pc = "cleanup"
           /\ \E t \in Terminal : state' = [state EXCEPT ![worker.job] = t]
        \/ /\ ~Exists(worker.job) /\ UNCHANGED <<state, faults>> /\ worker'.pc # "cleanup"
        \/ /\ UNCHANGED state /\ faults' > 0 /\ worker'.pc # "cleanup"
    BY <1>10, <2>1 DEF Succeed, Finish, Goto, WriteFault, TypeOK, Terminal
  <2>4. UNCHANGED <<issued, marks, queue, client, pruner, startup>>
    BY <1>10 DEF Succeed, Finish
  <2> QED
    BY <2>1, <2>2, <2>3, <2>4, QueueSame DEF TypeOK, Terminal, Paused, Pending
<1>11. ASSUME NEW pc \in {"askSpeaker", "askReference"}, NEW q \in Paused, Pause(pc, q)
       PROVE  SubmissionInv' /\ UnfinishedHasRunner'
  <2>1. worker.job \in Jobs /\ Running(worker.job)
    BY <1>1, <1>11 DEF Pause
  <2>2. worker'.job = worker.job /\ worker'.pc = "finally"
    BY <1>11 DEF Pause, Goto, TypeOK
  <2>3. \/ UNCHANGED faults /\ state' = [state EXCEPT ![worker.job] = q]
        \/ ~Exists(worker.job) /\ UNCHANGED <<state, faults>>
        \/ UNCHANGED state /\ faults' > 0
    BY <1>11 DEF Pause, WriteFault, TypeOK
  <2>4. active' = active \ {worker.job} /\ UNCHANGED <<issued, queue, client, pruner, startup>>
    BY <1>11 DEF Pause, Deactivate
  <2> QED
    BY <2>1, <2>2, <2>3, <2>4, QueueSame DEF TypeOK, Paused, Pending
<1>12. CASE Cleanup
  <2>1. worker'.job = worker.job /\ worker'.pc = "finally"
    BY <1>12 DEF Cleanup, Goto, TypeOK
  <2> QED
    BY <1>1, <1>12, <2>1, QueueSame DEF Cleanup, TypeOK, Pending
<1>13. CASE Finally
  BY <1>1, <1>13, QueueSame, ConstantsAssumption DEF Finally, Idle, TypeOK
<1> QED
  BY <1>3, <1>5, <1>6, <1>7, <1>8, <1>9, <1>10, <1>11, <1>12, <1>13 DEF WorkerStep, Paused

LEMMA RunService ==
  ASSUME RunInv, SyncBegin \/ SyncStep \/ PruneStart \/ PruneStep \/ BootStep \/ Crash
  PROVE  SubmissionInv' /\ UnfinishedHasRunner'
<1> USE DEF RunInv, SubmissionInv, UnfinishedHasRunner, OneRunPerJob, Unknown, Submitting,
            Running, Exists, Write, record, files, marks, bounds, startup
<1>1. CASE SyncBegin \/ SyncStep
  BY <1>1, QueueSame DEF SyncBegin, SyncStep, SyncEnter, SyncEnd, TypeOK
<1>2. CASE PruneStart
  BY <1>2, QueueSame, ConstantsAssumption DEF PruneStart, Scanning, Resting, TypeOK
<1>3. ASSUME NEW j \in Jobs, PruneRead(j)
      PROVE  SubmissionInv' /\ UnfinishedHasRunner'
  <2>1. pruner'.job = pruner.job \/ (pruner'.job = j /\ Exists(j))
    BY <1>3 DEF PruneRead, TypeOK, Paused, Terminal
  <2> QED
    BY <1>3, <2>1, QueueSame DEF PruneRead, TypeOK
<1>4. CASE PruneExpire
  <2>1. /\ pruner.job \in Jobs /\ service # "recover" /\ UNCHANGED service
        /\ pruner'.job = pruner.job \/ pruner'.job = NoJob
    <3>1. pruner.pc = "expire" /\ UNCHANGED service
      BY <1>4 DEF PruneExpire
    <3>2. pruner' = [pruner EXCEPT !.pc = "wipe"] \/ pruner' = [pruner EXCEPT !.pc = "scan", !.job = NoJob]
      BY <1>4 DEF PruneExpire
    <3>3. pruner.job \in Jobs /\ DOMAIN pruner = {"pc", "job", "todo", "done", "old"}
      BY <3>1 DEF TypeOK
    <3>4. service # "recover"
      BY <3>1
    <3>5. pruner'.job = pruner.job \/ pruner'.job = NoJob
      BY <3>2, <3>3
    <3> QED
      BY <3>1, <3>3, <3>4, <3>5
  <2>2. \/ UNCHANGED faults /\ state' = [state EXCEPT ![pruner.job] = "cancelled"]
        \/ UNCHANGED state /\ faults' > 0
    BY <1>4 DEF PruneExpire, Expired, WriteFault, TypeOK
  <2>3. UNCHANGED <<issued, marks, queue, client, worker, startup>>
    BY <1>4 DEF PruneExpire
  <2> QED
    BY <2>1, <2>2, <2>3, QueueSame, ConstantsAssumption DEF TypeOK, Paused, Pending
<1>5. CASE PruneErase
  <2>1. pruner'.job = NoJob
    BY <1>5 DEF PruneErase, TypeOK
  <2> QED
    BY <1>5, <2>1, QueueSame, ConstantsAssumption DEF PruneErase, TypeOK
<1>6. CASE PruneDrop
  <2>1. \A k \in Jobs : state'[k] = state[k] \/ state'[k] = "absent"
    BY <1>6 DEF PruneDrop
  <2>2. pruner'.job = NoJob /\ service' = "serve"
        /\ UNCHANGED <<issued, marks, queue, client, worker, boot, faults>>
    BY <1>6 DEF PruneDrop, Resting
  <2>3. service # "recover"
    BY <1>6 DEF PruneDrop
  <2> QED
    BY <2>1, <2>2, <2>3, QueueSame, ConstantsAssumption DEF TypeOK, Resting, Paused, Pending
<1>7. ASSUME NEW j \in Jobs, Recover(j)
      PROVE  SubmissionInv' /\ UnfinishedHasRunner'
  <2>1. /\ service = "recover" /\ j \in boot.todo /\ boot'.todo = boot.todo \ {j}
        /\ UNCHANGED <<issued, client, worker, pruner, service, faults>>
    BY <1>7 DEF Recover, RecoverCancelling, RecoverPaused, RecoverPending, RecoverFinished, Visit
  <2>2. \/ /\ UNCHANGED <<active, queue>>
           /\ \E s \in Terminal \cup Paused : state' = [state EXCEPT ![j] = s]
        \/ /\ active' = active \cup {j} /\ queue' = Append(queue, j)
           /\ state' = [state EXCEPT ![j] = "queued"]
    BY <1>7 DEF Recover, RecoverCancelling, RecoverPaused, RecoverPending, RecoverFinished,
                Terminal, Paused, TypeOK
  <2> QED
    BY <2>1, <2>2, QueueSame, QueueAppend DEF TypeOK, Terminal, Paused, Pending
<1>8. CASE RecoverErase
  BY <1>8, QueueSame DEF RecoverErase, TypeOK
<1>9. CASE RecoverDone
  BY <1>9, QueueSame, ConstantsAssumption DEF RecoverDone, Booted, Scanning, Resting, TypeOK
<1>10. CASE Crash
  <2>1. QueuedOnce' /\ \A k \in Jobs : ~InQueue(k)'
    BY <1>10 DEF Crash, QueuedOnce, InQueue
  <2> QED
    BY <1>10, <2>1, ConstantsAssumption DEF Crash, Idle, Resting, TypeOK, Pending
<1> QED
  BY <1>1, <1>2, <1>3, <1>4, <1>5, <1>6, <1>7, <1>8, <1>9, <1>10 DEF PruneStep, BootStep

LEMMA RunNext == RunInv /\ [Next]_vars => RunInv'
<1> SUFFICES ASSUME RunInv, [Next]_vars PROVE RunInv'
  OBVIOUS
<1>1. CASE UNCHANGED vars
  BY <1>1, QueueSame, TypeNext
     DEF RunInv, SubmissionInv, UnfinishedHasRunner, OneRunPerJob, Unknown, Submitting, Running,
         Exists, vars, record, files, marks, bounds, startup
<1>2. CASE Next
  BY <1>2, RunRequest, RunWorker, RunService, TypeNext DEF Next, RunInv
<1> QED
  BY <1>1, <1>2

\* However requests, the worker, the pruner, crashes and failing writes interleave, a
\* job is submitted, queued or running at most once at any time.
THEOREM NoDoubleBuild == Spec => []OneRunPerJob
  BY RunInit, RunNext, PTL DEF Spec, RunInv, SubmissionInv

\* As long as no metadata write has failed, every job shown as queued, running or
\* cancelling has a thread that works on it: _submit's early return and the finally
\* clause of an earlier run never swallow a resume.
THEOREM NoLostSubmission == Spec => []UnfinishedHasRunner
  BY RunInit, RunNext, PTL DEF Spec, RunInv

(***************************************************************************)
(* Clips live as long as their job, and outcomes are final                 *)
(***************************************************************************)

ClipsInv == RunInv /\ RetentionInv

LEMMA ClipsInit == Init => ClipsInv
  BY RunInit
     DEF Init, ClipsInv, RetentionInv, LiveJobsKeepClips, Over, Idle, Resting, Booted, Terminal,
         Paused, Pending

\* The steps of an HTTP thread. No age ever passes a limit here.
LEMMA ClipsRequest ==
  ASSUME ~Ageing, ClipsInv, NEW j \in Jobs, Request(j) \/ ClientStep(j) \/ TimePasses(j)
  PROVE  RetentionInv' /\ \A k \in Jobs : state[k] \in Terminal => state'[k] = state[k]
<1> USE DEF ClipsInv, RunInv, RetentionInv, LiveJobsKeepClips, SubmissionInv, OneRunPerJob,
            Unknown, Submitting, Running, Over, Exists, Write, record, files, marks, bounds, startup
<1>1. TypeOK
  OBVIOUS
<1>2. CASE CreateBegin(j)
  BY <1>2, QueueSame DEF CreateBegin, TypeOK, Terminal, Paused, Pending
<1>3. CASE \E a \in Anchors : ChooseSpeaker(j, a)
  BY <1>3, QueueSame DEF ChooseSpeaker, AcceptsSpeaker, TypeOK, Terminal, Paused, Pending
<1>4. CASE \E r \in References : ChooseReference(j, r)
  BY <1>4, QueueSame DEF ChooseReference, TypeOK, Terminal, Paused, Pending
<1>5. CASE CancelPaused(j)
  BY <1>5, QueueSame DEF CancelPaused, TypeOK, Terminal, Paused, Pending
<1>6. CASE CancelPending(j)
  BY <1>6, QueueSame DEF CancelPending, Cancellable, TypeOK, Terminal, Paused, Pending
<1>7. CASE CreateWrite(j)
  BY <1>7, QueueSame DEF CreateWrite, TypeOK, Terminal, Paused, Pending
<1>8. CASE CreateFails(j)
  BY <1>8, QueueSame DEF CreateFails, Erase, TypeOK, Terminal, Paused, Pending
<1>9. CASE Submit(j)
  BY <1>9, QueueSame DEF Submit, TypeOK
<1>10. CASE Enqueue(j)
  BY <1>10, QueueAppend DEF Enqueue, TypeOK
<1>11. CASE EraseCancelled(j)
  BY <1>11, QueueSame DEF EraseCancelled, Erase, TypeOK, Terminal, Paused, Pending
<1>12. CASE TimePasses(j)
  BY <1>12 DEF TimePasses
<1> QED
  BY <1>2, <1>3, <1>4, <1>5, <1>6, <1>7, <1>8, <1>9, <1>10, <1>11, <1>12
     DEF Request, ClientStep

\* A checkpoint writes over a job that is not finished, since its run is under way.
LEMMA ClipsCheckpoint ==
  ASSUME ClipsInv, worker.pc \notin {"idle", "cleanup", "finally"},
         NEW pc \in WorkerPc \ {"idle", "cleanup", "finally"}, Checkpoint(pc)
  PROVE  RetentionInv' /\ \A k \in Jobs : state[k] \in Terminal => state'[k] = state[k]
<1> USE DEF ClipsInv, RunInv, RetentionInv, LiveJobsKeepClips, SubmissionInv, OneRunPerJob,
            Unknown, Submitting, Running, Over, Exists, Write, record, files, marks, bounds, startup
<1>1. worker.job \in Jobs
  BY DEF TypeOK
<1>2. worker'.job = worker.job /\ worker'.pc \notin {"idle", "cleanup", "finally"}
  BY DEF Checkpoint, Goto, TypeOK
<1>3. \/ UNCHANGED state
      \/ Exists(worker.job) /\ state' = [state EXCEPT ![worker.job] = "running"]
  BY DEF Checkpoint
<1>4. /\ \A k \in Jobs : age'[k] = "fresh"
      /\ UNCHANGED <<files, queue, client, pruner, startup>>
  BY DEF Checkpoint, TypeOK
<1> QED
  BY <1>1, <1>2, <1>3, <1>4, QueueSame DEF TypeOK, States, Terminal, Paused, Pending

LEMMA ClipsWorker ==
  ASSUME ClipsInv, WorkerStep
  PROVE  RetentionInv' /\ \A k \in Jobs : state[k] \in Terminal => state'[k] = state[k]
<1> USE DEF ClipsInv, RunInv, RetentionInv, LiveJobsKeepClips, SubmissionInv, OneRunPerJob,
            Unknown, Submitting, Running, Over, Exists, Write, record, files, marks, bounds, startup
<1>1. worker.pc # "idle" => worker.job \in Jobs
  BY DEF TypeOK
<1>2. {"gate", "installing", "publish", "askSpeaker", "askReference", "build", "failed"}
        \subseteq WorkerPc \ {"idle", "cleanup", "finally"}
  BY DEF WorkerPc, Building
<1>3. CASE Take
  <2>1. /\ Head(queue) \in Jobs /\ InQueue(Head(queue))
        /\ \A k \in Jobs : InQueue(k)' <=> (InQueue(k) /\ k # Head(queue))
    BY <1>3, QueueTake DEF Take, TypeOK
  <2>2. worker'.job = Head(queue) /\ worker'.pc \notin {"idle", "cleanup", "finally"}
    BY <1>3 DEF Take
  <2> QED
    BY <1>3, <2>1, <2>2 DEF Take, TypeOK
<1>4. CASE /\ worker.pc \notin {"idle", "cleanup", "finally"}
           /\ worker'.pc \notin {"idle", "cleanup", "finally"} /\ worker'.job = worker.job
           /\ UNCHANGED <<record, files, queue, client, pruner, startup>>
  BY <1>1, <1>4, QueueSame DEF TypeOK
<1>5. CASE Start
  BY <1>2, <1>4, <1>5, ClipsCheckpoint DEF Start, Goto, WorkerOnly, TypeOK
<1>6. CASE AcquireGate
  <2>1. CASE gate # "free" /\ Checkpoint("gate")
    BY <1>2, <1>6, <2>1, ClipsCheckpoint DEF AcquireGate
  <2>2. CASE gate = "free" /\ worker' = [worker EXCEPT !.pc = "build"] /\ WorkerOnly
    BY <1>4, <1>6, <2>2 DEF AcquireGate, WorkerOnly, TypeOK
  <2> QED
    BY <1>6, <2>1, <2>2 DEF AcquireGate
<1>7. CASE Progress \/ AskSpeaker \/ AskReference \/ Complete \/ Install
  BY <1>2, <1>7, ClipsCheckpoint DEF Progress, AskSpeaker, AskReference, Complete, Install
<1>8. CASE Package
  BY <1>4, <1>8 DEF Package, Goto, TypeOK
<1>9. CASE BuildFails
  BY <1>4, <1>9 DEF BuildFails, Building, Goto, WorkerOnly, TypeOK
<1>10. CASE Succeed \/ Finish("cancelled") \/ Finish("failed")
  <2>1. worker.job \in Jobs /\ worker.pc \notin {"idle", "cleanup", "finally"}
    BY <1>1, <1>10 DEF Succeed, Finish
  <2>2. worker'.job = worker.job /\ worker'.pc # "idle"
    BY <1>10 DEF Succeed, Finish, Goto, TypeOK
  <2>3. \/ /\ Exists(worker.job) /\ worker'.pc = "cleanup"
           /\ \E t \in Terminal : state' = [state EXCEPT ![worker.job] = t]
        \/ UNCHANGED state /\ worker'.pc # "cleanup"
    BY <1>10, <2>1 DEF Succeed, Finish, Goto, TypeOK, Terminal
  <2>4. /\ \A k \in Jobs : age'[k] = "fresh"
        /\ UNCHANGED <<files, queue, client, pruner, startup>>
    BY <1>10 DEF Succeed, Finish, TypeOK
  <2>5. state[worker.job] \notin Terminal /\ ~Submitting(worker.job) /\ ~InQueue(worker.job)
    BY <2>1
  <2> QED
    BY <2>1, <2>2, <2>3, <2>4, <2>5, QueueSame DEF TypeOK, Terminal, Paused, Pending
<1>11. ASSUME NEW pc \in {"askSpeaker", "askReference"}, NEW q \in Paused, Pause(pc, q)
       PROVE  RetentionInv' /\ \A k \in Jobs : state[k] \in Terminal => state'[k] = state[k]
  <2>1. worker.job \in Jobs /\ Running(worker.job) /\ worker.pc # "cleanup"
    BY <1>1, <1>11 DEF Pause
  <2>2. worker'.job = worker.job /\ worker'.pc = "finally"
    BY <1>11 DEF Pause, Goto, TypeOK
  <2>3. \/ Exists(worker.job) /\ state' = [state EXCEPT ![worker.job] = q]
        \/ UNCHANGED state
    BY <1>11 DEF Pause, TypeOK
  <2>4. /\ \A k \in Jobs : age'[k] = "fresh"
        /\ UNCHANGED <<files, queue, client, pruner, startup>>
    BY <1>11 DEF Pause, TypeOK
  <2> QED
    BY <2>1, <2>2, <2>3, <2>4, QueueSame DEF TypeOK, States, Terminal, Paused, Pending
<1>12. CASE Cleanup
  <2>1. worker'.job = worker.job /\ worker'.pc = "finally"
    BY <1>12 DEF Cleanup, Goto, TypeOK
  <2> QED
    BY <1>1, <1>12, <2>1, QueueSame DEF Cleanup, Erase, TypeOK, Terminal, Paused, Pending
<1>13. CASE Finally
  BY <1>1, <1>13, QueueSame, ConstantsAssumption DEF Finally, Idle, TypeOK
<1> QED
  BY <1>3, <1>5, <1>6, <1>7, <1>8, <1>9, <1>10, <1>11, <1>12, <1>13 DEF WorkerStep, Paused

\* Pruning drops records of finished jobs only; recovery keeps what can be resumed.
LEMMA ClipsService ==
  ASSUME ClipsInv, SyncBegin \/ SyncStep \/ PruneStart \/ PruneStep \/ BootStep \/ Crash
  PROVE  /\ RetentionInv'
         /\ \A k \in Jobs : state[k] \in Terminal => state'[k] \in {state[k], "absent"}
<1> USE DEF ClipsInv, RunInv, RetentionInv, LiveJobsKeepClips, SubmissionInv, OneRunPerJob,
            Unknown, Submitting, Running, Over, Exists, Write, record, files, marks, bounds, startup
<1>1. CASE SyncBegin \/ SyncStep
  BY <1>1, QueueSame DEF SyncBegin, SyncStep, SyncEnter, SyncEnd, TypeOK
<1>2. CASE PruneStart
  BY <1>2, QueueSame DEF PruneStart, Scanning, Resting, TypeOK
<1>3. ASSUME NEW j \in Jobs, PruneRead(j)
      PROVE  /\ RetentionInv'
             /\ \A k \in Jobs : state[k] \in Terminal => state'[k] \in {state[k], "absent"}
  <2>1. /\ pruner'.done = pruner.done
        /\ \/ pruner'.pc = "scan"
           \/ pruner'.pc = "sweep" /\ pruner'.job = j /\ state[j] \in Terminal
    BY <1>3 DEF PruneRead, TypeOK
  <2> QED
    BY <1>3, <2>1, QueueSame DEF PruneRead, TypeOK
<1>4. CASE PruneExpire
  BY <1>4 DEF PruneExpire
<1>5. CASE PruneErase
  <2>1. /\ pruner.pc = "sweep" /\ pruner.job \in Jobs /\ state[pruner.job] \in Terminal
        /\ pruner'.pc = "scan" /\ pruner'.done = pruner.done \cup {pruner.job}
    BY <1>5 DEF PruneErase, TypeOK
  <2>2. inputs \ {pruner.job} \subseteq inputs'
        /\ UNCHANGED <<state, age, queue, client, worker, startup>>
    BY <1>5 DEF PruneErase, Erase
  <2>3. client[pruner.job] # "copying"
    BY <2>1
  <2> QED
    BY <2>1, <2>2, <2>3, QueueSame DEF TypeOK, Terminal, Paused, Pending
<1>6. CASE PruneDrop
  <2>1. PICK drop \in SUBSET pruner.done :
          /\ state' = [j \in Jobs |-> IF j \in drop THEN "absent" ELSE state[j]]
          /\ age' = [j \in Jobs |-> IF j \in drop THEN "fresh" ELSE age[j]]
    BY <1>6 DEF PruneDrop
  <2>2. /\ pruner'.pc = "idle" /\ pruner'.done = {} /\ service' = "serve"
        /\ UNCHANGED <<files, queue, client, worker, boot>>
    BY <1>6 DEF PruneDrop, Resting
  <2> QED
    BY <2>1, <2>2, QueueSame DEF TypeOK, Terminal, Paused, Pending
<1>7. ASSUME NEW j \in Jobs, Recover(j)
      PROVE  /\ RetentionInv'
             /\ \A k \in Jobs : state[k] \in Terminal => state'[k] \in {state[k], "absent"}
  <2>1. /\ service = "recover" /\ j \in boot.todo
        /\ UNCHANGED <<files, client, worker, pruner, service>>
    BY <1>7 DEF Recover
  <2>2. /\ \A k \in Jobs : client[k] = "none" /\ age'[k] = "fresh"
        /\ pruner.pc = "idle" /\ ~InQueue(j) /\ worker.job # j
    BY <1>7, <2>1
       DEF Recover, RecoverCancelling, RecoverPaused, RecoverPending, RecoverFinished, TypeOK
  <2>3. \/ /\ UNCHANGED <<state, queue>> /\ boot'.erase = NoJob
        \/ /\ UNCHANGED queue /\ state[j] \notin Terminal /\ boot'.erase \in {NoJob, j}
           /\ \E s \in Terminal : state' = [state EXCEPT ![j] = s]
        \/ /\ j \in inputs /\ state[j] \in {"queued", "running"} /\ boot'.erase = NoJob
           /\ queue' = Append(queue, j) /\ state' = [state EXCEPT ![j] = "queued"]
    BY <1>7 DEF Recover, RecoverCancelling, RecoverPaused, RecoverPending, RecoverFinished,
                Visit, Terminal, Paused
  <2>4. \A k \in pruner.done : k \in Jobs
    BY DEF TypeOK
  <2>5. CASE UNCHANGED <<state, queue>> /\ boot'.erase = NoJob
    BY <2>1, <2>2, <2>5, QueueSame
  <2>6. CASE /\ UNCHANGED queue /\ state[j] \notin Terminal /\ boot'.erase \in {NoJob, j}
             /\ \E s \in Terminal : state' = [state EXCEPT ![j] = s]
    BY <2>1, <2>2, <2>4, <2>6, QueueSame DEF TypeOK, Terminal, Paused, Pending
  <2>7. CASE /\ j \in inputs /\ state[j] \in {"queued", "running"} /\ boot'.erase = NoJob
             /\ queue' = Append(queue, j) /\ state' = [state EXCEPT ![j] = "queued"]
    BY <2>1, <2>2, <2>4, <2>7, QueueAppend DEF TypeOK, Terminal, Paused, Pending
  <2> QED
    BY <2>3, <2>5, <2>6, <2>7
<1>8. CASE RecoverErase
  BY <1>8, QueueSame DEF RecoverErase, Erase, TypeOK, Terminal, Paused, Pending
<1>9. CASE RecoverDone
  BY <1>9, QueueSame DEF RecoverDone, Booted, Scanning, Resting, TypeOK
<1>10. CASE Crash
  <2>1. \A k \in Jobs : ~InQueue(k)'
    BY <1>10 DEF Crash, InQueue
  <2> QED
    BY <1>10, <2>1 DEF Crash, Idle, Resting, TypeOK
<1> QED
  BY <1>1, <1>2, <1>3, <1>4, <1>5, <1>6, <1>7, <1>8, <1>9, <1>10 DEF PruneStep, BootStep

LEMMA ClipsNext ==
  ASSUME ~Ageing, ClipsInv, [Next]_vars
  PROVE  /\ ClipsInv'
         /\ \A k \in Jobs : state[k] \in Terminal => state'[k] \in {state[k], "absent"}
<1>1. RunInv'
  BY RunNext DEF ClipsInv
<1>2. CASE UNCHANGED vars
  BY <1>1, <1>2, QueueSame
     DEF ClipsInv, RetentionInv, LiveJobsKeepClips, Submitting, Running, Over, vars, record, files,
         startup
<1>3. CASE Next
  BY <1>1, <1>3, ClipsRequest, ClipsWorker, ClipsService DEF Next, ClipsInv
<1> QED
  BY <1>2, <1>3

\* As long as no question outlives its retention limit, a job that can still be built,
\* resumed or recovered has its source clips, whatever crashes and whichever metadata
\* writes fail: cleanup, pruning and recovery only ever erase the clips of finished jobs.
THEOREM ClipsOutliveJob == ~Ageing => (Spec => []LiveJobsKeepClips)
<1> SUFFICES ASSUME ~Ageing PROVE Spec => []LiveJobsKeepClips
  OBVIOUS
<1>1. ClipsInv /\ [Next]_vars => ClipsInv'
  BY ClipsNext
<1>2. ClipsInv => LiveJobsKeepClips
  BY DEF ClipsInv, RetentionInv
<1> QED
  BY <1>1, <1>2, ClipsInit, PTL DEF Spec

\* Under the same condition the outcome of a job is final: no checkpoint, answer, late
\* cancellation or recovery changes it, only its record may be dropped.
THEOREM OutcomeIsFinal == ~Ageing => (Spec => TerminalIsFinal)
<1> SUFFICES ASSUME ~Ageing PROVE Spec => TerminalIsFinal
  OBVIOUS
<1>1. ClipsInv /\ [Next]_vars => ClipsInv'
  BY ClipsNext
<1>2. ClipsInv /\ [Next]_vars =>
        [\A j \in Jobs : state[j] \in Terminal => state'[j] \in {state[j], "absent"}]_vars
  BY ClipsNext
<1> QED
  BY <1>1, <1>2, ClipsInit, PTL DEF Spec, TerminalIsFinal

(***************************************************************************)
(* Questions that have been answered are not put again                     *)
(***************************************************************************)

\* A run that lacks an answer works for a job that has none on record, and only such a run
\* asks.
QuestionInv ==
  /\ QuestionIsOpen
  /\ worker.pc = "askSpeaker" => worker.speaker = None
  /\ worker.pc = "askReference" => worker.reference = None
  /\ \A j \in Jobs : Running(j) =>
       /\ worker.speaker = None => speaker[j] = None
       /\ worker.reference = None => reference[j] = None

LEMMA QuestionInit == Init => QuestionInv
  BY DEF Init, QuestionInv, QuestionIsOpen, Running, Idle

LEMMA QuestionRequest ==
  ASSUME RunInv, QuestionInv, NEW j \in Jobs, Request(j) \/ ClientStep(j) \/ TimePasses(j)
  PROVE  QuestionInv'
<1> USE DEF RunInv, SubmissionInv, QuestionInv, QuestionIsOpen, Running, Write, record, files
<1>1. TypeOK
  OBVIOUS
<1>2. CASE \E a \in Anchors : ChooseSpeaker(j, a)
  BY <1>2 DEF ChooseSpeaker, AcceptsSpeaker, TypeOK, Paused
<1>3. CASE \E r \in References : ChooseReference(j, r)
  BY <1>3 DEF ChooseReference, TypeOK, Paused
<1>4. CASE CancelPaused(j) \/ CancelPending(j) \/ CreateWrite(j)
  BY <1>4 DEF CancelPaused, CancelPending, CreateWrite, TypeOK
<1>5. CASE CreateBegin(j) \/ CreateFails(j) \/ Submit(j) \/ Enqueue(j) \/ EraseCancelled(j)
           \/ TimePasses(j)
  BY <1>5 DEF CreateBegin, CreateFails, Submit, Enqueue, EraseCancelled, TimePasses
<1> QED
  BY <1>2, <1>3, <1>4, <1>5 DEF Request, ClientStep

\* A checkpoint changes no answer and puts no question.
LEMMA QuestionCheckpoint ==
  ASSUME RunInv, QuestionInv, worker.pc \notin {"idle", "cleanup", "finally"},
         NEW pc \in WorkerPc, Checkpoint(pc),
         pc = "askSpeaker" => worker.speaker = None,
         pc = "askReference" => worker.reference = None
  PROVE  QuestionInv'
<1>1. /\ worker'.job = worker.job /\ worker'.pc \in {pc, "cancelled", "failed"}
      /\ worker'.speaker = worker.speaker /\ worker'.reference = worker.reference
  BY DEF Checkpoint, Goto, RunInv, TypeOK
<1>2. UNCHANGED <<speaker, reference>> /\ \A k \in Jobs : state'[k] \in {state[k], "running"}
  BY DEF Checkpoint, Write, RunInv, TypeOK
<1> QED
  BY <1>1, <1>2 DEF QuestionInv, QuestionIsOpen, Running

LEMMA QuestionWorker ==
  ASSUME RunInv, QuestionInv, WorkerStep
  PROVE  QuestionInv'
<1>1. TypeOK
  BY DEF RunInv
<1>2. {"gate", "installing", "publish", "askSpeaker", "askReference", "build", "failed", "packaged"}
        \subseteq WorkerPc \ {"idle", "cleanup", "finally"}
  BY DEF WorkerPc, Building
<1>3. CASE Take
  BY <1>1, <1>3 DEF Take, QuestionInv, QuestionIsOpen, Running, record, files
<1>4. CASE /\ worker'.job = worker.job /\ worker.pc \notin {"idle", "finally"}
           /\ worker'.pc \notin {"askSpeaker", "askReference"}
           /\ worker'.speaker = worker.speaker /\ worker'.reference = worker.reference
           /\ UNCHANGED <<speaker, reference>>
           /\ \A k \in Jobs : state'[k] \in {state[k]} \cup Terminal
  BY <1>4 DEF QuestionInv, QuestionIsOpen, Running, Terminal
<1>5. CASE Start
  BY <1>1, <1>2, <1>4, <1>5, QuestionCheckpoint DEF Start, Goto, WorkerOnly, record, files, TypeOK
<1>6. CASE AcquireGate
  BY <1>1, <1>2, <1>4, <1>6, QuestionCheckpoint DEF AcquireGate, WorkerOnly, record, files, TypeOK
<1>7. CASE Progress \/ AskSpeaker \/ AskReference \/ Complete \/ Install
  BY <1>2, <1>7, QuestionCheckpoint DEF Progress, AskSpeaker, AskReference, Complete, Install
<1>8. CASE Package \/ BuildFails \/ Cleanup
  BY <1>1, <1>4, <1>8
     DEF Package, BuildFails, Building, Cleanup, Goto, WorkerOnly, record, files, TypeOK
<1>9. CASE Succeed \/ Finish("cancelled") \/ Finish("failed")
  <2>1. worker.job \in Jobs /\ worker.pc \notin {"idle", "finally"}
    BY <1>1, <1>9 DEF Succeed, Finish, TypeOK
  <2>2. /\ worker'.job = worker.job /\ worker'.pc \in {"cleanup", "failed", "finally"}
        /\ worker'.speaker = worker.speaker /\ worker'.reference = worker.reference
    BY <1>1, <1>9 DEF Succeed, Finish, Goto, TypeOK
  <2>3. /\ UNCHANGED <<speaker, reference>>
        /\ \A k \in Jobs : state'[k] \in {state[k]} \cup Terminal
    BY <1>1, <1>9, <2>1 DEF Succeed, Finish, Write, TypeOK, Terminal
  <2> QED
    BY <1>4, <2>1, <2>2, <2>3
<1>10. ASSUME Pause("askSpeaker", "needs_speaker") \/ Pause("askReference", "needs_reference")
       PROVE  QuestionInv'
  <2>1. worker.job \in Jobs /\ Running(worker.job)
    BY <1>1, <1>10 DEF Pause, Running, TypeOK
  <2>2. worker'.pc = "finally"
    BY <1>1, <1>10 DEF Pause, Goto, TypeOK
  <2>3. CASE Pause("askSpeaker", "needs_speaker")
    <3>1. worker.pc = "askSpeaker" /\ speaker[worker.job] = None /\ UNCHANGED speaker
      BY <2>1, <2>3 DEF Pause, QuestionInv
    <3>2. \/ state' = [state EXCEPT ![worker.job] = "needs_speaker"]
             /\ reference' = [reference EXCEPT ![worker.job] = None]
          \/ UNCHANGED <<state, reference>>
      BY <2>3 DEF Pause, Write
    <3> QED
      BY <1>1, <2>1, <2>2, <3>1, <3>2 DEF QuestionInv, QuestionIsOpen, Running, TypeOK
  <2>4. CASE Pause("askReference", "needs_reference")
    <3>1. worker.pc = "askReference" /\ reference[worker.job] = None
          /\ UNCHANGED <<speaker, reference>>
      BY <2>1, <2>4 DEF Pause, QuestionInv
    <3>2. state' = [state EXCEPT ![worker.job] = "needs_reference"] \/ UNCHANGED state
      BY <2>4 DEF Pause, Write
    <3> QED
      BY <1>1, <2>1, <2>2, <3>1, <3>2 DEF QuestionInv, QuestionIsOpen, Running, TypeOK
  <2> QED
    BY <1>10, <2>3, <2>4
<1>11. CASE Finally
  BY <1>11 DEF Finally, Idle, QuestionInv, QuestionIsOpen, Running, record, files
<1> QED
  BY <1>3, <1>5, <1>6, <1>7, <1>8, <1>9, <1>10, <1>11 DEF WorkerStep

\* The pruner forgets answers, and recovery writes back none.
LEMMA QuestionService ==
  ASSUME RunInv, QuestionInv,
         SyncBegin \/ SyncStep \/ PruneStart \/ PruneStep \/ BootStep \/ Crash
  PROVE  QuestionInv'
<1>1. TypeOK
  BY DEF RunInv
<1>2. CASE /\ UNCHANGED worker
           /\ \A k \in Jobs : /\ state'[k] \in {state[k], "absent", "queued"} \cup Terminal
                              /\ speaker'[k] \in {speaker[k], None}
                              /\ reference'[k] \in {reference[k], None}
  BY <1>2 DEF QuestionInv, QuestionIsOpen, Running, Terminal
<1>3. CASE SyncBegin \/ SyncStep \/ PruneStart \/ PruneErase \/ RecoverErase \/ RecoverDone
           \/ \E j \in Jobs : PruneRead(j)
  BY <1>2, <1>3 DEF SyncBegin, SyncStep, SyncEnter, SyncEnd, PruneStart, PruneErase, RecoverErase,
                    RecoverDone, PruneRead, record, files
<1>4. CASE PruneExpire
  <2>1. \A k \in Jobs : /\ state'[k] \in {state[k], "cancelled"}
                        /\ speaker'[k] \in {speaker[k], None}
                        /\ reference'[k] \in {reference[k], None}
    BY <1>1, <1>4 DEF PruneExpire, Expired, Write, record, files, TypeOK
  <2> QED
    BY <1>2, <1>4, <2>1 DEF PruneExpire, Terminal
<1>5. CASE PruneDrop
  <2>1. \A k \in Jobs : /\ state'[k] \in {state[k], "absent"}
                        /\ speaker'[k] \in {speaker[k], None}
                        /\ reference'[k] \in {reference[k], None}
    BY <1>1, <1>5 DEF PruneDrop, TypeOK
  <2> QED
    BY <1>2, <1>5, <2>1 DEF PruneDrop
<1>6. ASSUME NEW j \in Jobs, Recover(j) PROVE QuestionInv'
  <2>1. \A k \in Jobs : state'[k] \in {state[k], "queued", "cancelled", "failed"}
    BY <1>1, <1>6 DEF Recover, RecoverCancelling, RecoverPaused, RecoverPending, RecoverFinished,
                      Write, TypeOK
  <2> QED
    BY <1>2, <1>6, <2>1 DEF Recover, Terminal
<1>7. CASE Crash
  BY <1>7 DEF Crash, Idle, QuestionInv, QuestionIsOpen, Running, record, files
<1> QED
  BY <1>3, <1>4, <1>5, <1>6, <1>7 DEF PruneStep, BootStep

LEMMA QuestionNext == RunInv /\ QuestionInv /\ [Next]_vars => QuestionInv'
<1> SUFFICES ASSUME RunInv, QuestionInv, [Next]_vars PROVE QuestionInv'
  OBVIOUS
<1>1. CASE UNCHANGED vars
  BY <1>1 DEF QuestionInv, QuestionIsOpen, Running, vars, record, files
<1> QED
  BY <1>1, QuestionRequest, QuestionWorker, QuestionService DEF Next

\* A question the user has answered is not put again: not by the run that was restarted after a
\* crash, nor after a write of the answer's job has failed, nor when a paused job expires
\* under the pruner while it is being answered.
THEOREM NoQuestionTwice == Spec => []QuestionIsOpen
<1>1. QuestionInv => QuestionIsOpen
  BY DEF QuestionInv
<1> QED
  BY <1>1, RunInit, RunNext, QuestionInit, QuestionNext, PTL DEF Spec

(***************************************************************************)
(* The phases of a run                                                     *)
(***************************************************************************)

AtWork == {"gate", "build", "packaged", "installing", "publish", "askSpeaker", "askReference"}

\* Who is to be run, or is run, has not finished; past its first checkpoint a run is no longer
\* queued; and what the pruner has counted has only clips that could not be erased.
PhaseInv ==
  /\ \A j \in Jobs : Submitting(j) \/ InQueue(j) => state[j] \in Pending
  /\ worker.pc \notin {"idle", "cleanup", "finally"} => state[worker.job] \in Pending
  /\ worker.pc \in AtWork => state[worker.job] # "queued"
  /\ \A j \in pruner.done : j \notin inputs \ leftovers

LEMMA PhaseInit == Init => PhaseInv
<1> SUFFICES ASSUME Init PROVE PhaseInv
  OBVIOUS
<1>1. \A j \in Jobs : ~InQueue(j)
  BY DEF Init, InQueue
<1> QED
  BY <1>1 DEF Init, PhaseInv, Submitting, Idle, Resting, AtWork

LEMMA PhaseRequest ==
  ASSUME ~Ageing, ClipsInv, PhaseInv, NEW j \in Jobs, Request(j) \/ ClientStep(j) \/ TimePasses(j)
  PROVE  PhaseInv'
<1> USE DEF ClipsInv, RunInv, SubmissionInv, RetentionInv, OneRunPerJob, PhaseInv, Unknown, Exists,
            Submitting, Running, AtWork, Write, record, files, marks, bounds, startup
<1>1. TypeOK
  OBVIOUS
<1>2. worker.pc # "idle" => worker.job \in Jobs
  BY DEF TypeOK
<1>3. \A k \in pruner.done : k \in Jobs /\ state[k] \in Terminal
  BY DEF TypeOK
<1>4. CASE CreateBegin(j)
  BY <1>2, <1>3, <1>4, QueueSame DEF CreateBegin, TypeOK, Terminal
<1>5. CASE \E a \in Anchors : ChooseSpeaker(j, a)
  BY <1>2, <1>5, QueueSame DEF ChooseSpeaker, AcceptsSpeaker, TypeOK, Paused, Pending
<1>6. CASE \E r \in References : ChooseReference(j, r)
  BY <1>2, <1>6, QueueSame DEF ChooseReference, TypeOK, Paused, Pending
<1>7. CASE CancelPaused(j)
  BY <1>2, <1>7, QueueSame DEF CancelPaused, TypeOK, Paused, Pending
<1>8. CASE CancelPending(j)
  BY <1>2, <1>8, QueueSame DEF CancelPending, Cancellable, TypeOK, Pending
<1>9. CASE CreateWrite(j)
  BY <1>2, <1>9, QueueSame DEF CreateWrite, TypeOK, Pending
<1>10. CASE CreateFails(j) \/ Submit(j) \/ EraseCancelled(j)
  BY <1>2, <1>10, QueueSame DEF CreateFails, Submit, EraseCancelled, Erase, TypeOK
<1>11. CASE Enqueue(j)
  BY <1>2, <1>11, QueueAppend DEF Enqueue, TypeOK
<1>12. CASE TimePasses(j)
  BY <1>12 DEF TimePasses
<1> QED
  BY <1>4, <1>5, <1>6, <1>7, <1>8, <1>9, <1>10, <1>11, <1>12 DEF Request, ClientStep

\* A checkpoint that lets a run go on has written that it runs, or found that it does.
LEMMA PhaseCheckpoint ==
  ASSUME ClipsInv, PhaseInv, worker.pc \notin {"idle", "cleanup", "finally"},
         NEW pc \in WorkerPc \ {"idle", "cleanup", "finally"}, Checkpoint(pc)
  PROVE  PhaseInv'
<1> USE DEF ClipsInv, RunInv, PhaseInv, Submitting, AtWork, Exists, Write
<1>1. worker.job \in Jobs /\ state[worker.job] \in Pending /\ TypeOK
  BY DEF TypeOK
<1>2. worker'.job = worker.job /\ worker'.pc \notin {"idle", "cleanup", "finally"}
  BY DEF Checkpoint, Goto, TypeOK
<1>3. \/ state' = [state EXCEPT ![worker.job] = "running"]
      \/ UNCHANGED state /\ worker'.pc \in {"cancelled", "failed"}
  BY DEF Checkpoint, Goto, TypeOK
<1>4. UNCHANGED <<files, queue, client, pruner>>
  BY DEF Checkpoint, startup
<1> QED
  BY <1>1, <1>2, <1>3, <1>4, QueueSame DEF files, TypeOK, Pending

LEMMA PhaseWorker ==
  ASSUME ClipsInv, PhaseInv, WorkerStep
  PROVE  PhaseInv'
<1> USE DEF ClipsInv, RunInv, SubmissionInv, RetentionInv, OneRunPerJob, PhaseInv, Submitting,
            Running, AtWork, Exists
<1>1. TypeOK /\ (worker.pc # "idle" => worker.job \in Jobs)
  BY DEF TypeOK
<1>2. {"gate", "installing", "publish", "askSpeaker", "askReference", "build", "failed"}
        \subseteq WorkerPc \ {"idle", "cleanup", "finally"}
  BY DEF WorkerPc, Building
<1>3. CASE Take
  <2>1. /\ Head(queue) \in Jobs /\ InQueue(Head(queue))
        /\ \A k \in Jobs : InQueue(k)' <=> (InQueue(k) /\ k # Head(queue))
    BY <1>1, <1>3, QueueTake DEF Take, TypeOK
  <2>2. worker'.job = Head(queue) /\ worker'.pc \notin AtWork
    BY <1>3 DEF Take
  <2> QED
    BY <1>3, <2>1, <2>2 DEF Take, record, files
<1>4. CASE /\ worker'.job = worker.job /\ worker.pc \notin {"idle", "cleanup", "finally"}
           /\ worker'.pc \in AtWork => worker.pc \in AtWork
           /\ UNCHANGED <<record, files, queue, client, pruner>>
  BY <1>4, QueueSame DEF record, files
<1>5. CASE Start
  BY <1>1, <1>2, <1>4, <1>5, PhaseCheckpoint DEF Start, Goto, WorkerOnly, TypeOK
<1>6. CASE AcquireGate
  BY <1>1, <1>2, <1>4, <1>6, PhaseCheckpoint DEF AcquireGate, WorkerOnly, TypeOK
<1>7. CASE Progress \/ AskSpeaker \/ AskReference \/ Complete \/ Install
  BY <1>2, <1>7, PhaseCheckpoint DEF Progress, AskSpeaker, AskReference, Complete, Install
<1>8. CASE Package
  BY <1>1, <1>4, <1>8 DEF Package, Goto, TypeOK
<1>9. CASE BuildFails
  BY <1>1, <1>4, <1>9 DEF BuildFails, Building, Goto, WorkerOnly, TypeOK
<1>10. CASE Succeed \/ Finish("cancelled") \/ Finish("failed")
  <2>1. worker.job \in Jobs /\ Running(worker.job)
    BY <1>1, <1>10 DEF Succeed, Finish
  <2>2. worker'.job = worker.job /\ worker'.pc \in {"cleanup", "failed", "finally"}
    BY <1>1, <1>10 DEF Succeed, Finish, Goto, TypeOK
  <2>3. \/ worker'.pc = "cleanup" /\ \A k \in Jobs \ {worker.job} : state'[k] = state[k]
        \/ UNCHANGED state
    BY <1>1, <1>10 DEF Succeed, Finish, Goto, Write, TypeOK
  <2>4. worker.pc \notin {"idle", "cleanup", "finally"}
        /\ UNCHANGED <<files, queue, client, pruner>>
    BY <1>10 DEF Succeed, Finish
  <2> QED
    BY <2>1, <2>2, <2>3, <2>4, QueueSame DEF files
<1>11. ASSUME NEW pc \in {"askSpeaker", "askReference"}, NEW q \in Paused, Pause(pc, q)
       PROVE  PhaseInv'
  <2>1. worker.job \in Jobs /\ Running(worker.job)
    BY <1>1, <1>11 DEF Pause
  <2>2. worker'.pc = "finally"
    BY <1>1, <1>11 DEF Pause, Goto, TypeOK
  <2>3. \A k \in Jobs \ {worker.job} : state'[k] = state[k]
    BY <1>1, <1>11 DEF Pause, Write, TypeOK
  <2>4. UNCHANGED <<files, queue, client, pruner>>
    BY <1>11 DEF Pause
  <2> QED
    BY <2>1, <2>2, <2>3, <2>4, QueueSame DEF files
<1>12. CASE Cleanup \/ Finally
  <2>1. /\ worker'.pc \in {"idle", "finally"}
        /\ inputs' \ leftovers' \subseteq inputs \ leftovers
    BY <1>1, <1>12 DEF Cleanup, Erase, Finally, Goto, Idle, files, TypeOK
  <2> QED
    BY <1>12, <2>1, QueueSame DEF Cleanup, Finally, record, files
<1> QED
  BY <1>3, <1>5, <1>6, <1>7, <1>8, <1>9, <1>10, <1>11, <1>12 DEF WorkerStep, Paused

LEMMA PhaseService ==
  ASSUME ClipsInv, PhaseInv,
         SyncBegin \/ SyncStep \/ PruneStart \/ PruneStep \/ BootStep \/ Crash
  PROVE  PhaseInv'
<1> USE DEF ClipsInv, RunInv, SubmissionInv, RetentionInv, PhaseInv, Submitting, AtWork
<1>1. TypeOK /\ (worker.pc # "idle" => worker.job \in Jobs)
  BY DEF TypeOK
<1>2. CASE SyncBegin \/ SyncStep
  BY <1>2, QueueSame DEF SyncBegin, SyncStep, SyncEnter, SyncEnd, record, files
<1>3. CASE PruneStart \/ RecoverDone
  <2>1. pruner'.done = {}
    BY <1>3 DEF PruneStart, RecoverDone, Scanning, Resting
  <2> QED
    BY <1>3, <2>1, QueueSame DEF PruneStart, RecoverDone, record, files
<1>4. ASSUME NEW j \in Jobs, PruneRead(j) PROVE PhaseInv'
  <2>1. pruner'.done = pruner.done
    BY <1>1, <1>4 DEF PruneRead, TypeOK
  <2> QED
    BY <1>4, <2>1, QueueSame DEF PruneRead, record, files
<1>5. CASE PruneExpire
  BY <1>5 DEF PruneExpire
<1>6. CASE PruneErase
  <2>1. /\ pruner'.done = pruner.done \cup {pruner.job}
        /\ inputs' \ leftovers' \subseteq (inputs \ leftovers) \ {pruner.job}
    BY <1>1, <1>6 DEF PruneErase, Erase, TypeOK
  <2> QED
    BY <1>6, <2>1, QueueSame DEF PruneErase, record, files
<1>7. CASE PruneDrop
  <2>1. PICK drop \in SUBSET pruner.done :
          state' = [j \in Jobs |-> IF j \in drop THEN "absent" ELSE state[j]]
    BY <1>7 DEF PruneDrop
  <2>2. pruner'.done = {} /\ UNCHANGED <<queue, client, worker>>
    BY <1>7 DEF PruneDrop, Resting
  <2>3. \A k \in drop : state[k] \notin Pending
    BY <1>1 DEF TypeOK, Terminal, Pending
  <2> QED
    BY <1>1, <2>1, <2>2, <2>3, QueueSame
<1>8. ASSUME NEW j \in Jobs, Recover(j) PROVE PhaseInv'
  <2>1. /\ service = "recover" /\ j \in boot.todo /\ worker.job # j /\ ~InQueue(j)
        /\ client[j] = "none" /\ UNCHANGED <<files, client, worker, pruner>>
    BY <1>8 DEF Recover
  <2>2. \A k \in Jobs \ {j} : state'[k] = state[k]
    BY <1>1, <1>8 DEF Recover, RecoverCancelling, RecoverPaused, RecoverPending, RecoverFinished,
                      Write, TypeOK
  <2>3. UNCHANGED queue \/ (queue' = Append(queue, j) /\ state'[j] = "queued")
    BY <1>1, <1>8 DEF Recover, RecoverCancelling, RecoverPaused, RecoverPending, RecoverFinished,
                      Write, TypeOK
  <2>4. \A k \in Jobs : InQueue(k)' => InQueue(k) \/ (k = j /\ state'[j] = "queued")
    BY <1>1, <2>1, <2>3, QueueSame, QueueAppend DEF OneRunPerJob, TypeOK
  <2> QED
    BY <1>1, <2>1, <2>2, <2>4 DEF files, Pending
<1>9. CASE RecoverErase
  BY <1>9, QueueSame DEF RecoverErase, Erase, record, files
<1>10. CASE Crash
  <2>1. \A k \in Jobs : ~InQueue(k)'
    BY <1>10 DEF Crash, InQueue
  <2> QED
    BY <1>10, <2>1 DEF Crash, Idle, Resting
<1> QED
  BY <1>2, <1>3, <1>4, <1>5, <1>6, <1>7, <1>8, <1>9, <1>10 DEF PruneStep, BootStep

LEMMA PhaseNext == ASSUME ~Ageing, ClipsInv, PhaseInv, [Next]_vars PROVE PhaseInv'
<1>1. CASE UNCHANGED vars
  BY <1>1, QueueSame DEF PhaseInv, Submitting, vars, record, files
<1> QED
  BY <1>1, PhaseRequest, PhaseWorker, PhaseService DEF Next

(***************************************************************************)
(* The queue implements the life cycle                                     *)
(***************************************************************************)

LEMMA LifecycleStates ==
  /\ Lifecycle!Waiting = Paused /\ Lifecycle!Finished = Terminal /\ Lifecycle!Ongoing = Pending
  BY DEF Lifecycle!Waiting, Lifecycle!Finished, Lifecycle!Ongoing, Paused, Terminal, Pending

\* One job changes its state and no clips come or go.
LEMMA StateStep ==
  ASSUME TypeOK, NEW j \in Jobs, NEW s, state' = [state EXCEPT ![j] = s], UNCHANGED files,
         \/ s = state[j]
         \/ state[j] = "absent" /\ j \in inputs /\ s = "queued"
         \/ state[j] = "queued" /\ j \in inputs /\ s = "running"
         \/ state[j] = "running" /\ j \in inputs /\ s = "queued"
         \/ state[j] \in {"running", "cancelling"} /\ s \in Paused \cup {"succeeded"}
         \/ state[j] \in Paused /\ j \in inputs /\ s = "queued"
         \/ state[j] \in Paused /\ s = "cancelled"
         \/ state[j] \in {"queued", "running"} /\ s = "cancelling"
         \/ state[j] \in Pending /\ s \in {"failed", "cancelled"}
  PROVE  [Lifecycle!Next]_(Lifecycle!vars)
<1>1. CASE s = state[j]
  BY <1>1 DEF Lifecycle!vars, files, TypeOK
<1>2. CASE s # state[j]
  <2>1. Lifecycle!Become(j, s)
    BY DEF Lifecycle!Become, files
  <2>2. Lifecycle!Step(j)
    BY <1>2, <2>1, LifecycleStates
       DEF Lifecycle!Step, Lifecycle!Accept, Lifecycle!Begin, Lifecycle!Requeue, Lifecycle!Ask,
           Lifecycle!Answer, Lifecycle!RequestCancel, Lifecycle!Succeed, Lifecycle!Fail,
           Lifecycle!Cancelled, Paused
  <2> QED
    BY <2>2 DEF Lifecycle!Next
<1> QED
  BY <1>1, <1>2

\* The clips of one job come or go, and no job changes its state.
LEMMA ClipsStep ==
  ASSUME NEW j \in Jobs, UNCHANGED state,
         \/ inputs' = inputs \cup {j} /\ UNCHANGED leftovers /\ state[j] = "absent"
         \/ Erase(j) /\ Over(j)
  PROVE  [Lifecycle!Next]_(Lifecycle!vars)
<1>1. Lifecycle!Step(j)
  BY LifecycleStates DEF Lifecycle!Step, Lifecycle!Upload, Lifecycle!Reject, Lifecycle!Erase,
                          Lifecycle!Remove, Erase, Over
<1> QED
  BY <1>1 DEF Lifecycle!Next

LEMMA SameStep == UNCHANGED <<state, files>> => [Lifecycle!Next]_(Lifecycle!vars)
  BY DEF Lifecycle!vars, files

LEMMA LifecycleRequest ==
  ASSUME ~Ageing, ClipsInv, PhaseInv, NEW j \in Jobs, Request(j) \/ ClientStep(j) \/ TimePasses(j)
  PROVE  [Lifecycle!Next]_(Lifecycle!vars)
<1> USE DEF ClipsInv, RunInv, SubmissionInv, RetentionInv, LiveJobsKeepClips, Unknown, Exists, Over,
            Write, record, files
<1>1. TypeOK
  OBVIOUS
<1>2. CASE CreateBegin(j)
  BY <1>2, ClipsStep DEF CreateBegin
<1>3. CASE CreateWrite(j)
  BY <1>3, StateStep DEF CreateWrite
<1>4. CASE CreateFails(j) \/ EraseCancelled(j)
  BY <1>4, ClipsStep DEF CreateFails, EraseCancelled
<1>5. CASE \E a \in Anchors : ChooseSpeaker(j, a)
  <2>1. /\ state[j] \in Paused /\ state' = [state EXCEPT ![j] = "queued"]
        /\ j \in inputs /\ UNCHANGED files
    BY <1>5 DEF ChooseSpeaker, AcceptsSpeaker, Paused
  <2> QED
    BY <2>1, StateStep
<1>6. CASE \E r \in References : ChooseReference(j, r)
  <2>1. /\ state[j] \in Paused /\ state' = [state EXCEPT ![j] = "queued"]
        /\ j \in inputs /\ UNCHANGED files
    BY <1>6 DEF ChooseReference, Paused
  <2> QED
    BY <2>1, StateStep
<1>7. CASE CancelPaused(j)
  BY <1>7, StateStep DEF CancelPaused
<1>8. CASE CancelPending(j)
  BY <1>8, StateStep, SameStep DEF CancelPending, Cancellable, Pending
<1>9. CASE Submit(j) \/ Enqueue(j) \/ TimePasses(j)
  BY <1>9, SameStep DEF Submit, Enqueue, TimePasses
<1> QED
  BY <1>2, <1>3, <1>4, <1>5, <1>6, <1>7, <1>8, <1>9 DEF Request, ClientStep

LEMMA LifecycleCheckpoint ==
  ASSUME ClipsInv, PhaseInv, worker.pc \notin {"idle", "cleanup", "finally"}, NEW pc, Checkpoint(pc)
  PROVE  [Lifecycle!Next]_(Lifecycle!vars)
<1>1. worker.job \in Jobs /\ state[worker.job] \in Pending /\ worker.job \in inputs /\ TypeOK
  BY DEF ClipsInv, RunInv, RetentionInv, LiveJobsKeepClips, PhaseInv, TypeOK
<1>2. UNCHANGED files
      /\ \/ UNCHANGED state
         \/ state' = [state EXCEPT ![worker.job] = "running"] /\ ~CancelSeen(worker.job)
  BY DEF Checkpoint, Write
<1>3. ~CancelSeen(worker.job) => state[worker.job] \in {"queued", "running"}
  BY <1>1 DEF CancelSeen, Pending
<1> QED
  BY <1>1, <1>2, <1>3, StateStep, SameStep

LEMMA LifecycleWorker ==
  ASSUME ClipsInv, PhaseInv, WorkerStep
  PROVE  [Lifecycle!Next]_(Lifecycle!vars)
<1> USE DEF ClipsInv, RunInv, RetentionInv, PhaseInv, AtWork
<1>1. TypeOK /\ (worker.pc # "idle" => worker.job \in Jobs)
  BY DEF TypeOK
<1>2. CASE Start \/ AcquireGate \/ Progress \/ AskSpeaker \/ AskReference \/ Complete \/ Install
  BY <1>2, LifecycleCheckpoint, SameStep
     DEF Start, AcquireGate, Progress, AskSpeaker, AskReference, Complete, Install, WorkerOnly,
         record, files
<1>3. CASE Take \/ Package \/ BuildFails \/ Finally
  BY <1>3, SameStep DEF Take, Package, BuildFails, Finally, WorkerOnly, record, files
<1>4. CASE Succeed
  <2>1. state[worker.job] \in {"running", "cancelling"} /\ worker.job \in Jobs
    BY <1>1, <1>4 DEF Succeed, Pending
  <2> QED
    BY <1>1, <1>4, <2>1, StateStep, SameStep DEF Succeed, Write
<1>5. CASE Finish("cancelled") \/ Finish("failed")
  <2>1. state[worker.job] \in Pending /\ worker.job \in Jobs
    BY <1>1, <1>5 DEF Finish
  <2> QED
    BY <1>1, <1>5, <2>1, StateStep, SameStep DEF Finish, Write
<1>6. CASE Pause("askSpeaker", "needs_speaker") \/ Pause("askReference", "needs_reference")
  <2>1. state[worker.job] \in {"running", "cancelling"} /\ worker.job \in Jobs
    BY <1>1, <1>6 DEF Pause, Pending
  <2> QED
    BY <1>1, <1>6, <2>1, StateStep, SameStep DEF Pause, Write, Paused
<1>7. CASE Cleanup
  BY <1>1, <1>7, ClipsStep DEF Cleanup, record, files
<1> QED
  BY <1>2, <1>3, <1>4, <1>5, <1>6, <1>7 DEF WorkerStep

LEMMA LifecycleService ==
  ASSUME ClipsInv, PhaseInv,
         SyncBegin \/ SyncStep \/ PruneStart \/ PruneStep \/ BootStep \/ Crash
  PROVE  [Lifecycle!Next]_(Lifecycle!vars)
<1> USE DEF ClipsInv, RunInv, RetentionInv, PhaseInv
<1>1. TypeOK
  OBVIOUS
<1>2. CASE \/ SyncBegin \/ SyncStep \/ PruneStart \/ RecoverDone \/ Crash
           \/ \E j \in Jobs : PruneRead(j)
  BY <1>2, SameStep
     DEF SyncBegin, SyncStep, SyncEnter, SyncEnd, PruneStart, RecoverDone, Crash, PruneRead,
         record, files
<1>3. CASE PruneExpire
  BY <1>3 DEF PruneExpire
<1>4. CASE PruneErase
  <2>1. pruner.job \in Jobs /\ Over(pruner.job)
    BY <1>1, <1>4 DEF PruneErase, TypeOK, Over
  <2> QED
    BY <1>4, <2>1, ClipsStep DEF PruneErase, record, files
<1>5. CASE PruneDrop
  <2>1. PICK drop \in SUBSET pruner.done :
          state' = [j \in Jobs |-> IF j \in drop THEN "absent" ELSE state[j]]
    BY <1>5 DEF PruneDrop
  <2>2. drop \in SUBSET Jobs /\ \A j \in drop : state[j] \in Terminal /\ j \notin inputs \ leftovers
    BY <1>1 DEF TypeOK
  <2>3. Lifecycle!Forget(drop)
    BY <1>5, <2>1, <2>2, LifecycleStates DEF Lifecycle!Forget, PruneDrop, files
  <2> QED
    BY <2>2, <2>3 DEF Lifecycle!Next
<1>6. ASSUME NEW j \in Jobs, Recover(j) PROVE [Lifecycle!Next]_(Lifecycle!vars)
  <2>1. /\ UNCHANGED files
        /\ \/ UNCHANGED state
           \/ state[j] = "cancelling" /\ state' = [state EXCEPT ![j] = "cancelled"]
           \/ /\ state[j] \in {"queued", "running"} /\ j \in inputs
              /\ state' = [state EXCEPT ![j] = "queued"]
    BY <1>6 DEF Recover, RecoverCancelling, RecoverPaused, RecoverPending, RecoverFinished, Write,
                LiveJobsKeepClips, Paused, Pending
  <2> QED
    BY <1>1, <2>1, StateStep, SameStep DEF Pending
<1>7. CASE RecoverErase
  BY <1>7, ClipsStep DEF RecoverErase, record, files
<1> QED
  BY <1>2, <1>3, <1>4, <1>5, <1>6, <1>7 DEF PruneStep, BootStep

\* As long as no question outlives its retention limit, the queue with its threads, markers,
\* pruning, crashes and failing writes does nothing the life cycle does not allow: a job that
\* can be polled has its clips when it is accepted and each time it is run, only one
\* that was running succeeds, and a record is forgotten after an erasure of its clips was
\* tried, whether rmtree could remove them or not.
THEOREM QueueImplementsLifecycle == ~Ageing => (Spec => ImplementsLifecycle)
<1> SUFFICES ASSUME ~Ageing PROVE Spec => Lifecycle!Spec
  BY DEF ImplementsLifecycle
<1>1. Init => Lifecycle!Init
  BY DEF Init, Lifecycle!Init
<1>2. ClipsInv /\ [Next]_vars => ClipsInv'
  BY ClipsNext
<1>3. ClipsInv /\ PhaseInv /\ [Next]_vars => PhaseInv'
  BY PhaseNext
<1>4. ClipsInv /\ PhaseInv /\ [Next]_vars => [Lifecycle!Next]_(Lifecycle!vars)
  <2> SUFFICES ASSUME ClipsInv, PhaseInv, [Next]_vars
               PROVE  [Lifecycle!Next]_(Lifecycle!vars)
    OBVIOUS
  <2>1. CASE UNCHANGED vars
    BY <2>1, SameStep DEF vars, record, files
  <2> QED
    BY <2>1, LifecycleRequest, LifecycleWorker, LifecycleService DEF Next
<1> QED
  BY <1>1, <1>2, <1>3, <1>4, ClipsInit, PhaseInit, PTL DEF Spec, Lifecycle!Spec

(***************************************************************************)
(* A voice is built from the answers on record                             *)
(***************************************************************************)

\* The answers a run has read stay those on record until it has written its outcome, and from
\* the package on, the voice is built from them.
BuiltInv ==
  /\ SucceededMatchesAnswers
  /\ worker.pc \notin {"idle", "cleanup", "finally"} =>
       speaker[worker.job] = worker.speaker /\ reference[worker.job] = worker.reference
  /\ worker.pc \in {"packaged", "installing", "publish"} => built[worker.job] = BuildOfAnswers

LEMMA BuiltInit == Init => BuiltInv
  BY DEF Init, BuiltInv, SucceededMatchesAnswers, Idle

LEMMA BuiltRequest ==
  ASSUME ClipsInv, PhaseInv, BuiltInv, NEW j \in Jobs, Request(j) \/ ClientStep(j) \/ TimePasses(j)
  PROVE  BuiltInv'
<1> USE DEF ClipsInv, RunInv, SubmissionInv, RetentionInv, PhaseInv, BuiltInv,
            SucceededMatchesAnswers, BuildOfAnswers, Unknown, Exists, Write, record, files
<1>1. TypeOK
  OBVIOUS
<1>2. CASE \E a \in Anchors : ChooseSpeaker(j, a)
  <2>1. state[j] \in Paused /\ \A k \in Jobs \ {j} : /\ state'[k] = state[k]
                                                      /\ speaker'[k] = speaker[k]
                                                      /\ reference'[k] = reference[k]
    BY <1>1, <1>2 DEF ChooseSpeaker, AcceptsSpeaker, Paused, TypeOK
  <2>2. state'[j] = "queued" /\ UNCHANGED <<built, worker>>
    BY <1>1, <1>2 DEF ChooseSpeaker, TypeOK
  <2> QED
    BY <1>1, <2>1, <2>2 DEF Paused, Pending, TypeOK
<1>3. CASE \E r \in References : ChooseReference(j, r)
  <2>1. state[j] \in Paused /\ \A k \in Jobs \ {j} : /\ state'[k] = state[k]
                                                      /\ speaker'[k] = speaker[k]
                                                      /\ reference'[k] = reference[k]
    BY <1>1, <1>3 DEF ChooseReference, Paused, TypeOK
  <2>2. state'[j] = "queued" /\ UNCHANGED <<built, worker>>
    BY <1>1, <1>3 DEF ChooseReference, TypeOK
  <2> QED
    BY <1>1, <2>1, <2>2 DEF Paused, Pending, TypeOK
<1>4. CASE CancelPaused(j) \/ CancelPending(j) \/ CreateWrite(j)
  <2>1. /\ UNCHANGED <<speaker, reference, built, worker>>
        /\ \A k \in Jobs : state'[k] \in {state[k], "queued", "cancelling", "cancelled"}
    BY <1>1, <1>4 DEF CancelPaused, CancelPending, CreateWrite, TypeOK
  <2> QED
    BY <1>1, <2>1
<1>5. CASE \/ CreateBegin(j) \/ CreateFails(j) \/ Submit(j) \/ Enqueue(j) \/ EraseCancelled(j)
           \/ TimePasses(j)
  BY <1>5 DEF CreateBegin, CreateFails, Submit, Enqueue, EraseCancelled, TimePasses
<1> QED
  BY <1>2, <1>3, <1>4, <1>5 DEF Request, ClientStep

\* The package is published, or was, before a checkpoint goes on from it.
LEMMA BuiltCheckpoint ==
  ASSUME ClipsInv, BuiltInv, worker.pc \notin {"idle", "cleanup", "finally"},
         NEW pc \in WorkerPc \ {"idle", "cleanup", "finally"}, Checkpoint(pc),
         pc \in {"packaged", "installing", "publish"} =>
           worker.pc \in {"packaged", "installing", "publish"}
  PROVE  BuiltInv'
<1>1. TypeOK /\ worker.job \in Jobs
  BY DEF ClipsInv, RunInv, TypeOK
<1>2. /\ worker'.job = worker.job /\ worker'.pc \in {pc, "cancelled", "failed"}
      /\ worker'.speaker = worker.speaker /\ worker'.reference = worker.reference
  BY <1>1 DEF Checkpoint, Goto, TypeOK
<1>3. /\ UNCHANGED <<speaker, reference, built>>
      /\ \A k \in Jobs : state'[k] \in {state[k], "running"}
  BY <1>1 DEF Checkpoint, Write, TypeOK
<1> QED
  BY <1>1, <1>2, <1>3 DEF BuiltInv, SucceededMatchesAnswers, BuildOfAnswers

LEMMA BuiltWorker ==
  ASSUME ClipsInv, PhaseInv, BuiltInv, WorkerStep
  PROVE  BuiltInv'
<1> USE DEF ClipsInv, RunInv, RetentionInv, PhaseInv, BuiltInv, SucceededMatchesAnswers,
            BuildOfAnswers
<1>1. TypeOK /\ (worker.pc # "idle" => worker.job \in Jobs)
  BY DEF TypeOK
<1>2. {"gate", "installing", "publish", "askSpeaker", "askReference", "build", "failed"}
        \subseteq WorkerPc \ {"idle", "cleanup", "finally"}
  BY DEF WorkerPc, Building
<1>3. CASE Take
  <2>1. /\ worker'.pc \notin {"packaged", "installing", "publish"}
        /\ worker'.speaker = speaker[worker'.job] /\ worker'.reference = reference[worker'.job]
    BY <1>3 DEF Take
  <2> QED
    BY <1>3, <2>1 DEF Take, record, files
<1>4. CASE /\ worker'.job = worker.job /\ worker.pc \notin {"idle", "cleanup", "finally"}
           /\ worker'.speaker = worker.speaker /\ worker'.reference = worker.reference
           /\ worker'.pc \notin {"packaged", "installing", "publish"}
           /\ UNCHANGED <<speaker, reference, built>>
           /\ \A k \in Jobs : state'[k] \in {state[k], "cancelled", "failed"}
  BY <1>4
<1>5. CASE Start
  BY <1>1, <1>2, <1>4, <1>5, BuiltCheckpoint DEF Start, Goto, WorkerOnly, record, files, TypeOK
<1>6. CASE AcquireGate
  BY <1>1, <1>2, <1>4, <1>6, BuiltCheckpoint DEF AcquireGate, WorkerOnly, record, files, TypeOK
<1>7. CASE Progress \/ AskSpeaker \/ AskReference \/ Complete \/ Install
  BY <1>2, <1>7, BuiltCheckpoint DEF Progress, AskSpeaker, AskReference, Complete, Install
<1>8. CASE Package
  <2>1. /\ worker'.job = worker.job /\ worker.job \in Jobs
        /\ worker'.speaker = worker.speaker /\ worker'.reference = worker.reference
    BY <1>1, <1>8 DEF Package, Goto, TypeOK
  <2>2. /\ built' = [built EXCEPT ![worker.job] = BuildOfAnswers]
        /\ UNCHANGED <<state, speaker, reference>> /\ state[worker.job] \in Pending
        /\ worker.pc = "build"
    BY <1>8 DEF Package, record, files
  <2> QED
    BY <1>1, <2>1, <2>2 DEF TypeOK, Pending
<1>9. CASE BuildFails
  BY <1>1, <1>4, <1>9 DEF BuildFails, Building, Goto, WorkerOnly, record, files, TypeOK
<1>10. CASE Succeed
  <2>1. /\ worker.pc = "publish" /\ worker.job \in Jobs /\ UNCHANGED <<speaker, reference, built>>
        /\ worker'.job = worker.job /\ worker'.pc \in {"cleanup", "failed"}
        /\ worker'.speaker = worker.speaker /\ worker'.reference = worker.reference
    BY <1>1, <1>10 DEF Succeed, Goto, TypeOK
  <2>2. \A k \in Jobs : state'[k] = state[k] \/ k = worker.job
    BY <1>1, <1>10 DEF Succeed, Write, TypeOK
  <2> QED
    BY <2>1, <2>2
<1>11. CASE Finish("cancelled") \/ Finish("failed")
  <2>1. /\ worker.job \in Jobs /\ worker.pc \notin {"idle", "cleanup", "finally"}
        /\ worker'.job = worker.job /\ worker'.pc \in {"cleanup", "finally"}
        /\ worker'.speaker = worker.speaker /\ worker'.reference = worker.reference
    BY <1>1, <1>11 DEF Finish, Goto, TypeOK
  <2>2. /\ UNCHANGED <<speaker, reference, built>>
        /\ \A k \in Jobs : state'[k] \in {state[k], "cancelled", "failed"}
    BY <1>1, <1>11 DEF Finish, Write, TypeOK
  <2> QED
    BY <1>4, <2>1, <2>2
<1>12. ASSUME NEW pc \in {"askSpeaker", "askReference"}, NEW q \in Paused, Pause(pc, q)
       PROVE  BuiltInv'
  <2>1. /\ worker.job \in Jobs /\ worker'.pc = "finally" /\ state[worker.job] \in Pending
        /\ UNCHANGED <<speaker, built>>
    BY <1>1, <1>12 DEF Pause, Goto, TypeOK
  <2>2. \A k \in Jobs : IF k = worker.job THEN state'[k] \in {state[k], q}
                        ELSE state'[k] = state[k] /\ reference'[k] = reference[k]
    BY <1>1, <1>12 DEF Pause, Write, TypeOK
  <2> QED
    BY <2>1, <2>2 DEF Paused, Pending
<1>13. CASE Cleanup \/ Finally
  <2>1. worker'.pc \in {"idle", "finally"}
    BY <1>1, <1>13 DEF Cleanup, Finally, Goto, Idle, TypeOK
  <2> QED
    BY <1>13, <2>1 DEF Cleanup, Finally, record, files
<1> QED
  BY <1>3, <1>5, <1>6, <1>7, <1>8, <1>9, <1>10, <1>11, <1>12, <1>13 DEF WorkerStep, Paused

\* The pruner drops answers of finished jobs with their records, recovery none.
LEMMA BuiltService ==
  ASSUME ClipsInv, PhaseInv, BuiltInv,
         SyncBegin \/ SyncStep \/ PruneStart \/ PruneStep \/ BootStep \/ Crash
  PROVE  BuiltInv'
<1> USE DEF ClipsInv, RunInv, RetentionInv, PhaseInv, BuiltInv, SucceededMatchesAnswers,
            BuildOfAnswers
<1>1. TypeOK /\ (worker.pc # "idle" => worker.job \in Jobs)
  BY DEF TypeOK
<1>2. CASE \/ SyncBegin \/ SyncStep \/ PruneStart \/ PruneErase \/ RecoverErase \/ RecoverDone
           \/ \E j \in Jobs : PruneRead(j)
  BY <1>2 DEF SyncBegin, SyncStep, SyncEnter, SyncEnd, PruneStart, PruneErase, RecoverErase,
              RecoverDone, PruneRead, record, files
<1>3. CASE PruneExpire
  BY <1>3 DEF PruneExpire
<1>4. CASE PruneDrop
  <2>1. PICK drop \in SUBSET pruner.done :
          /\ state' = [j \in Jobs |-> IF j \in drop THEN "absent" ELSE state[j]]
          /\ speaker' = [j \in Jobs |-> IF j \in drop THEN None ELSE speaker[j]]
          /\ reference' = [j \in Jobs |-> IF j \in drop THEN None ELSE reference[j]]
    BY <1>4 DEF PruneDrop
  <2>2. \A k \in drop : state[k] \notin Pending
    BY <1>1 DEF TypeOK, Terminal, Pending
  <2>3. UNCHANGED <<worker, built>>
    BY <1>4 DEF PruneDrop
  <2> QED
    BY <1>1, <2>1, <2>2, <2>3
<1>5. ASSUME NEW j \in Jobs, Recover(j) PROVE BuiltInv'
  <2>1. \A k \in Jobs : state'[k] \in {state[k], "queued", "cancelled", "failed"}
    BY <1>1, <1>5 DEF Recover, RecoverCancelling, RecoverPaused, RecoverPending, RecoverFinished,
                      Write, TypeOK
  <2> QED
    BY <1>5, <2>1 DEF Recover
<1>6. CASE Crash
  BY <1>6 DEF Crash, Idle, record, files
<1> QED
  BY <1>2, <1>3, <1>4, <1>5, <1>6 DEF PruneStep, BootStep

\* Every voice that is reported as built was built from exactly the answers on record: a second
\* answer, a checkpoint, a crash between two runs or a dropped record never separates them,
\* as long as no question outlives its retention limit.
THEOREM VoiceMatchesAnswers == ~Ageing => (Spec => []SucceededMatchesAnswers)
<1> SUFFICES ASSUME ~Ageing PROVE Spec => []SucceededMatchesAnswers
  OBVIOUS
<1>1. ClipsInv /\ [Next]_vars => ClipsInv'
  BY ClipsNext
<1>2. ClipsInv /\ PhaseInv /\ [Next]_vars => PhaseInv'
  BY PhaseNext
<1>3. ClipsInv /\ PhaseInv /\ BuiltInv /\ [Next]_vars => BuiltInv'
  <2> SUFFICES ASSUME ClipsInv, PhaseInv, BuiltInv, [Next]_vars PROVE BuiltInv'
    OBVIOUS
  <2>1. CASE UNCHANGED vars
    BY <2>1 DEF BuiltInv, SucceededMatchesAnswers, BuildOfAnswers, vars, record, files
  <2> QED
    BY <2>1, BuiltRequest, BuiltWorker, BuiltService DEF Next
<1>4. BuiltInv => SucceededMatchesAnswers
  BY DEF BuiltInv
<1> QED
  BY <1>1, <1>2, <1>3, <1>4, ClipsInit, PhaseInit, BuiltInit, PTL DEF Spec
=============================================================================
