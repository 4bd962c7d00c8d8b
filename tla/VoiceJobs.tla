----------------------------- MODULE VoiceJobs -----------------------------
(***************************************************************************)
(* The persistent voice-build queue of VoiceRig: app/jobs.py (the job      *)
(* manager), app/job_retention.py (history pruning), app/job_api.py (the   *)
(* HTTP handlers and the startup hook), and the build gate and checkpoints *)
(* of app/pipeline.py that the queue shares with the synchronous build of  *)
(* app/main.py.                                                            *)
(*                                                                         *)
(* Concurrent actors: one HTTP thread per job (creating it, answering its  *)
(* question, cancelling it), the executor's single worker thread, a thread *)
(* that prunes the history without holding the manager's lock, one         *)
(* synchronous build, and the crash and restart of the whole process.      *)
(***************************************************************************)
EXTENDS Naturals, Sequences, FiniteSets

CONSTANTS
  Jobs,         \* ids that uuid4 may hand out
  Anchors,      \* speaker anchors a paused job offers
  References,   \* reference auditions a paused job offers
  None,         \* "not answered": the JSON null of speaker_anchor, reference_choice
  NoJob,        \* "no job" for the worker, the pruner and the startup hook
  Ageing,       \* TRUE: time may pass the retention limits of paused and finished jobs
  MaxTerminal,  \* max_terminal_jobs: 100 in the code
  MaxCrashes,   \* bound: crashes of the process
  MaxFaults,    \* bound: metadata writes that raise OSError
  MaxListings,  \* bound: requests that prune the history
  MaxSync       \* bound: synchronous builds

ASSUME ConstantsAssumption ==
  /\ NoJob \notin Jobs
  /\ None \notin Anchors \cup References
  /\ Ageing \in BOOLEAN
  /\ MaxTerminal \in Nat \ {0}
  /\ {MaxCrashes, MaxFaults, MaxListings, MaxSync} \subseteq Nat

VARIABLES
  \* On disk, surviving a crash.
  state,      \* state[j] in jobs/<j>.json, "absent" without that file
  speaker,    \* its speaker_anchor
  reference,  \* its reference_choice
  age,        \* whether its updated_at is past the retention limit of its state
  inputs,     \* jobs whose work directory jobs/<j>/ holds all their private source clips
  leftovers,  \* jobs with clips there that an erasure could not remove
  built,      \* the answers the package on disk was built from, NoBuild if none
  issued,     \* ids already handed out (uuid4 never repeats one)
  \* In the memory of the process.
  active,     \* VoiceJobManager._active
  cancelReq,  \* VoiceJobManager._cancel
  queue,      \* the executor's work queue
  client,     \* what the HTTP thread working on job j still has to do
  worker,     \* the worker thread: its place in _run, its job, the answers it read
  gate,       \* who holds _BUILD_GATE
  sync,       \* the synchronous build of POST /api/voices
  pruner,     \* a thread inside prune_job_history
  service,    \* startup: recovering jobs, pruning, then serving requests
  boot,       \* the files recover() still has to visit, and one to erase
  \* Bounds.
  crashes, faults, listings, syncs

files   == <<inputs, leftovers>>
record  == <<state, speaker, reference, age>>
marks   == <<active, cancelReq>>
bounds  == <<crashes, faults, listings, syncs>>
startup == <<service, boot>>
vars == <<record, files, built, issued, marks, queue, client, worker, gate,
          sync, pruner, startup, bounds>>

Paused   == {"needs_speaker", "needs_reference"}
Terminal == {"succeeded", "failed", "cancelled"}
Pending  == {"queued", "running", "cancelling"}
States   == {"absent"} \cup Pending \cup Paused \cup Terminal
Exists(j) == state[j] # "absent"

NoBuild == [speaker |-> None, reference |-> None, made |-> FALSE]
Builds == [speaker : Anchors \cup {None}, reference : References \cup {None}, made : BOOLEAN]

ClientPc == {"none", "copying", "submit", "enqueue", "erase"}
Building == {"build", "packaged"}
WorkerPc == {"idle", "loaded", "gate", "installing", "publish", "askSpeaker", "askReference",
             "cancelled", "failed", "cleanup", "finally"} \cup Building
PrunerPc == {"idle", "scan", "expire", "wipe", "sweep"}

Idle == [pc |-> "idle", job |-> NoJob, speaker |-> None, reference |-> None]
Resting == [pc |-> "idle", job |-> NoJob, todo |-> {}, done |-> {}, old |-> {}]
Booted == [todo |-> {}, erase |-> NoJob]

TypeOK ==
  /\ state \in [Jobs -> States]
  /\ speaker \in [Jobs -> Anchors \cup {None}]
  /\ reference \in [Jobs -> References \cup {None}]
  /\ age \in [Jobs -> {"fresh", "old"}]
  /\ inputs \in SUBSET Jobs
  /\ leftovers \in SUBSET Jobs
  /\ built \in [Jobs -> Builds]
  /\ issued \in SUBSET Jobs
  /\ active \in SUBSET Jobs
  /\ cancelReq \in SUBSET Jobs
  /\ queue \in Seq(Jobs)
  /\ client \in [Jobs -> ClientPc]
  /\ worker \in [pc : WorkerPc, job : Jobs \cup {NoJob},
                 speaker : Anchors \cup {None}, reference : References \cup {None}]
  /\ worker.pc # "idle" => worker.job \in Jobs
  /\ gate \in {"free", "worker", "sync"}
  /\ sync \in {"idle", "upload", "build"}
  /\ pruner \in [pc : PrunerPc, job : Jobs \cup {NoJob}, todo : SUBSET Jobs,
                 done : SUBSET Jobs, old : SUBSET Jobs]
  /\ pruner.pc \in {"expire", "wipe", "sweep"} => pruner.job \in Jobs
  /\ service \in {"recover", "prune", "serve"}
  /\ boot \in [todo : SUBSET Jobs, erase : Jobs \cup {NoJob}]
  /\ crashes \in 0..MaxCrashes
  /\ faults \in 0..MaxFaults
  /\ listings \in 0..MaxListings
  /\ syncs \in 0..MaxSync

Init ==
  /\ state = [j \in Jobs |-> "absent"]
  /\ speaker = [j \in Jobs |-> None]
  /\ reference = [j \in Jobs |-> None]
  /\ age = [j \in Jobs |-> "fresh"]
  /\ inputs = {} /\ leftovers = {} /\ issued = {}
  /\ built = [j \in Jobs |-> NoBuild]
  /\ active = {} /\ cancelReq = {} /\ queue = <<>>
  /\ client = [j \in Jobs |-> "none"]
  /\ worker = Idle /\ gate = "free" /\ sync = "idle" /\ pruner = Resting
  /\ service = "serve" /\ boot = Booted
  /\ crashes = 0 /\ faults = 0 /\ listings = 0 /\ syncs = 0

-----------------------------------------------------------------------------
(* The files *)

\* _write: the file is replaced atomically and stamped with the current time.
Write(j, s) ==
  /\ state' = [state EXCEPT ![j] = s]
  /\ age' = [age EXCEPT ![j] = "fresh"]

\* A write raises OSError: a full disk, or on Windows a file that recent() or
\* prune_job_history has open when os.replace runs.
WriteFault == faults < MaxFaults /\ faults' = faults + 1

\* rmtree of a work directory, with ignore_errors: a clip that another program has
\* open stays, with or without the others, and nobody is told.
Erase(j) ==
  \/ inputs' = inputs \ {j} /\ leftovers' = leftovers \ {j}
  \/ /\ j \in inputs \cup leftovers
     /\ inputs' \in {inputs, inputs \ {j}}
     /\ leftovers' = leftovers \cup {j}

\* A retention limit passes: 7 days for a paused job, 30 for a finished one. Nobody reads
\* the age of another, and whoever changes a state stamps it anew.
TimePasses(j) ==
  /\ Ageing /\ state[j] \in Paused \cup Terminal
  /\ age' = [age EXCEPT ![j] = "old"]
  /\ UNCHANGED <<state, speaker, reference, files, built, issued, marks, queue, client,
                 worker, gate, sync, pruner, startup, bounds>>

-----------------------------------------------------------------------------
(* HTTP handlers *)

\* POST /api/jobs/voices, create: the work directory and its copies come first.
CreateBegin(j) ==
  /\ service = "serve" /\ j \notin issued
  /\ issued' = issued \cup {j}
  /\ inputs' = inputs \cup {j}
  /\ client' = [client EXCEPT ![j] = "copying"]
  /\ UNCHANGED <<record, leftovers, built, marks, queue, worker, gate, sync, pruner, startup, bounds>>

\* ... then the metadata file, after which the job is to be submitted.
CreateWrite(j) ==
  /\ client[j] = "copying"
  /\ Write(j, "queued")
  /\ client' = [client EXCEPT ![j] = "submit"]
  /\ UNCHANGED <<speaker, reference, files, built, issued, marks, queue, worker, gate,
                 sync, pruner, startup, bounds>>

\* create's except clause: a copy or the write failed, the directory goes again.
CreateFails(j) ==
  /\ client[j] = "copying"
  /\ Erase(j)
  /\ client' = [client EXCEPT ![j] = "none"]
  /\ UNCHANGED <<record, built, issued, marks, queue, worker, gate, sync, pruner,
                 startup, bounds>>

\* _submit, under the lock: a job that is already active is not submitted again.
Submit(j) ==
  /\ client[j] = "submit"
  /\ client' = [client EXCEPT ![j] = IF j \in active THEN "none" ELSE "enqueue"]
  /\ active' = active \cup {j}
  /\ UNCHANGED <<record, files, built, issued, cancelReq, queue, worker, gate, sync,
                 pruner, startup, bounds>>

\* _submit, after the lock is released: executor.submit.
Enqueue(j) ==
  /\ client[j] = "enqueue"
  /\ queue' = Append(queue, j)
  /\ client' = [client EXCEPT ![j] = "none"]
  /\ UNCHANGED <<record, files, built, issued, marks, worker, gate, sync, pruner,
                 startup, bounds>>

\* Mutant: a second click on a choice is accepted while the job is queued again.
AcceptsSpeakerTwice(j) == state[j] \in {"needs_speaker", "queued"}

AcceptsSpeaker(j) == state[j] = "needs_speaker"

\* choose_speaker, up to _submit: answers of an earlier question are dropped.
ChooseSpeaker(j, a) ==
  /\ service = "serve" /\ AcceptsSpeaker(j)
  /\ Write(j, "queued")
  /\ speaker' = [speaker EXCEPT ![j] = a]
  /\ reference' = [reference EXCEPT ![j] = None]
  /\ client' = [client EXCEPT ![j] = "submit"]
  /\ UNCHANGED <<files, built, issued, marks, queue, worker, gate, sync, pruner, startup, bounds>>

\* choose_reference, up to _submit.
ChooseReference(j, r) ==
  /\ service = "serve" /\ state[j] = "needs_reference"
  /\ Write(j, "queued")
  /\ reference' = [reference EXCEPT ![j] = r]
  /\ client' = [client EXCEPT ![j] = "submit"]
  /\ UNCHANGED <<speaker, files, built, issued, marks, queue, worker, gate, sync, pruner,
                 startup, bounds>>

\* cancel of a paused job: finished at once, its clips erased by the same thread.
CancelPaused(j) ==
  /\ service = "serve" /\ state[j] \in Paused
  /\ Write(j, "cancelled")
  /\ client' = [client EXCEPT ![j] = "erase"]
  /\ UNCHANGED <<speaker, reference, files, built, issued, marks, queue, worker, gate, sync,
                 pruner, startup, bounds>>

EraseCancelled(j) ==
  /\ client[j] = "erase"
  /\ Erase(j)
  /\ client' = [client EXCEPT ![j] = "none"]
  /\ UNCHANGED <<record, built, issued, marks, queue, worker, gate, sync, pruner, startup, bounds>>

\* Mutant: cancel without its early return for finished jobs.
CancellableWhenDone(j) == state[j] \in Pending \cup Terminal

Cancellable(j) == state[j] \in Pending

\* cancel of any other unfinished job: the marker is set before the write, and
\* stays when the write fails.
CancelPending(j) ==
  /\ service = "serve" /\ Cancellable(j)
  /\ cancelReq' = cancelReq \cup {j}
  /\ \/ Write(j, "cancelling") /\ UNCHANGED faults
     \/ WriteFault /\ UNCHANGED <<state, age>>
  /\ UNCHANGED <<speaker, reference, files, built, issued, active, queue, client, worker,
                 gate, sync, pruner, startup, crashes, listings, syncs>>

-----------------------------------------------------------------------------
(* The worker thread: VoiceJobManager._run and pipeline.create_voice *)

\* Leaving create_voice, normally or by an exception, releases the build gate.
Goto(pc) ==
  /\ worker' = [worker EXCEPT !.pc = pc]
  /\ gate' = IF gate = "worker" /\ pc \notin Building THEN "free" ELSE gate

CancelSeen(j) == j \in cancelReq \/ state[j] = "cancelling"

\* _checkpoint: the only place where a running build notices a cancellation.
Checkpoint(next) ==
  LET j == worker.job IN
  /\ \/ /\ Exists(j) /\ ~CancelSeen(j)
        /\ Write(j, "running") /\ Goto(next) /\ UNCHANGED faults
     \/ /\ Exists(j) /\ CancelSeen(j)
        /\ Goto("cancelled") /\ UNCHANGED <<state, age, faults>>
     \/ /\ ~Exists(j)
        /\ Goto("failed") /\ UNCHANGED <<state, age, faults>>
     \/ /\ Exists(j) /\ ~CancelSeen(j) /\ WriteFault
        /\ Goto("failed") /\ UNCHANGED <<state, age>>
  /\ UNCHANGED <<speaker, reference, files, built, issued, marks, queue, client, sync,
                 pruner, startup, crashes, listings, syncs>>

\* A step of the worker that touches neither the disk nor the markers.
WorkerOnly == UNCHANGED <<record, files, built, issued, marks, queue, client, sync, pruner,
                          startup, bounds>>

\* Mutant: the run forgets the answer on record, and asks for it once more.
TakeWithoutSpeaker ==
  /\ worker.pc = "idle" /\ queue # <<>>
  /\ LET j == Head(queue) IN
     worker' = [pc |-> IF CancelSeen(j) THEN "cancelled" ELSE "loaded",
                job |-> j, speaker |-> None, reference |-> reference[j]]
  /\ queue' = Tail(queue)
  /\ UNCHANGED <<record, files, built, issued, marks, client, gate, sync, pruner, startup, bounds>>

\* The executor starts _run, which reads the job: the answers used by this run
\* are the ones on disk now.
Take ==
  /\ worker.pc = "idle" /\ queue # <<>>
  /\ LET j == Head(queue) IN
     worker' = [pc |-> CASE ~Exists(j) -> "failed"
                         [] Exists(j) /\ CancelSeen(j) -> "cancelled"
                         [] OTHER -> "loaded",
                job |-> j, speaker |-> speaker[j], reference |-> reference[j]]
  /\ queue' = Tail(queue)
  /\ UNCHANGED <<record, files, built, issued, marks, client, gate, sync, pruner, startup, bounds>>

\* The source clips must still be there; then the first checkpoint.
Start ==
  /\ worker.pc = "loaded"
  /\ \/ worker.job \in inputs /\ Checkpoint("gate")
     \/ worker.job \notin inputs /\ Goto("failed") /\ WorkerOnly

\* _acquire_build_gate: take the gate, or checkpoint every 0.25 s while waiting.
AcquireGate ==
  /\ worker.pc = "gate"
  /\ \/ /\ gate = "free" /\ gate' = "worker"
        /\ worker' = [worker EXCEPT !.pc = "build"] /\ WorkerOnly
     \/ gate # "free" /\ Checkpoint("gate")

\* A progress callback inside _create_voice_impl.
Progress == worker.pc = "build" /\ Checkpoint("build")

\* Several voices and no anchor on record, or several references and no choice:
\* a last checkpoint, then the exception that asks the user.
AskSpeaker ==
  worker.pc = "build" /\ worker.speaker = None /\ Checkpoint("askSpeaker")

AskReference ==
  worker.pc = "build" /\ worker.reference = None /\ Checkpoint("askReference")

\* Mutant: the best-ranked reference is always used.
BuildOfBestReference == [speaker |-> worker.speaker, reference |-> None, made |-> TRUE]

BuildOfAnswers == [speaker |-> worker.speaker, reference |-> worker.reference, made |-> TRUE]

\* build_package has published the package, before the last checkpoint of the build.
Package ==
  /\ worker.pc = "build"
  /\ built' = [built EXCEPT ![worker.job] = BuildOfAnswers]
  /\ Goto("packaged")
  /\ UNCHANGED <<record, files, issued, marks, queue, client, sync, pruner, startup, bounds>>

Complete == worker.pc = "packaged" /\ Checkpoint("installing")

Install == worker.pc = "installing" /\ Checkpoint("publish")

\* Any other exception of the build, of install_voice or of validate_package.
BuildFails ==
  worker.pc \in Building \cup {"publish"} /\ Goto("failed") /\ WorkerOnly

\* _update(succeeded): no look at the cancel marker or at the state it replaces.
\* An exception of this write is caught by the same except clause as the build's.
Succeed ==
  LET j == worker.job IN
  /\ worker.pc = "publish"
  /\ \/ Exists(j) /\ Write(j, "succeeded") /\ Goto("cleanup") /\ UNCHANGED faults
     \/ ~Exists(j) /\ Goto("failed") /\ UNCHANGED <<state, age, faults>>
     \/ Exists(j) /\ WriteFault /\ Goto("failed") /\ UNCHANGED <<state, age>>
  /\ UNCHANGED <<speaker, reference, files, built, issued, marks, queue, client, sync,
                 pruner, startup, crashes, listings, syncs>>

\* Mutant: the clips are erased although the outcome could not be written.
FinishAlwaysErasing(pc) ==
  /\ worker.pc = pc /\ Exists(worker.job)
  /\ \/ Write(worker.job, pc) /\ UNCHANGED faults
     \/ WriteFault /\ UNCHANGED <<state, age>>
  /\ Goto("cleanup")
  /\ UNCHANGED <<speaker, reference, files, built, issued, marks, queue, client, sync,
                 pruner, startup, crashes, listings, syncs>>

\* The except clauses for BuildCancelled and Exception. What they raise themselves
\* leaves _run through its finally clause.
Finish(pc) ==
  LET j == worker.job IN
  /\ worker.pc = pc
  /\ \/ Exists(j) /\ Write(j, pc) /\ Goto("cleanup") /\ UNCHANGED faults
     \/ ~Exists(j) /\ Goto("finally") /\ UNCHANGED <<state, age, faults>>
     \/ Exists(j) /\ WriteFault /\ Goto("finally") /\ UNCHANGED <<state, age>>
  /\ UNCHANGED <<speaker, reference, files, built, issued, marks, queue, client, sync,
                 pruner, startup, crashes, listings, syncs>>

\* Mutant: the marker is left to the finally clause.
StayActive(j) == UNCHANGED active

Deactivate(j) == active' = active \ {j}

\* _pause, under the lock: the active marker goes first, then the question is
\* published, whatever the state on disk has become since the last checkpoint.
Pause(pc, question) ==
  LET j == worker.job IN
  /\ worker.pc = pc
  /\ Deactivate(j)
  /\ Goto("finally")
  /\ \/ /\ Exists(j) /\ Write(j, question) /\ UNCHANGED faults
        /\ reference' = IF question = "needs_speaker" THEN [reference EXCEPT ![j] = None]
                                                      ELSE reference
     \/ ~Exists(j) /\ UNCHANGED <<state, age, reference, faults>>
     \/ Exists(j) /\ WriteFault /\ UNCHANGED <<state, age, reference>>
  /\ UNCHANGED <<speaker, files, built, issued, cancelReq, queue, client, sync, pruner,
                 startup, crashes, listings, syncs>>

\* _cleanup_inputs after a terminal state was written.
Cleanup ==
  /\ worker.pc = "cleanup"
  /\ Erase(worker.job)
  /\ Goto("finally")
  /\ UNCHANGED <<record, built, issued, marks, queue, client, sync, pruner, startup, bounds>>

\* The finally clause of _run.
Finally ==
  /\ worker.pc = "finally"
  /\ active' = active \ {worker.job}
  /\ cancelReq' = cancelReq \ {worker.job}
  /\ worker' = Idle
  /\ UNCHANGED <<record, files, built, issued, queue, client, gate, sync, pruner, startup, bounds>>

WorkerStep ==
  \/ Take \/ Start \/ AcquireGate \/ Progress \/ AskSpeaker \/ AskReference
  \/ Package \/ Complete \/ Install \/ BuildFails \/ Succeed
  \/ Finish("cancelled") \/ Finish("failed")
  \/ Pause("askSpeaker", "needs_speaker") \/ Pause("askReference", "needs_reference")
  \/ Cleanup \/ Finally

-----------------------------------------------------------------------------
(* POST /api/voices: the synchronous build, which never waits for the gate *)

SyncBegin ==
  /\ service = "serve" /\ sync = "idle" /\ syncs < MaxSync
  /\ sync' = "upload" /\ syncs' = syncs + 1
  /\ UNCHANGED <<record, files, built, issued, marks, queue, client, worker, gate, pruner,
                 startup, crashes, faults, listings>>

\* create_voice(wait_for_build_slot=False). The request also ends here when its
\* upload is rejected, or with 409 when the gate is taken.
SyncEnter ==
  /\ sync = "upload"
  /\ \/ gate = "free" /\ gate' = "sync" /\ sync' = "build"
     \/ sync' = "idle" /\ UNCHANGED gate
  /\ UNCHANGED <<record, files, built, issued, marks, queue, client, worker, pruner,
                 startup, bounds>>

SyncEnd ==
  /\ sync = "build"
  /\ sync' = "idle" /\ gate' = "free"
  /\ UNCHANGED <<record, files, built, issued, marks, queue, client, worker, pruner,
                 startup, bounds>>

SyncStep == SyncEnter \/ SyncEnd

-----------------------------------------------------------------------------
(* prune_job_history: no step of it holds the manager's lock *)

Scanning == [Resting EXCEPT !.pc = "scan", !.todo = {j \in Jobs : Exists(j)}]

\* GET /api/jobs and POST /api/jobs/voices prune first.
PruneStart ==
  /\ service = "serve" /\ pruner.pc = "idle" /\ listings < MaxListings
  /\ pruner' = Scanning
  /\ listings' = listings + 1
  /\ UNCHANGED <<record, files, built, issued, marks, queue, client, worker, gate, sync,
                 startup, crashes, faults, syncs>>

\* One file of the directory is read; what follows works on this copy.
PruneRead(j) ==
  /\ pruner.pc = "scan" /\ j \in pruner.todo
  /\ LET rest == [pruner EXCEPT !.todo = @ \ {j}] IN
     pruner' = CASE state[j] \in Paused /\ age[j] = "old" ->
                      [rest EXCEPT !.pc = "expire", !.job = j]
                 [] state[j] \in Terminal ->
                      [rest EXCEPT !.pc = "sweep", !.job = j,
                                   !.old = IF age[j] = "old" THEN @ \cup {j} ELSE @]
                 [] OTHER -> rest
  /\ UNCHANGED <<record, files, built, issued, marks, queue, client, worker, gate, sync,
                 startup, bounds>>

\* Mutant: an expired job gets a state of its own, which no client knows.
ExpiredIsNews == "expired"

Expired == "cancelled"

\* The paused job is written back as cancelled, its answers dropped. The file is
\* not read again: whatever it holds by now is replaced.
PruneExpire ==
  LET j == pruner.job IN
  /\ pruner.pc = "expire"
  /\ \/ /\ Write(j, Expired) /\ UNCHANGED faults
        /\ speaker' = [speaker EXCEPT ![j] = None]
        /\ reference' = [reference EXCEPT ![j] = None]
        /\ pruner' = [pruner EXCEPT !.pc = "wipe"]
     \/ /\ WriteFault /\ UNCHANGED record
        /\ pruner' = [pruner EXCEPT !.pc = "scan", !.job = NoJob]
  /\ UNCHANGED <<files, built, issued, marks, queue, client, worker, gate, sync, startup,
                 crashes, listings, syncs>>

\* Mutant: only expired jobs lose their work directory.
PruneEraseExpired ==
  /\ pruner.pc \in {"wipe", "sweep"}
  /\ IF pruner.pc = "wipe" THEN Erase(pruner.job) ELSE UNCHANGED files
  /\ pruner' = [pruner EXCEPT !.pc = "scan", !.job = NoJob,
                  !.done = IF pruner.pc = "sweep" THEN @ \cup {pruner.job} ELSE @]
  /\ UNCHANGED <<record, built, issued, marks, queue, client, worker, gate, sync, startup, bounds>>

\* The work directory is erased: of an expired job, or of a finished one, which then
\* counts for the history limits, whether its clips are gone or not.
PruneErase ==
  /\ pruner.pc \in {"wipe", "sweep"}
  /\ Erase(pruner.job)
  /\ pruner' = [pruner EXCEPT !.pc = "scan", !.job = NoJob,
                  !.done = IF pruner.pc = "sweep" THEN @ \cup {pruner.job} ELSE @]
  /\ UNCHANGED <<record, built, issued, marks, queue, client, worker, gate, sync, startup, bounds>>

\* The newest MaxTerminal finished jobs are kept, unless they are too old.
Kept(K) ==
  /\ Cardinality(K) = IF Cardinality(pruner.done) < MaxTerminal
                      THEN Cardinality(pruner.done) ELSE MaxTerminal
  /\ K \cap pruner.old # {} => pruner.done \ K \subseteq pruner.old

\* The metadata of the others is unlinked, but for a file whose unlink raises. The
\* startup hook prunes too, and the service accepts requests when it is done.
PruneDrop ==
  /\ pruner.pc = "scan" /\ pruner.todo = {}
  /\ \E K \in SUBSET pruner.done :
       /\ Kept(K)
       /\ \E drop \in SUBSET (pruner.done \ (K \ pruner.old)) :
            /\ state' = [j \in Jobs |-> IF j \in drop THEN "absent" ELSE state[j]]
            /\ speaker' = [j \in Jobs |-> IF j \in drop THEN None ELSE speaker[j]]
            /\ reference' = [j \in Jobs |-> IF j \in drop THEN None ELSE reference[j]]
            /\ age' = [j \in Jobs |-> IF j \in drop THEN "fresh" ELSE age[j]]
  /\ pruner' = Resting
  /\ service' = "serve"
  /\ UNCHANGED <<files, built, issued, marks, queue, client, worker, gate, sync, boot, bounds>>

PruneStep == (\E j \in Jobs : PruneRead(j)) \/ PruneExpire \/ PruneErase \/ PruneDrop

-----------------------------------------------------------------------------
(* Crash, restart and recover() *)

\* The process dies anywhere and is started again: only the disk survives. A write of
\* recover() that raises ends the startup, and the process, in the same way.
Crash ==
  /\ crashes < MaxCrashes /\ crashes' = crashes + 1
  /\ active' = {} /\ cancelReq' = {} /\ queue' = <<>>
  /\ client' = [j \in Jobs |-> "none"]
  /\ worker' = Idle /\ gate' = "free" /\ sync' = "idle" /\ pruner' = Resting
  /\ service' = "recover"
  /\ boot' = [todo |-> {j \in Jobs : Exists(j)}, erase |-> NoJob]
  /\ UNCHANGED <<record, files, built, issued, faults, listings, syncs>>

\* recover() for one file, up to the removal of its work directory.
Visit(j, erase) == boot' = [todo |-> boot.todo \ {j}, erase |-> erase]

\* Mutant: recovery knows nothing of a cancellation in progress.
RecoverCancellingLater(j) ==
  /\ state[j] = "cancelling" /\ Visit(j, NoJob) /\ UNCHANGED <<state, age, active, queue>>

RecoverCancelling(j) ==
  /\ state[j] = "cancelling" /\ Write(j, "cancelled") /\ Visit(j, j)
  /\ UNCHANGED <<active, queue>>

\* Mutant: the clips of a paused job are taken for leftovers.
RecoverPausedErasing(j) ==
  /\ state[j] \in Paused /\ Visit(j, j) /\ UNCHANGED <<state, age, active, queue>>

RecoverPaused(j) ==
  /\ state[j] \in Paused /\ Visit(j, NoJob)
  /\ IF j \in inputs \cup leftovers THEN UNCHANGED <<state, age>> ELSE Write(j, "failed")
  /\ UNCHANGED <<active, queue>>

\* Mutant: only a queued job is submitted again.
RecoverQueuedOnly(j) ==
  /\ state[j] \in {"queued", "running"} /\ Visit(j, NoJob) /\ UNCHANGED <<state, age>>
  /\ IF state[j] = "queued" THEN active' = active \cup {j} /\ queue' = Append(queue, j)
                            ELSE UNCHANGED <<active, queue>>

RecoverPending(j) ==
  /\ state[j] \in {"queued", "running"}
  /\ \/ /\ j \in inputs /\ Write(j, "queued") /\ Visit(j, NoJob)
        /\ active' = active \cup {j} /\ queue' = Append(queue, j)
     \/ /\ j \notin inputs /\ Write(j, "failed") /\ Visit(j, j)
        /\ UNCHANGED <<active, queue>>

RecoverFinished(j) ==
  /\ state[j] \in Terminal /\ Visit(j, NoJob) /\ UNCHANGED <<state, age, active, queue>>

Recover(j) ==
  /\ service = "recover" /\ boot.erase = NoJob /\ j \in boot.todo
  /\ RecoverCancelling(j) \/ RecoverPaused(j) \/ RecoverPending(j) \/ RecoverFinished(j)
  /\ UNCHANGED <<speaker, reference, files, built, issued, cancelReq, client, worker, gate,
                 sync, pruner, service, bounds>>

RecoverErase ==
  /\ service = "recover" /\ boot.erase # NoJob
  /\ Erase(boot.erase)
  /\ boot' = [boot EXCEPT !.erase = NoJob]
  /\ UNCHANGED <<record, built, issued, marks, queue, client, worker, gate, sync, pruner,
                 service, bounds>>

\* The startup hook calls prune_job_history after recover().
RecoverDone ==
  /\ service = "recover" /\ boot = Booted
  /\ service' = "prune" /\ pruner' = Scanning
  /\ UNCHANGED <<record, files, built, issued, marks, queue, client, worker, gate, sync,
                 boot, bounds>>

BootStep == (\E j \in Jobs : Recover(j)) \/ RecoverErase \/ RecoverDone

-----------------------------------------------------------------------------
(* The specification *)

\* What the HTTP thread of job j still does without anyone asking it again.
ClientStep(j) == CreateWrite(j) \/ CreateFails(j) \/ Submit(j) \/ Enqueue(j) \/ EraseCancelled(j)

Request(j) ==
  \/ CreateBegin(j)
  \/ \E a \in Anchors : ChooseSpeaker(j, a)
  \/ \E r \in References : ChooseReference(j, r)
  \/ CancelPaused(j)
  \/ CancelPending(j)

Next ==
  \/ \E j \in Jobs : Request(j) \/ ClientStep(j) \/ TimePasses(j)
  \/ WorkerStep
  \/ SyncBegin \/ SyncStep
  \/ PruneStart \/ PruneStep
  \/ BootStep
  \/ Crash

Spec == Init /\ [][Next]_vars

\* Threads that were started run on: the worker, an HTTP thread in the middle of a
\* handler, the startup hook. Nobody has to send a request, and nothing has to crash.
Fairness ==
  /\ WF_vars(WorkerStep) /\ WF_vars(SyncStep) /\ WF_vars(PruneStep) /\ WF_vars(BootStep)
  /\ \A j \in Jobs : WF_vars(ClientStep(j))

FairSpec == Spec /\ Fairness

-----------------------------------------------------------------------------
(* Properties *)

InQueue(j) == \E i \in 1..Len(queue) : queue[i] = j
Submitting(j) == client[j] \in {"submit", "enqueue"}
Running(j) == worker.job = j /\ worker.pc \notin {"idle", "finally"}

\* A job is never built twice at once nor built once too often: of the HTTP thread
\* that submits it, the executor's queue and the worker, at most one has it, once.
QueuedOnce == \A i, k \in 1..Len(queue) : queue[i] = queue[k] => i = k

OneRunPerJob ==
  /\ QueuedOnce
  /\ \A j \in Jobs : /\ ~(Submitting(j) /\ InQueue(j))
                      /\ ~(Submitting(j) /\ Running(j))
                      /\ ~(InQueue(j) /\ Running(j))

\* No submission is lost (the claim of _pause's docstring): a job the client sees as
\* under way has a thread that will still work on it, also when it was resumed while
\* the previous run was in its finally clause, or is yet to be visited by recover().
\* Only a failed metadata write can strand a job.
UnfinishedHasRunner ==
  \A j \in Jobs : state[j] \in Pending /\ faults = 0 =>
    Submitting(j) \/ InQueue(j) \/ Running(j) \/ (service = "recover" /\ j \in boot.todo)

\* A job that can still be built, resumed or recovered has its source clips: neither
\* the worker's cleanup nor the pruner removes them too early. (Where no question is
\* left open past the retention limit.)
LiveJobsKeepClips ==
  \A j \in Jobs : state[j] \in Pending \cup Paused => j \in inputs

\* A job that succeeded left a package built from exactly the answers on its record:
\* the answers the worker read when the run began are still the user's last ones.
SucceededMatchesAnswers ==
  \A j \in Jobs : state[j] = "succeeded" =>
    built[j] = [speaker |-> speaker[j], reference |-> reference[j], made |-> TRUE]

\* A question the user has answered is not put again, not even by the run that was
\* restarted after a crash.
QuestionIsOpen ==
  \A j \in Jobs : /\ state[j] = "needs_speaker" => speaker[j] = None
                  /\ state[j] = "needs_reference" => reference[j] = None

\* A finished job never changes its outcome; its record may only be dropped.
TerminalIsFinal ==
  [][\A j \in Jobs : state[j] \in Terminal => state'[j] \in {state[j], "absent"}]_vars

\* cancel: "Annullerer ved naeste sikre checkpoint": a job that says it is being
\* cancelled ends cancelled, or fails on the way.
CancelIsHonoured ==
  [][\A j \in Jobs : state[j] = "cancelling" =>
       state'[j] \in {"cancelling", "cancelled", "failed"}]_vars

\* Every accepted job gets its turn on the single worker, and its build ends or asks,
\* whoever holds the gate. A failing write can leave a running job without a runner (that
\* of its question, or of the outcome of a build that failed), but it takes two to leave a
\* queued one so while its clips are in place: the first checkpoint's, and that of the
\* except clause it raises into.
HasTurn(j) ==
  \/ state[j] \in {"queued", "running"} /\ faults = 0
  \/ state[j] = "queued" /\ j \in inputs /\ faults = 1

BuildsComeToAnEnd == \A j \in Jobs : HasTurn(j) ~> ~HasTurn(j)

\* Every cancellation is settled one way or the other. If the write of the outcome fails,
\* that may take until the next restart.
CancelSettles ==
  \A j \in Jobs : state[j] = "cancelling" /\ faults = 0 ~> state[j] # "cancelling" \/ faults > 0

\* The clips of a job that stays finished are erased, by the thread that finished it
\* or, when the process died before that, by the next startup. What is excepted is what
\* an erasure has tried in vain, since rmtree reports no error.
FinishedClipsErased ==
  \A j \in Jobs :
    state[j] \in Terminal ~> j \notin inputs \/ j \in leftovers \/ state[j] \notin Terminal

\* The invariant behind OneRunPerJob and UnfinishedHasRunner. An id that was not handed
\* out is nowhere; an upload in progress is known to its HTTP thread only; a question
\* is published after its run has left every place that would refuse or repeat it.
Unknown(j) == ~InQueue(j) /\ worker.job # j /\ pruner.job # j /\ j \notin active /\ ~Exists(j)

SubmissionInv ==
  /\ OneRunPerJob
  /\ \A j \in Jobs :
       /\ j \notin issued => Unknown(j) /\ client[j] = "none" /\ j \notin boot.todo
       /\ client[j] = "copying" => Unknown(j)
       /\ client[j] = "submit" => j \notin active
       /\ state[j] \in Paused =>
            ~Submitting(j) /\ ~InQueue(j) /\ ~Running(j) /\ j \notin active
       /\ service = "recover" => client[j] = "none"
       /\ service = "recover" /\ j \in boot.todo =>
            ~InQueue(j) /\ worker.job # j /\ j \notin active
  /\ worker.pc = "cleanup" => state[worker.job] \notin Pending \cup Paused
  /\ service = "recover" => pruner.pc = "idle"

\* The invariant behind LiveJobsKeepClips and TerminalIsFinal, where no question is
\* left open past the retention limit: whoever erases clips works for a finished job,
\* and whoever has a run works for an unfinished one.
Over(j) == state[j] \in Terminal \cup {"absent"}

RetentionInv ==
  /\ LiveJobsKeepClips
  /\ pruner.pc \notin {"expire", "wipe"}
  /\ pruner.pc = "sweep" => state[pruner.job] \in Terminal
  /\ worker.pc = "cleanup" => Over(worker.job)
  /\ service = "recover" /\ boot.erase # NoJob => boot.erase \in Jobs /\ Over(boot.erase)
  /\ \A j \in Jobs :
       /\ age[j] = "fresh"
       /\ j \in pruner.done => state[j] \in Terminal
       /\ client[j] = "erase" => Over(j)
       /\ client[j] = "copying" => j \in inputs
       /\ state[j] \in Terminal => ~Submitting(j) /\ ~InQueue(j)
       /\ state[j] \in Terminal /\ Running(j) => worker.pc = "cleanup"

\* The queue implements the life cycle that the browser is promised. (Where no question
\* is left open past the retention limit.)
Lifecycle == INSTANCE JobLifecycle WITH status <- state, clips <- inputs, left <- leftovers
ImplementsLifecycle == Lifecycle!Spec
=============================================================================
