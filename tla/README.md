# VoiceRig: specifications, model checking and proofs

VoiceRig turns a user's source clips into a portable voice package (`.mrvoice`), installs it for
ModelRig, and speaks with it. It is one Python process behind a loopback HTTP server, with a browser
client that polls, a single build worker, one GPU model shared by everybody, and a few directories
on disk that survive the process. This directory holds TLA+ models of it, TLC runs that check them
on small instances, and TLAPS proofs for every instance.

## 1. Inventory

| Part | Source | State | Operations | Modelled by |
| --- | --- | --- | --- | --- |
| Job manager | `app/jobs.py` | `jobs/<id>.json`, `jobs/<id>/` (clips), `_active`, `_cancel`, the executor's queue | create, choose speaker/reference, cancel, run, pause, recover | `VoiceJobs` |
| Retention | `app/job_retention.py` | the same files, no lock | prune on startup, list and create | `VoiceJobs` |
| Job API | `app/job_api.py` | none | validation, the startup hook | `VoiceJobs` |
| Build pipeline | `app/pipeline.py` | `_BUILD_GATE` | gate, checkpoints, two questions, package | `VoiceJobs`, `BuildQuestions` |
| Application | `app/main.py`, `app/netguard.py` | `_BUILD_LOCK` | synchronous build, library, repair | `VoiceJobs` (the synchronous build), `VoiceStore` |
| Shared model | `engines/chatterbox.py`, `package_runtime.py`, `rost.py` | `_MODELS`, `model.conds`, `_CONDITIONING_KEY`, `_VALIDATION_CACHE` | synthesize, compare, build artifacts | `SharedModel` |
| OmniVoice | `engines/omnivoice.py`, `omnivoice_worker.py` | its runtime directory | release the model, run a subprocess | `SharedModel` (partly) |
| Speech and operations API | `app/tts_api.py`, `app/ops_api.py` | none | synthesize, compare, promote a reference | `SharedModel`, `VoiceStore` |
| Packages | `profiles/package.py`, `profiles/migration.py` | `X.mrvoice`, `X.mrvoice.tmp` | build, validate, rebuild | `VoiceStore` |
| Library and installation | `profiles/library.py`, `modelrig/client.py` | `voices/`, ModelRig's directory, `default.txt` | import, set default, delete, install | `VoiceStore` (local installation) |
| Catalogue, contract, locales | `engines/catalog.py`, `model_contract.py`, `languages.py` | none (tables) | compatibility of a package | `SharedModel` (`RuntimeSpec`) |
| State migration | `state_migration.py`, `migrate-state-windows.ps1` | the archive with its sidecar, the target directories | create, verify, restore, around a stopped service | `StateRestore` |
| Release decision | `release_gate.py`, `acceptance_wrapper.py`, `rig_validation.py`, `source_control.py`, `validate-rig.ps1`, `test-piper-fallback.ps1`, `complete-acceptance.ps1` | two reports and the artifacts in `validation-output` | validate, test the fallback, decide | `ReleaseGate` |
| Engine decision | `engine_decision.py` | a report of its own | compare and record | not modelled |
| Speaker analysis | `analysis/diarization.py`, `pyannote_worker.py` | none | cluster and match speakers, anchors | `Speakers`, `BuildQuestions` |
| Reference ranking | `analysis/reference.py` | none | candidates, pooling, ranking | `References`, `BuildQuestions` |
| Browser client | `ui/*.js` | the job it polls | poll, answer, resume after a reload | not modelled |
| Windows scripts | the other `*.ps1` | the checkout, the virtual environment | install, update with rollback | not modelled |
| Media, configuration, diagnostics | `media/*.py`, `config.py`, `runtime.py`, `model_warmup.py`, `diagnostics.py` | none of their own | ffmpeg, environment, downloads | not modelled |

Why some are not modelled is said at the end of section 6.

How they meet. The browser posts clips, polls `GET /api/jobs/<id>`, answers at most two questions and
may cancel. The job manager hands the job to a one-thread executor; the worker reads it, takes the
build gate (the synchronous `POST /api/voices` takes the same gate but does not wait), reports progress through a
callback that is also its cancellation point, and ends by writing an outcome, or by raising an
exception that becomes a question. Building and speaking share one mutable model on the GPU. Packages
travel between the build's library, ModelRig's directory and the default marker by file replacement.

What is hard: handlers, the worker, the pruner and recovery interleave on the same files with four
different critical sections, one of them empty; the process dies and restarts between any two steps;
a metadata write can fail inside the very handler that reports failures; a cancellation races the end
of a build; private clips have to survive exactly as long as they are needed; requests replace, read and
remove the same package files with no lock at all; a build that has to ask begins again from the clips, with an analysis that
may read them differently; an archive is read three times while somebody may still be working; acceptance joins reports
of commands that were run at different times. `PROJECT.json` lists each hazard at its line with the properties that watch it.

## 2. The modules

**`VoiceJobs`** is the core. Its variables are the fields of the job files (`state`, `speaker`,
`reference`, `age` for `updated_at` against the retention limits), the clip directories (`inputs`, and
`leftovers` for those an erasure could not empty), what the finished package was built from (`built`), and the memory of the process: `active` and
`cancelReq` (`_active`, `_cancel`), the executor's `queue`, one HTTP thread per job (`client`), the
`worker`'s place in `_run`, the holder of the build `gate`, the synchronous build `sync`, a thread
inside `prune_job_history` (`pruner`), and the progress of the startup hook (`service`, `boot`).

| Action | Code |
| --- | --- |
| `CreateBegin`, `CreateWrite`, `CreateFails` | `create`: copies first, metadata second, the `except` clause |
| `Submit`, `Enqueue` | `_submit`: the marker under the lock, `executor.submit` after it |
| `ChooseSpeaker`, `ChooseReference` | the two answers, up to `_submit` |
| `Erase` | `shutil.rmtree(..., ignore_errors=True)`, cited by the five actions that erase clips: it may leave some or all of them, and nobody is told |
| `CancelPaused`, `EraseCancelled`, `CancelPending` | `cancel`, with its early return for finished jobs (`Cancellable`) |
| `Take` ... `Install`, `BuildFails` | `_run` up to the outcome; every `_progress` call is a `Checkpoint` |
| `Succeed`, `Finish`, `Pause`, `Cleanup`, `Finally` | the ends of `_run`, each write of which may fail |
| `SyncBegin`, `SyncEnter`, `SyncEnd` | `POST /api/voices` |
| `PruneStart`, `PruneRead`, `PruneExpire`, `PruneErase`, `PruneDrop` | `prune_job_history`, which works on the copy it read |
| `Crash`, `Recover`, `RecoverErase`, `RecoverDone` | a restart, `recover()` file by file, then the pruning of the startup hook |

Sections under `self._lock` are single actions; everything else is split where another thread can run.
`_update` is a read and a write under the lock, so one action; the pruner's read and write are two. A
step of the build between two progress callbacks touches neither files nor markers of the queue and is
folded into the callback. `list` requests, `get` and `recent` only read and are left out, except that
listing prunes. Which of several voices or references exist is the data the model abstracts: a run
without an anchor on record may or may not have to ask.

**`JobLifecycle`** is the promise to the browser: the statuses of a job and when its clips exist.
`VoiceJobs` implements it under `status <- state, clips <- inputs, left <- leftovers` (`ImplementsLifecycle`), as long
as no question outlives its retention limit. What it promises of a record is that it is dropped only after an erasure of its clips was tried;
that they are gone is not promised, because the code does not see to it (section 4).

**`SharedModel`** is the GPU. `resident` is the one model in `_MODELS`, `conds` its conditioning (whose
voice, and computed for which model), `key` the `_CONDITIONING_KEY` beside it, `manifests` the
`_VALIDATION_CACHE`, `run` the holder of `_MODEL_RUN_LOCK`, `thread` the requests, and `store` the package files
of ModelRig's directory, which anything may replace at any time. A package is reduced to its version: one content with its own
mtime and size, so that the version is also the `stat` of the file; `install_local` copies with `copy2`, which keeps the mtime of the library's file, so
any version may come back with its old mtime (`Replace`). `swapped` (the versions of a name that were replaced between a request's stat and its
reading, `Reading`) and `steady` are history variables.

| Action | Code |
| --- | --- |
| `Replace` | `install_local`, a promotion, a deletion: `os.replace` and `unlink` |
| `Ask`, `AskBuild` | the synthesis, comparison and OmniVoice endpoints; a build's artifacts |
| `Stat`, `Validate` (with `Known`) | `_manifest`: the stat in one step, the content in another; called twice by speech |
| `Extract` | `_extract_reference` |
| `Lock`, `Load` | `with _MODEL_RUN_LOCK`, `_shared_model`, whose load may fail after the eviction |
| `Ensure`, `Fetch`, `Condition` | `_ensure_conditioning`: the key, the copy of the package's content, the serialized conditioning |
| `Prepare` | `prepare_conditionals`, for speech, auditions and builds |
| `Generate`, `Evict`, `OmniEnds` | speaking, `release_shared_model`, OmniVoice's process |

The load lock and the lock of the active conditioning are only taken under the run lock and exclude nobody further.
Between the steps under the run lock only the package file can change, so a step is split exactly where the file is
read again. A promotion is a comparison, as far as the GPU is concerned, followed by a `Replace`. Deletions leave
`_VALIDATION_CACHE` alone, as in the code. All packages are taken to be Danish (another language only ends a comparison early).

**`VoiceStore`** is the disk. `shelf` holds the package files of the library and of ModelRig's directory,
`temp` the fixed `X.mrvoice.tmp` beside each, `default` and `marker` the contents of `default.txt` and
`default.txt.tmp`, `gate` the build gate, `thread` the requests. A package is the voice that speaks, its references in
their order and the one its conditioning was computed from; a file also says who is still writing it. What a package
weighs, its engine and its checksums are left out: validation asks only whether the file is finished.

| Action | Code |
| --- | --- |
| `BeginBuild`, `Artifacts` | the build gate, and the pipeline up to the three artifacts |
| `Clear`, `Open`, `Fill`, `Check`, `Swap`, `Cleanup` | `build_package`: the unlink before the `try`, `ZipFile(temp, "w")`, the bytes, `validate_package`, `os.replace`, `finally`, whose unlink may fail, too |
| `BeginPromote`, `Extract`, `Identify`, `Rebuild` | `tts_promote_rost_reference`, which reads the package three times: the clip, the manifest, the clips (`Promoted` is the new order) |
| `BeginInstall`, `Copy`, `Place`, `Mark`, `Commit`, `Confirm` | `find_package`, `install_local`, the end of `set_default` |
| `BeginImport`, `Shelve` | `import_package`: the choice of the name, the move; `make_default` goes on to `Copy` |
| `BeginDelete`, `UnlinkLibrary`, `UnlinkModelRig`, `Compare`, `Unmark` | `delete_voice` |
| `Fail`, `Crash` | `OSError` at any step; the process ends at any step |

VoiceRig runs on Windows, where a file somebody has open can be neither moved nor removed, and its tests also on POSIX,
where it can. Each operation may therefore succeed or, by `Fail`, raise. A writer goes on writing into its file
wherever that has been moved (`Fill`); two that have opened one temporary file may spoil it for good. Reading a whole file is one step. After a crash, or
a clean-up that failed, temporary files and `default.txt.tmp` stay on disk, where the next writer of that name finds them (`Abandon`).
Temporary files with unique names are nobody else's business and are left out, as is the sidecar wav. `steady` (nothing
has replaced the package since the promotion took its clip) and `torn` (the deletion of this name crossed an
installation, or was cut short, and it was not installed since) are history variables. An upload and a fresh build
bring a package as the pipeline makes it. A promotion's `finally` and a build's are the same action, and only the build's lets go of the gate.

**`StateRestore`** is the move to another machine. For each of the two rigs there is `data` (the library, the job
records, their clips), ModelRig's directory `modelrig` with its `default`, and whether the service is `up`; `export` and
`import` are the two scripts, `archive` the archive and its sidecar on the old rig, `media` the copies on the new one. An
archive has the digests of its manifest, the members of the tar and the name of the default voice, since the first two come from
different readings of the same files. `quiet` is a history variable: the service has not run since the script stopped it. It may
run, because the script takes a service that does not answer within two seconds for stopped, and because
anybody can start it.

| Action | Code |
| --- | --- |
| `BeginExport`, `Restart` | `migrate-state-windows.ps1`: stop the service, start it again in `finally` if it ran before |
| `CollectVoices`, `CollectJobs` | `_collect_voice_packages`, `_collect_jobs`: what is there, and whether it is consistent |
| `Digest`, `DigestsDone` | `_manifest_from_live`, file by file |
| `Pack`, `Place`, `VerifyExport`, `Seal` | `tar.add` file by file, `os.replace`, `verify_backup` (`Verified`), the sidecar |
| `Carry` | the copy to the other machine, as it is or damaged |
| `BeginImport`, `Plan`, `Wipe`, `Wiped` | the sidecar and the verification, the stop, what is in the way, `--force` |
| `Extract`, `Extracted` | `_extract_atomic`, file by file in the order of the manifest |
| `InstallDefault`, `MarkDefault`, `StartImported` | the default voice into ModelRig's directory, its marker, the start |
| `BreakExport`, `BreakImport`, `Crash` | a step raises; a rig loses power |
| `Work`, `StartByHand`, `Stop`, `Start` | the services, as far as the scripts can tell; `Start` includes `recover()` of the jobs (`Recovered`) |

`Work` never deletes a package: a voice deleted beside an export or an import is outside the model. Of a job's record only its state counts, of a clip only that it is there. What verification refuses for its form
(paths that leave the archive, sizes, a malformed manifest) is one outcome, a damaged file.

**`ReleaseGate`** is the acceptance. One console (`console`) runs `validate-rig.ps1`, the fallback test and the gate in any
order; beside it the `checkout` moves, the `service` stops and starts (with the identity of the sources it was started from),
and voices are built, installed and made the default. `made[i]` is the process that built the i-th voice, so that a
voice's number is its id. `output`, `piperWav`, `report` and `fallback` are the files the commands leave for each other.

| Action | Code |
| --- | --- |
| `BeginValidation`, `Refused`, `Identify`, `IdentityFailure` | `validate-rig.ps1`, which may throw before Python starts, `collect_source_evidence`, `_write_identity_failure` |
| `Preflight`, `Build`, `Download`, `ExtractReference`, `Speak`, `Probe`, `StageFails` | the stages of `rig_validation.py` |
| `WriteFails` | a report that cannot be written: the earlier one stays, or an empty file |
| `Augment`, `AugmentFails` | `_augment_report`, which adds the source evidence to what the stages reported |
| `CheckService`, `Before`, `StopService`, `AwaitPiper`, `SpeakWithPiper` | `test-piper-fallback.ps1` up to the outage |
| `RestartService`, `VerifyService`, `ReportFallback` | its `finally`, where `Start-Process` may throw, and the report |
| `BeginGate`, `GateRefused`, `EndGate` | `complete-acceptance.ps1`, without the operator's judgement or with it, `evaluate_release` (`ReleaseReady`) |
| `Edit`, `StartByHand`, `StopByHand`, `BuildInBrowser`, `SetDefault`, `LoseArtifact`, `Kill` | what others do, and a console that is closed |

Measurements (VRAM, CUDA, the similarity of the speech, durations, the operator's judgement) are a choice of good or bad.

**`Speakers`** and **`References`** are the algorithms of a build, as operators without a state: the clusters of
speakers across clips (`SpeakerClusters`), the preview and the anchor of each (`SpeakerChoices`, `ClusterFromAnchor`), the
candidates of each clip, the pooled ones, their overlap and their ranking (`RankReferences`). pyannote is external: a scene says
who really speaks when, how well it sounds and what the voices sound like (`Timbre`); a *reading* is what an analysis makes of it.
Labels come in either order, turns are noticed a little late, faint ones are missed, embeddings are missing, or the analysis
fails. A clip has one turn after the other (`Clips`): `pyannote_worker.py` takes the exclusive time line, which the pinned pyannote
4.0.7 provides. Times are in units of 50 ms, and the embedding of a person is a vector in the plane. `Select`, `Order` and `Descending` are
list comprehension and `sorted`, written with the places of elements, because the library's `SelectSeq` and `SortSeq` have no
definition that a proof could use. For the same reason what is folded or added up has a name of its own and no parameter but the elements
(`Fill`, `Extend`, `Gather`, `Represent`, `Complete`, `Across`).

**`BuildQuestions`** is the conversation around them: `Run` is `create_voice` from the clips to the references in the package or to
one of the two questions, `ChooseSpeaker` and `ChooseReference` are the answers. The one thing `VoiceJobs` does not tell apart
is here: what an answer on record means to a run that analyses the clips anew. Each run has a reading of its own. With
`VOICERIG_ALLOW_UNDIARIZED` (`Fallback`) a failed analysis builds from whole clips, whoever the user
chose; the runs have the product's default, `FALSE`.

**`VoiceJobsProofs`** (with `JobLifecycle`), **`SharedModelProofs`**, **`VoiceStoreProofs`**, **`StateRestoreProofs`**, **`ReleaseGateProofs`**,
**`SpeakersProofs`** and **`BuildQuestionsProofs`** prove theorems about these modules, and **`FoldFacts`** what folding a sequence does; section 5.

## 3. The runs

| Run | Instance | Shows |
| --- | --- | --- |
| `JobsRestart` | two jobs, one voice and one reference to choose, two crashes, a failing write, any failing erasures | no double run, no lost resume, recovery resumes exactly the unfinished jobs, clips outlive their jobs, a voice is built from the recorded answers and none is asked for again, outcomes are final, the life cycle is implemented |
| `JobsAgeing` | one job, ageing, a crash, two failing writes, any failing erasures, a listing, a synchronous build, `FairSpec` | types, every build gets its turn and ends or asks, every cancellation is settled, and an erasure of a finished job's clips is tried in the end |
| `JobsLateCancel` | violation of `CancelIsHonoured` | a cancellation after the last checkpoint is overwritten by the outcome or by a question |
| `EngineShared` | two requests of any kind, one package name, four contents of it, installed and put back at will | a request whose package is left alone is spoken with exactly that package, with the exception in section 4; auditions get their reference and model; OmniVoice has the GPU to itself; the caches speak of another file only under that exception |
| `EngineSwap` | violation of `ConditioningFitsModel` | a promotion between the read of the manifest and that of the content loads the new conditioning into the old model |
| `VoiceStore` | two requests, two names, two voices, one with two references; the first builds, promotes and installs one name, the second builds, imports and deletes it | the library is sound, whatever temporary files are left in it, no clip is lost or mixed, an undisturbed promotion writes what it means, the default leads somewhere |
| `StorePromote` | violation of `PrimaryIsConditioned` | two promotions of one package leave a primary reference it was not conditioned from |
| `StateRestore` | two packages of two contents, two jobs with two and one clips, three old and four new machines, two changes by the services, one failure | what was sealed is all of the state, can be resumed, comes back whole after any interruption, and replaces nothing it may not |
| `ReleaseGate` | two commits, two names, two builds, two interventions, one change of the checkout, one fault | what passes is one voice, of this very code if the service on record is the one that built it, and no failure was reported that has not been made good; the test's outage ends |
| `AcceptanceName` | violation of `FallbackOfThisPackage` | the fallback test of an earlier voice of the same name is accepted |
| `BuildQuestions` | nine uploads, seventeen outcomes of every analysis | the answers mean what the user heard, the questions end, what is offered differs and can be found again |
| `GuestClip` | violation of `OneSpeaker` | a clip without the chosen speaker is cut into references all the same |

Bounds. Two jobs are enough for every property above: a job meets others only in the queue, at the gate
and in the history, and each of these is occupied by one other job. `JobsRestart` gives each question one answer; with two voices to choose from and one crash it was checked
once (5.8 million states; as it stands it has as many), and `BuildsComeToAnEnd` once with two jobs, a crash and a failing write (2.4 million; the run has
one job, 0.7 million). `MaxTerminal` is 1 instead of 100, so that the
history limit is met at once. Crashes may come at every step, the second of `JobsRestart` also during recovery; a failing write at every write, an erasure
that leaves clips at every erasure, without a bound. `JobsAgeing` has two failing writes because that is what it takes to strand a queued job: the checkpoint's
and that of the `except` clause it raises into. `BuildsComeToAnEnd` excepts that case, and jobs that say they are running after one failed write;
both wait for the next restart.
Ids are never handed out twice, as `uuid4` promises. `Ageing = FALSE` stands for "nothing stays
paused or finished past its limit while we watch"; `JobsAgeing` sets it. Checking for deadlock is switched
off in the runs of `VoiceJobs`: with no request pending the service rests.

`EngineShared` has two threads because every property is about one request and whatever the others left in
the caches, and a thread that is done may begin any other request; one name because the caches are kept per path. Its four
contents are one of an older model revision (conditioning is recomputed), two of the Danish model (a key
that matches except for the file), and one for a foreign engine (refused). Every one of them may be put back at any
time. `MaxSwapped` bounds the versions of a name that can be replaced in the middle of somebody's reading, by one, which is enough for the exception to arise and
for the property to be checked of everybody else. 3.4 million states.

In `VoiceStore` each of two threads sends requests about one name, one after another without end. Each kind of the first meets each kind of the second,
and an installation also follows a build or an import. Two promotions meet in `StorePromote`. With a deletion by both the properties were checked
once (5.2 million states; the run has 3.9 million). The second name is where an import goes when the first is taken. Two references are enough for an index to change its meaning; `Recorded` are
the voices that are built here, the other is imported, and promotions ask for the indices `Asked`, the second only: the first changes nothing. Directories start empty, so every package has come from a build or an import. `StorePromote` lets
one thread build and promote and the other promote. A request can always begin, so deadlock is checked.

In `StateRestore` the machines are ones VoiceRig leaves: a promoted package (so that the two directories differ), a package only ModelRig
has, paused, queued, interrupted and half-cancelled jobs; a fresh machine, and machines on which the same names and ids are taken. Two jobs suffice for one to be
resumable and one not, and for the order of the manifest to matter. `MaxWork` is two changes by the services, enough for one
between each two of the three readings; `MaxFaults` is one failing step, damaged copy or crash, anywhere, with any number of imports after
it. 1.2 million states.

In `ReleaseGate` two builds are what it takes to mix two voices, two interventions to stop and start the service, or to build and set the default;
two commits and one change of the checkout to be on the wrong one, or dirty. `MaxBuilds = 2` also lets two validations run to their ends. With two
changes of the checkout the properties were checked once (21.3 million states). 6.0 million states; the commits are symmetric, names are not, one being
that of the acceptance. The gate is a loop, so deadlock is checked.

The nine uploads of `BuildQuestions` sit at the thresholds of the code: two who speak alike long, one who speaks half as much again as the other when
read in time but not when read late, turns as short as a preview can use, clips none of which is long enough for a reference,
a third voice between the two that resembles neither of them enough, a monologue with more candidates than can be offered, a silent clip, and too little
speech. They are not all uploads; of those section 5 speaks. `MCBuildQuestions` assumes
`TimbresApart` of its three voices, as the proof of `PickedSpeakerIsBuilt` does. If the third sounded like the first and had two seconds of `Panel`,
TLC would find that property violated. A build ends, so deadlock is not checked.

Fairness. The worker, the synchronous build, the pruner, the startup hook and each handler that has begun run on
(weak fairness of each thread: they are operating-system threads that wait for nothing but the gate, which its
holder releases). No request is ever assumed to come, and no crash. A build that reports progress for ever
does not exist in the code; in the model a repeated checkpoint changes nothing and fairness asks for a real step.
Synchronous builds can take the gate from a waiting build each time it is free, `_BUILD_GATE` being
unfair; `MaxSync` bounds them, so starvation by an endless series of them is outside the model.

## 4. What the runs found

The five violations are stated in `PROJECT.json` with the lines they contradict.

* `JobsLateCancel`: a narrow window that loses a cancellation the browser was promised.
* `EngineSwap`: not narrow at all. Speech reads the manifest, then waits for the run lock. A promotion of the same
  voice holds that lock for its artifacts and replaces the package right after it lets go, while the waiting
  request loads the old model, for seconds. The request then reads the new package's `conditioning.pt` on the word of
  the old manifest.
* `StorePromote`: a repeated click on "promote" is enough, if the second request has taken its clip before the first one writes.
  Both take the clip under the same index; the second to write applies that index to the order the first has left, which puts
  the old primary reference back, beside conditioning and preview of the other one. The package is valid, and the voice is
  regenerated from the wrong clip at the next engine change.

* `AcceptanceName`: the gate knows the fallback test by the file name of its package, which follows from the name of the voice. A second
  validation without the fallback test builds another voice under that name, and the two reports pass together.
* `GuestClip`: a clip in which the chosen speaker was not found is treated like one that was not analysed. Its windows are ranked with
  the speaker's turns, and nothing says to the user that somebody else talks there. Such clips are the exception
  `PickedSpeakerIsBuilt` makes. If the clip is silent, no reference can be cut from it and the whole build fails.

Four more disagreements with the documentation are in the models and are set aside by the premises of properties, where they can be read.
No run of their own states them.

* Private clips can stay for good. A crash inside `create` leaves a directory without a record. An erasure that fails (a clip somebody holds
  open, on Windows) is silent, and pruning drops the record all the same (`app/job_retention.py:101-108`). Nothing finds them then: recovery and pruning go by
  records. README.md:109 of the repository says private clips do not lie about for ever, and the message of an expired question
  (`app/job_retention.py:84`) that they have been erased. `FinishedClipsErased` shows that an erasure is tried, and `JobLifecycle` allows what remains.
* Speech can use another content than that of the file. A request takes the stat of a package, the package is replaced before it reads the content, and is later put back
  with its old mtime, as `install_local` does with the library's copy. The caches then say of that file what they have read of the other, until
  the model is evicted or the service ends. docs/MRVOICE_SPEC.md:218-220 asks for a cache identity that rules this out. `SteadySpeechIsExact` and `CacheInv` except
  a file that was once replaced so, and nothing else.
* A service that is replaced while it builds for a validation, by one of another clone or revision, passes. Its identity is read before the build
  (`acceptance_wrapper.py:153`) and what the build's answer says of it is compared with nothing. docs/RELEASE_GATE.md:73-76 says that such a
  process cannot pass. `VerdictIsOfThisCode` is stated of acceptances in which the process on record is the one that built.
* A test that fails before it writes its report leaves the earlier one, and the gate may pass on it: the script refuses to start (`validate-rig.ps1:17-39`), the output
  directory or a report cannot be written (`rig_validation.py:415` and `:600`, `acceptance_wrapper.py:135`, `test-piper-fallback.ps1:240`), the fallback test does not get as
  far as stopping the service (`test-piper-fallback.ps1:163-187`), or the start throws in its `finally` (`:211`). `ReportedFailureBlocks` speaks of failures that were written down.

More behaviour worth knowing is in the models, or was met while reading (see also the hazards in `PROJECT.json`).

* Jobs: a question that expires and is answered while the pruner holds its old copy is cancelled although it is queued
  again. `cancel` sets its marker before a write that may fail.
* Store: two installations share `default.txt.tmp`, so one can answer with a default the other has overruled, or
  with an error after it has installed its voice; a voice deleted while it is promoted comes back; a deletion can take away the default of another voice that was set meanwhile; a package installed over in
  the middle of a promotion gets one voice's id and the other's clips.
* Migration: X two files of one name and refuses to be exported. An import
  beside a service that was taken for stopped overwrites what that service writes; the properties of the import are therefore stated for a
  service that stays down (`quiet`), and that of a sealed archive (`SealedJobsCanResume`) for any.

On POSIX, two promotions can expose an unfinished file in
ModelRig's directory for a moment; the soundness of files (`LibraryIsSound`) is therefore stated of the library, whose writers the gate keeps apart.

## 5. What is proved

For every set of jobs, anchors and references and every bound, from `ConstantsAssumption` alone:

* `TypeCorrect`: `TypeOK` is an invariant. It is inductive as it stands.
* `NoDoubleBuild` (`OneRunPerJob`) and `NoLostSubmission` (`UnfinishedHasRunner`). Neither is inductive: that a
  resume is never swallowed needs that a paused job is inactive and in no queue, that an id not handed
  out is nowhere, and that recovery has not touched the jobs it still has to visit. `SubmissionInv`
  collects this, and `RunInv == TypeOK /\ SubmissionInv /\ UnfinishedHasRunner` is inductive (`RunInit`, `RunNext`).
* `ClipsOutliveJob` (`LiveJobsKeepClips`) and `OutcomeIsFinal` (`TerminalIsFinal`), under `~Ageing`:
  without that assumption the pruning race makes both false. `RetentionInv` says who may erase
  clips and on whose behalf; `ClipsInv == RunInv /\ RetentionInv` is inductive (`ClipsInit`, `ClipsNext`).

About the answers and the life cycle, from there:

* `NoQuestionTwice` (`QuestionIsOpen`), by `QuestionInv`: whoever is about to put a question, works on a job whose answer to it is missing.
* `VoiceMatchesAnswers` (`SucceededMatchesAnswers`), by `BuiltInv`: a worker past the questions has built with what the record
  says, and the record does not change under it. Like the next it needs `~Ageing`: the pruner writes back the copy it
  judged, and so takes the answers from the record of a job that was resumed in the meantime.
* `QueueImplementsLifecycle` (`ImplementsLifecycle`): the initial states map to one of `JobLifecycle`, and every step to one of its
  steps or to none. It says of erasures that they were tried, not that they succeed. A step changes the phase of one job, or the clips of some, or neither: `StateStep` and `ClipsStep` say
  what the life cycle allows of each, `PhaseInv` that whoever is about to write a phase may still do so. A crash and a
  recovery are the interesting steps: what they do to many jobs has to be one step of the abstract machine per job.

The proofs go action by action. `QueueAppend`, `QueueTake` and `QueueSame` say what the executor's queue holds
after a step; `RunCheckpoint` and `ClipsCheckpoint` are cited by the five actions that contain a checkpoint.

About `SharedModel`, for every set of threads, names and contents, from `VersionsAssumption` alone:

* `TypeCorrect`, `OmniVoiceHasTheGpu` (`OmniVoiceAlone`) and `AuditionsAreExact` (`AuditionIsExact`), whatever replaces
  packages. `SharedInv` adds to them `RequestInv` (the lock belongs to the one request that is past it, and the
  model it loaded stays).
* `SteadySpeech` (`SteadySpeechIsExact`) and `CachesAreExact` (`CacheInv`), whatever is replaced and put back. The argument: a key or a cached manifest was
  filled from a stat and a later reading. If the two were of different files, the first was replaced between them, and is one of `swapped`; so of any other file
  (`Trusted`) what the caches say is true, for good. `ExactInv` collects `KeyInv`, `ManifestInv`, `SourceInv` and what a steady request has read (`SteadyInv`).

`OneMoves`, `SharedStep` and `ExactStep` say once what a step of one request leaves alone; the lemma of an action
then shows only what it changes.

About `VoiceStore`, for every set of threads, names, voices and references, and for every distribution of requests over
threads, from `StoreAssumption` alone: `TypeCorrect`, `SoundLibrary` (`LibraryIsSound`), `SteadyPromotion`
(`PromotionsAgree`) and `InstalledDefault` (`DefaultIsInstalled`). One invariant, `StoreInv`, carries all four. It adds to
them `RequestInv` (only the holder of the gate writes a package of the library; what a build has checked is still whole when it
moves it; an undisturbed promotion still finds its clip under its index), `LibraryTempsInv` (what is written beside the
library's files fits its primary reference) and `MarkedInv` (a name about to become the default is installed, or its
deletion crossed the installation). `OthersKeep`, `QuietStep`, `EndKeeps` and `MarkersKeep` are the frame lemmas.
Beside it stands
`ClipsKept` (`ReferencesKept`), by `KeptInv`: whatever lies in a directory, in a temporary file or in the hands of a request has all the clips
of one voice, each once, and where a name is bound to a voice, of that voice. The step that could break it is the promotion, which permutes
clips; `PromotedClips` says that it only permutes.

About `StateRestore`, for every set of packages, jobs, disks and bounds, from `RigsAssumption` alone, all seven properties of its
run: `TypeCorrect`, `SealedJobsCorrect`, `ExportIsCompleteAlways`, `ImportIsCompleteAlways`, `ImportedJobsResumeAlways`, `NothingClobberedCorrect` and
`MarkerCorrect`. The assumption says of the disks that files hold what such files hold, and that the default they start with is a package
ModelRig has. `RigsInv` is inductive and carries all but one:

* `QuietIsDown`: a service that is quiet is down. So while an import goes on only the script writes to its rig (`NewRigStill`,
  `OldRigStill`, `ImportAlone`, `ExportAlone`), and what the script has read or written is still there (`CollectedInv`, `RestoredInv`).
* `ArchiveInv` and `MediaInv`: an archive is placed once and holds what was digested and packed; damage on the way changes the tar but not the
  manifest, so that a damaged copy is never equal to its sidecar and an import has before it what was sealed.
* `PlanInv`: an import wipes clips of the archive's jobs only and, without `--force`, whatever it has still to write is absent.
* `MarkerInv`: the package is there before the marker is written.

`SealedJobsCorrect` needs only `SealInv`: what is sealed has been verified and nobody touches an archive that is placed.
The proof that it holds whatever the service does is thus that `verify` judges the states inside the archive rather than those that were collected.

About `ReleaseGate`, for every set of commits and names and every number of builds, interventions, changes and faults, from
`GateAssumption` alone, all five properties of its run:

* `TypeCorrect`, by `Typed`, which says more than `TypeOK`: a voice is known only after it was built, and a test that has begun
  has noted the identity of its checkout.
* `VerdictIsOfThisCodeAlways`, by `ProcessInv`: whoever remembers a process - the voice it built, the console, the report - remembers
  one of its own pid, and a pid has one identity for good. `Noted` says once what any step does to these memories.
* `EvidenceIsOneRunAlways`, by `MeasuredInv` and `ArtifactsInv`. A name is not enough to know a voice by, as a build in the
  browser reuses it; that the name still leads to the voice of this validation (`modelrig[Name] = console.id`) is what a build that
  crosses it breaks. A validation cut short overwrites files of an earlier one whose report stays, but not after its
  package, and a younger voice has an id no older report names: comparing the id of the package vouches for the other two files.
* `ReportedFailureBlocksAlways`, by `FailedInv`: a failure that replaces its report leaves one that does not pass, or one without source evidence; a report that
  cannot be written is the earlier one or none (`WriteFails`), and neither passes if the earlier did not.
* `OutageEndsAlways`, by `OutageInv`: while the service is down on the test's account, the console is in the steps that bring it back.

About `BuildQuestions`, for every set of uploads and of voices and every sequence of readings, from `SceneAssumption` (an upload is a sequence of
clips, whose turns follow each other), `NoneAssumption` (the sign for "no answer" is no answer) and `TimbreAssumption`, all
six properties of its run; one of them needs `TimbresApart` besides:

* `AuditionedReferenceIsBuilt` (`ReferenceAsAuditioned`), by `AnswersInv`: a question comes from the reading it is kept with, and a later run with
  the same reading and the same anchor ranks the same references. Nothing need be known of how references are ranked.
* `QuestionsComeToAnEnd` (`QuestionsEnd`), by `AskedInv`: what can still be asked follows from which answers are on record. An answer is one because
  the anchor of a preview is a moment of the upload (`OfferedMoments`).
* `AnswersFindTheirSpeaker` (`AnchorsFindTheirSpeaker`): whoever a user chooses, the same reading finds that speaker again from the anchor, and nobody
  else. This is a fact about the algorithms, `EveryPreviewIsFound` in `SpeakersProofs`, for every upload in every reading.
* `TypesAreKept` (`TypeOK`) and `OfferedReferencesDiffer` (`CandidatesDiffer`), by `OfferInv`: what is put to the user is a ranking of the upload, and a package
  is one, with the chosen candidate in front. What a ranking is worth is a fact about the algorithms, `ReferencesDiffer`.
* `OnlyThePickedSpeakerIsBuilt` (`PickedSpeakerIsBuilt`), under `TimbresApart`: no voice's embedding resembles another's as much as clustering asks for
  (a cosine of 0.75). The code does not guarantee that, pyannote does or does not; without it two people are one cluster, and
  the property is false. What is shown is that nothing else can mix them: not the labels, their order, late or missed turns, missing embeddings,
  or that the second analysis reads the clips unlike the first. That the embeddings of one person are equal in all clips
  is the model's simplification. `PickedInv` says that with a speaker on record one voice was heard, and that the anchor is deep in a turn of it.

`EveryPreviewIsFound` follows a turn through everything that happens to it. What is noticed of a clip are turns that last and do not overlap
(`SegmentsApart`); clip and label say who a speaker is, and nobody is listed twice (`EverybodyOnce`, `NodesOnce`), so that the fold with `Join`
makes clusters that are finite and have no speaker in common (`JoinedApart`), whatever the voices sound like, and sorting them by their speech keeps them
so (`ClustersApart`). A preview that has a part in it was cut from a turn of at least `Crumb` (`PreviewIsOfATurn`), so the longest turn of that
clip is one, too (`LongestTurn`). The anchor is in its middle, further from both ends than `Slack` (`MiddleOfATurn`), and the turns of all others lie beyond those ends.

`OnlyThePickedSpeakerIsBuilt` adds who they are. Each label stands for one person (`OneLabelEach`, `WhoseLabel`). The centroid of labels of one
person is a multiple of that person's embedding (`CentroidOfOneVoice`), multiples are alike if what they are multiples of is (`MultiplesAreAlike`), so whoever resembles a cluster is the
one it is of (`ResemblesHimself`), and the fold keeps every cluster to one person (`JoinKeepsPure`, `ClustersArePure`). A preview of such a cluster has
one voice, and its anchor is deep in a turn of it (`PreviewIsOfOne`). An anchor like that is in reach of no turn of anybody else, in no reading
(`AnchorFindsOnlyHim`). So a run with it takes its references from turns of that person (`RankedOfHim`), and what is cut from those has that voice and no other (`CutFromOneVoice`).

`ReferencesDiffer` speaks of a set `W` of stretches the turns are from, so that it can be used for all that a clip has and for the turns of one person.
Candidates have parts of which none overlaps another (`Sound`) and each is cut from one of `W` (`CutFrom`). For turns and windows of a clip that is how
they are cut (`LongTurnsIn`, `WindowsIn`, `FilledParts`, `StitchedIn`). For pooled ones it is an invariant of two nested folds: what is left in the pool and what was taken from it
have no moment in common (`ExtendKeeps`, `BundleIsOne`, `GatherKeeps`). Of parts that do not overlap the sum over all pairs is the sum over each with itself (`NothingTwice`), so
that a candidate overlaps itself by what it lasts; and `AdmitKeeps` has the rest, with `DifferIsMutual` for the pairs that were not compared that way round.

Induction over the length of a sequence takes a form the provers can use. `SetInduction` speaks of a set of numbers rather than of a predicate.
`FoldIsARun` says of `FoldLeft`, which the library defines by a function on sets of places, that it goes from left to right, and `FoldKeeps` that it
stays in a set its operator stays in; `SumIsARun` and the lemmas after it say of a sum over a finite set that any element can be taken out. The operator is a constant of
`FoldFacts`, and the module is instantiated for each (`Lengths`, `Hearing`, `Joining`, `Gathering`, ...). `Ranks` shows that counting what
comes before it gives each element of a finite ordered set a place of its own; `PlacesInOrder` and `OrderSorts` say so of `Select` and `Descending`.

Only model-checked: the liveness properties (`BuildsComeToAnEnd`, `CancelSettles`, `FinishedClipsErased`), which need fairness and `ENABLED`.

## 6. Plan

Done: `VoiceJobs` with `JobLifecycle`, `SharedModel`, `VoiceStore`, `StateRestore`, `ReleaseGate`, `BuildQuestions` with its two algorithms, and theorems about
each of them and about the algorithms; of the safety properties that the passing runs check, all are proved. Next, in this order:

1. How good a ranking is: that every clip with a turn of the speaker is represented as long as there is room.
2. `JobPolling`: the browser client composed with `JobLifecycle`.
3. The composition of `VoiceJobs` and `VoiceStore`: a finished job installs and describes the package after it let go of the gate
   (`app/jobs.py:224`), when the next build of that name may have replaced it; and an abstract library, whose packages
   appear at once and complete, that `VoiceStore` implements.

### Not modelled

* Media tools: calls of ffmpeg and the inspection of WAV files. They keep no state, and what they compute is signal processing;
  `References` has the quality of a stretch of speech as data.
* Configuration, runtime and diagnostics: the environment, GPU metrics, the download of models, the support archive. Reading and formatting, with
  no protocol of their own.
* `engine_decision.py`: it compares measurements an operator has written down and binds its report to a commit as the gate does. Nothing else reads that report.
* Browser client: planned, see above. Most of it is rendering.
* Windows lifecycle scripts, other than those of the migration and of the acceptance: installing packages, creating tasks and shortcuts. `update-windows.ps1`
  is a straight line with a rollback to the old commit, in one process.
* The index `speaker_choice` of the synchronous `POST /api/voices`: a number without a job, sent with the clips it refers to.
* The syntax of archives, packages, requests and evidence: what a validator refuses for its form is one outcome, a refusal.
