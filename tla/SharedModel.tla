---------------------------- MODULE SharedModel ----------------------------
(***************************************************************************)
(* The one speech model on the GPU and the requests that share it:         *)
(* engines/chatterbox.py (the resident model, its conditioning and the     *)
(* key beside it), engines/package_runtime.py (speaking with an installed  *)
(* package), engines/rost.py and ChatterboxEngine (auditions, comparisons  *)
(* and the artifacts of a build) and engines/omnivoice.py (which needs the *)
(* GPU for another process).                                               *)
(*                                                                         *)
(* Every request runs on a thread of its own. _MODEL_RUN_LOCK serialises   *)
(* their use of the model; _MODEL_LOAD_LOCK and _ACTIVE_LOCK are only ever *)
(* taken by its holder and exclude nobody further. What no lock covers is  *)
(* the package file: an installation or a promotion replaces it at any     *)
(* time.                                                                   *)
(***************************************************************************)
EXTENDS FiniteSets, Naturals

CONSTANTS
  Threads,
  Names,     \* file names of packages in ModelRig's voice directory
  Versions,  \* contents of a package file, each with its own mtime and size: install_local's
             \* copy2 gives a file the mtime it had in the library, so old ones come back
  VoiceOf,   \* the voice id in the manifest of a version
  BuiltFor,  \* the model and revision in its manifest, and of its conditioning.pt
  MaxSwapped, \* bound: versions of a name replaced between a request's stat and its reading
  Absent,    \* no such package file
  Clip,      \* the reference of a build, which is in no package yet
  Nobody     \* the run lock is free

Models == {"v3", "roest"}
Builtin == "builtin"  \* the voice a freshly loaded model comes with

ASSUME VersionsAssumption ==
  /\ BuiltFor \in [Versions -> Models \cup {"v3-old", "foreign"}]
  /\ Versions \cap {Absent, Clip, Builtin} = {} /\ Clip \notin {Absent, Builtin}
  /\ Nobody \notin Threads
  /\ MaxSwapped \in Nat

VARIABLES
  store,      \* store[n]: the version in the voice directory
  manifests,  \* _VALIDATION_CACHE: per path the stat it was filled for, and a manifest
  resident,   \* _MODELS: the model on the GPU, "none" if there is none
  conds,      \* model.conds: whose voice it holds, and for which model it was computed
  key,        \* _CONDITIONING_KEY
  run,        \* the thread holding _MODEL_RUN_LOCK
  thread,     \* what each request is doing
  swapped,    \* history: versions replaced between a request's stat and its reading
  steady      \* history: speaking requests whose package was not replaced since they began

gpu == <<resident, conds, key>>
vars == <<store, manifests, gpu, run, thread, swapped, steady>>

NoConds == [of |-> Absent, model |-> "none"]
NoKey == [kind |-> "none"]
Transient == [kind |-> "transient"]
NoManifest == [stat |-> Absent, manifest |-> Absent]
Idle == [pc |-> "idle", job |-> "none", name |-> Absent, resolved |-> FALSE, stat |-> Absent,
         manifest |-> Absent, source |-> Absent, model |-> "none"]

\* runtime_engine_spec: the model that may speak for a manifest. A package of the same
\* model at an older revision is spoken for by the current one; nothing else falls back.
RuntimeSpec(v) == IF BuiltFor[v] = "v3-old" THEN "v3" ELSE BuiltFor[v]
Supported(v) == RuntimeSpec(v) \in Models
Exact(v) == BuiltFor[v] = RuntimeSpec(v)

\* Mutant: the key forgets which file it was computed from.
KeyOfName(n, stat, manifest) ==
  [kind |-> "package", voice |-> VoiceOf[manifest], engine |-> BuiltFor[manifest], name |-> n]

\* _package_conditioning_key
PackageKey(n, stat, manifest) ==
  [kind |-> "package", voice |-> VoiceOf[manifest], engine |-> BuiltFor[manifest],
   name |-> n, stat |-> stat]

Voices == {VoiceOf[v] : v \in Versions}
Keys == {NoKey, Transient} \cup
        [kind : {"package"}, voice : Voices, engine : {BuiltFor[v] : v \in Versions},
         name : Names, stat : Versions]
Holding == {"load", "key", "fetch", "condition", "prepare", "generate", "evict", "omni"}
Requests ==
  [pc : {"idle", "stat", "validate", "extract", "wait"} \cup Holding,
   job : {"none", "speak", "compare", "build", "omni"},
   name : Names \cup {Absent}, resolved : BOOLEAN,
   stat : Versions \cup {Absent}, manifest : Versions \cup {Absent},
   source : Versions \cup {Absent, Clip}, model : Models \cup {"none"}]

TypeOK ==
  /\ store \in [Names -> Versions \cup {Absent}]
  /\ manifests \in [Names -> [stat : Versions \cup {Absent}, manifest : Versions \cup {Absent}]]
  /\ resident \in Models \cup {"none"}
  /\ conds \in [of : Versions \cup {Absent, Clip, Builtin},
                model : Models \cup {"v3-old", "foreign", "none"}]
  /\ key \in Keys
  /\ run \in Threads \cup {Nobody}
  /\ thread \in [Threads -> Requests]
  /\ swapped \in [Names -> SUBSET Versions]
  /\ steady \in SUBSET Threads

Init ==
  /\ store \in [Names -> Versions \cup {Absent}]
  /\ manifests = [n \in Names |-> NoManifest]
  /\ resident = "none" /\ conds = NoConds /\ key = NoKey
  /\ run = Nobody
  /\ thread = [t \in Threads |-> Idle]
  /\ swapped = [n \in Names |-> {}]
  /\ steady = {}

-----------------------------------------------------------------------------
(* The voice directory *)

\* The requests that have looked at the stat of a file and not yet read it.
Reading(n) == {t \in Threads : thread[t].name = n /\ thread[t].pc \in {"validate", "fetch"}}

\* install_local, a promotion or a deletion: os.replace and unlink act at once. Any version
\* may be put back, with the mtime it had.
Replace(n, v) ==
  /\ v # store[n]
  /\ store' = [store EXCEPT ![n] = v]
  /\ steady' = {t \in steady : thread[t].name # n}
  /\ swapped' = [swapped EXCEPT ![n] = @ \cup {thread[t].stat : t \in Reading(n)}]
  /\ Cardinality(swapped'[n]) <= MaxSwapped
  /\ UNCHANGED <<manifests, gpu, run, thread>>

-----------------------------------------------------------------------------
(* Before the lock: requests find their package *)

Become(t, request) == thread' = [thread EXCEPT ![t] = request]
Goto(t, pc) == Become(t, [thread[t] EXCEPT !.pc = pc])
Stop(t) == Become(t, Idle)

\* POST /api/tts/synthesize, /compare/rost and /compare/omnivoice.
Ask(t, job, n) ==
  /\ thread[t].pc = "idle"
  /\ Become(t, [Idle EXCEPT !.pc = "stat", !.job = job, !.name = n])
  /\ steady' = IF job = "speak" THEN steady \cup {t} ELSE steady \ {t}
  /\ UNCHANGED <<store, manifests, gpu, run, swapped>>

\* The worker builds artifacts from a reference of its own, for the engine of the language.
AskBuild(t, model) ==
  /\ thread[t].pc = "idle"
  /\ Become(t, [Idle EXCEPT !.pc = "wait", !.job = "build", !.source = Clip, !.model = model])
  /\ steady' = steady \ {t}
  /\ UNCHANGED <<store, manifests, gpu, run, swapped>>

\* A manifest was returned. Speaking asks twice, in resolve_package and in synthesize,
\* and goes on with the second answer if the engine it names is supported.
Known(t, v) ==
  \/ /\ thread[t].job # "speak"
     /\ Become(t, [thread[t] EXCEPT !.pc = "extract", !.stat = Absent])
  \/ /\ thread[t].job = "speak" /\ ~thread[t].resolved
     /\ Become(t, [thread[t] EXCEPT !.pc = "stat", !.resolved = TRUE, !.stat = Absent])
  \/ /\ thread[t].job = "speak" /\ thread[t].resolved /\ Supported(v)
     /\ Become(t, [thread[t] EXCEPT !.pc = "wait", !.stat = Absent,
             !.manifest = v, !.model = RuntimeSpec(v)])
  \/ /\ thread[t].job = "speak" /\ thread[t].resolved /\ ~Supported(v)
     /\ Stop(t)

\* _manifest, first half: the file's stat decides whether a cached manifest is used.
Stat(t) ==
  LET n == thread[t].name IN
  /\ thread[t].pc = "stat"
  /\ \/ store[n] = Absent /\ Stop(t)
     \/ store[n] # Absent /\ manifests[n].stat = store[n] /\ Known(t, manifests[n].manifest)
     \/ /\ store[n] # Absent /\ manifests[n].stat # store[n]
        /\ Become(t, [thread[t] EXCEPT !.pc = "validate", !.stat = store[n]])
  /\ UNCHANGED <<store, manifests, gpu, run, swapped, steady>>

\* Second half: the file, as it is by now, is validated and its manifest cached under the
\* stat of the first half; entries of the same path under another stat are dropped.
Validate(t) ==
  LET n == thread[t].name IN
  /\ thread[t].pc = "validate"
  /\ \/ store[n] = Absent /\ Stop(t) /\ UNCHANGED manifests
     \/ /\ store[n] # Absent /\ Known(t, store[n])
        /\ manifests' = [manifests EXCEPT ![n] = [stat |-> thread[t].stat, manifest |-> store[n]]]
  /\ UNCHANGED <<store, gpu, run, swapped, steady>>

\* _extract_reference: comparisons copy the reference out of the package.
Extract(t) ==
  LET n == thread[t].name IN
  /\ thread[t].pc = "extract"
  /\ \/ store[n] = Absent /\ Stop(t)
     \/ /\ store[n] # Absent
        /\ Become(t, [thread[t] EXCEPT !.pc = "wait",
             !.source = IF thread[t].job = "compare" THEN store[n] ELSE Absent,
             !.model = IF thread[t].job = "compare" THEN "roest" ELSE "none"])
  /\ UNCHANGED <<store, manifests, gpu, run, swapped, steady>>

-----------------------------------------------------------------------------
(* Under _MODEL_RUN_LOCK *)

\* Mutant: OmniVoice does not wait for the lock.
LockUnlessOmni(t) ==
  /\ thread[t].pc = "wait" /\ (run = Nobody \/ thread[t].job = "omni")
  /\ run' = t
  /\ Goto(t, IF thread[t].job = "omni" THEN "evict" ELSE "load")
  /\ UNCHANGED <<store, manifests, gpu, swapped, steady>>

Lock(t) ==
  /\ thread[t].pc = "wait" /\ run = Nobody
  /\ run' = t
  /\ Goto(t, IF thread[t].job = "omni" THEN "evict" ELSE "load")
  /\ UNCHANGED <<store, manifests, gpu, swapped, steady>>

\* Leaving the with statement, normally or by an exception.
Release(t) == Stop(t) /\ run' = Nobody

\* Mutant: whatever is resident will do.
ServesAny(model) == resident # "none"

Serves(model) == resident = model

\* _shared_model: the resident model, or another one after evicting it, which may fail.
Load(t) ==
  LET model == thread[t].model
      next == IF thread[t].job = "speak" THEN "key" ELSE "prepare"
  IN
  /\ thread[t].pc = "load"
  /\ \/ Serves(model) /\ Goto(t, next) /\ UNCHANGED <<gpu, run>>
     \/ /\ ~Serves(model)
        /\ resident' = model /\ conds' = [of |-> Builtin, model |-> model] /\ key' = NoKey
        /\ Goto(t, next) /\ UNCHANGED run
     \/ /\ ~Serves(model)
        /\ resident' = "none" /\ conds' = NoConds /\ key' = NoKey
        /\ Release(t)
  /\ UNCHANGED <<store, manifests, swapped, steady>>

\* The conditioning a key vouches for may have failed to load since.
Current(k) == key = k /\ conds # NoConds

\* _ensure_conditioning: the key of the file as it is now; is its conditioning loaded?
Ensure(t) ==
  LET n == thread[t].name
      k == PackageKey(n, store[n], thread[t].manifest)
  IN
  /\ thread[t].pc = "key"
  /\ \/ store[n] = Absent /\ Release(t)
     \/ /\ store[n] # Absent /\ UNCHANGED run
        /\ Become(t, [thread[t] EXCEPT !.stat = store[n],
             !.pc = IF Current(k) THEN "generate" ELSE "fetch"])
  /\ UNCHANGED <<store, manifests, gpu, swapped, steady>>

\* _materialize: reference.wav and conditioning.pt are copied out of the package as it is
\* by now. Only the lock's holder touches the copies, so they are the thread's own here.
Fetch(t) ==
  LET n == thread[t].name IN
  /\ thread[t].pc = "fetch"
  /\ \/ store[n] = Absent /\ Release(t)
     \/ /\ store[n] # Absent /\ UNCHANGED run
        /\ Become(t, [thread[t] EXCEPT !.pc = "condition", !.source = store[n]])
  /\ UNCHANGED <<store, manifests, gpu, swapped, steady>>

\* Mutant: the key is taken after the content was read.
OwnAsOfNow(t) == PackageKey(thread[t].name, store[thread[t].name], thread[t].manifest)

Own(t) == PackageKey(thread[t].name, thread[t].stat, thread[t].manifest)

\* An exactly pinned package's conditioning.pt is loaded. If that fails, and for an older
\* revision, conditioning is to be computed from reference.wav.
Condition(t) ==
  /\ thread[t].pc = "condition"
  /\ \/ /\ Exact(thread[t].manifest)
        /\ conds' = [of |-> thread[t].source, model |-> BuiltFor[thread[t].source]]
        /\ key' = Own(t) /\ Goto(t, "generate")
     \/ conds' = NoConds /\ UNCHANGED key /\ Goto(t, "prepare")
  /\ UNCHANGED <<store, manifests, resident, run, swapped, steady>>

\* Mutant: a build leaves the key of the package that was loaded before it.
KeyUnlessBuild(t) == IF thread[t].job = "speak" THEN Own(t) ELSE key

\* The key of a build or a comparison names a path in a temporary directory, which is the
\* key of no package.
KeyAfter(t) == IF thread[t].job = "speak" THEN Own(t) ELSE Transient

\* prepare_conditionals computes conditioning from the reference with the resident model.
\* It may raise, or leave none behind; either way the request ends.
Prepare(t) ==
  /\ thread[t].pc = "prepare"
  /\ \/ /\ conds' = [of |-> thread[t].source, model |-> resident]
        /\ key' = KeyAfter(t) /\ Goto(t, "generate") /\ UNCHANGED run
     \/ conds' \in {conds, NoConds} /\ UNCHANGED key /\ Release(t)
  /\ UNCHANGED <<store, manifests, resident, swapped, steady>>

\* model.generate and what is done with the sound; it may fail as well.
Generate(t) ==
  /\ thread[t].pc = "generate" /\ Release(t)
  /\ UNCHANGED <<store, manifests, gpu, swapped, steady>>

\* release_shared_model, then OmniVoice's process for as long as the lock is held.
Evict(t) ==
  /\ thread[t].pc = "evict" /\ Goto(t, "omni")
  /\ resident' = "none" /\ conds' = NoConds /\ key' = NoKey
  /\ UNCHANGED <<store, manifests, run, swapped, steady>>

OmniEnds(t) ==
  /\ thread[t].pc = "omni" /\ Release(t)
  /\ UNCHANGED <<store, manifests, gpu, swapped, steady>>

Step(t) ==
  \/ Stat(t) \/ Validate(t) \/ Extract(t)
  \/ Lock(t) \/ Load(t) \/ Ensure(t) \/ Fetch(t) \/ Condition(t) \/ Prepare(t) \/ Generate(t)
  \/ Evict(t) \/ OmniEnds(t)

Next ==
  \/ \E t \in Threads :
       \/ \E n \in Names, job \in {"speak", "compare", "omni"} : Ask(t, job, n)
       \/ \E model \in Models : AskBuild(t, model)
       \/ Step(t)
  \/ \E n \in Names, v \in Versions \cup {Absent} : Replace(n, v)

Spec == Init /\ [][Next]_vars

-----------------------------------------------------------------------------
(* Properties *)

\* A request whose package is left alone is spoken with exactly that package: its model,
\* its voice, conditioning computed for that model. What replaced packages, failed loads,
\* builds and comparisons left behind in the caches must not reach it, an old package that
\* was put back with its old mtime included. The one exception of the code: a file that had
\* been replaced while some request was between its stat and its reading, and is back.
SteadySpeechIsExact ==
  \A t \in steady :
    LET v == store[thread[t].name] IN
    thread[t].pc = "generate" /\ thread[t].job = "speak" /\ v \notin swapped[thread[t].name] =>
      resident = RuntimeSpec(v) /\ conds = [of |-> v, model |-> resident]

\* An audition, a comparison or the preview of a build is spoken with the reference it was
\* asked for, on the engine it was asked for, whatever the model was used for before.
AuditionIsExact ==
  \A t \in Threads : thread[t].pc = "generate" /\ thread[t].job \in {"compare", "build"} =>
    resident = thread[t].model /\ conds = [of |-> thread[t].source, model |-> resident]

\* OmniVoice has the GPU to itself: no request reloads a model while its process runs.
OmniVoiceAlone == (\E t \in Threads : thread[t].pc = "omni") => resident = "none"

\* What the lock, the requests and the history owe each other, whatever is replaced: the
\* lock is held by the one request that is past it, each request carries what its next step
\* needs, and the model it loaded stays until it is done.
RequestInv(t) ==
  /\ thread[t].pc \in Holding <=> run = t
  /\ thread[t].pc # "idle" => thread[t].job # "none"
  /\ thread[t].pc \in {"stat", "validate", "extract"} =>
       thread[t].name \in Names /\ thread[t].job # "build"
  /\ thread[t].pc \in {"extract", "evict", "omni"} => thread[t].job # "speak"
  /\ thread[t].pc \in {"key", "fetch", "condition"} => thread[t].job = "speak"
  /\ thread[t].pc \in {"load", "prepare", "generate"} =>
       thread[t].job \in {"speak", "compare", "build"}
  /\ thread[t].pc \in {"wait"} \cup Holding /\ thread[t].job = "speak" =>
       /\ thread[t].name \in Names /\ thread[t].manifest \in Versions
       /\ thread[t].model = RuntimeSpec(thread[t].manifest) /\ thread[t].model \in Models
  /\ thread[t].pc \in {"wait"} \cup Holding /\ thread[t].job \in {"compare", "build"} =>
       thread[t].model \in Models /\ thread[t].source # Absent
  /\ thread[t].pc \in {"validate", "fetch", "condition"} => thread[t].stat \in Versions
  /\ thread[t].pc = "prepare" /\ thread[t].job = "speak" =>
       thread[t].stat \in Versions /\ thread[t].source # Absent
  /\ thread[t].pc = "condition" => thread[t].source \in Versions
  /\ thread[t].pc \in {"key", "fetch", "condition", "prepare", "generate"} =>
       resident = thread[t].model

CachedInv == \A n \in Names : manifests[n].stat # Absent => manifests[n].manifest \in Versions

\* Was version v of n only ever read as what its stat said?
Trusted(n, v) == v \notin swapped[n]

\* The key never vouches for foreign conditioning: what it was set for is what is loaded,
\* computed from that file for the model that is loaded.
KeyInv ==
  key.kind = "package" /\ conds # NoConds /\ Trusted(key.name, key.stat)
    /\ key.voice = VoiceOf[key.stat] /\ key.engine = BuiltFor[key.stat] =>
  resident = RuntimeSpec(key.stat) /\ conds = [of |-> key.stat, model |-> resident]

\* A cached manifest is that of the file whose stat it is kept under.
ManifestInv ==
  \A n \in Names : manifests[n].stat # Absent /\ Trusted(n, manifests[n].stat) =>
    manifests[n].manifest = manifests[n].stat

\* A request that has looked at a file reads that file, and what is about to become
\* conditioning is of the file whose stat names it.
SourceRequest(r) ==
  r.name \in Names /\ Trusted(r.name, r.stat) =>
    /\ r.pc \in {"validate", "fetch"} => store[r.name] = r.stat
    /\ r.pc \in {"condition", "prepare"} /\ r.job = "speak" => r.source = r.stat

SourceInv == \A t \in Threads : SourceRequest(thread[t])

\* Whatever is installed, removed and put back: the caches never speak of a file but the one
\* they were filled from, unless it was replaced between a request's stat and its reading.
CacheInv == KeyInv /\ ManifestInv /\ SourceInv

\* A request whose package was left alone has read nothing but that package.
SteadyRequest(r) ==
  Trusted(r.name, store[r.name]) =>
    /\ r.pc \in {"wait"} \cup Holding => r.manifest = store[r.name]
    /\ r.pc \in {"fetch", "condition", "prepare", "generate"} => r.stat = store[r.name]
    /\ r.pc \in {"condition", "prepare"} => r.source = store[r.name]

SteadyInv == \A t \in steady : thread[t].job = "speak" => SteadyRequest(thread[t])

\* Binary model state must not "pretend to be compatible across models and revisions"
\* (docs/MRVOICE_SPEC.md): conditioning is never used with a model it was not computed for.
ConditioningFitsModel ==
  \A t \in Threads : thread[t].pc = "generate" => conds.model = resident
=============================================================================
