------------------------- MODULE SharedModelProofs -------------------------
(***************************************************************************)
(* Theorems about SharedModel, for every set of threads, names and         *)
(* versions, whatever replaces a package.                                  *)
(***************************************************************************)
EXTENDS SharedModel, TLAPS

SharedInv ==
  /\ TypeOK
  /\ \A t \in Threads : RequestInv(t)
  /\ CachedInv
  /\ OmniVoiceAlone
  /\ AuditionIsExact

-----------------------------------------------------------------------------
(* What a step of one request leaves alone *)

\* The requests that do not move keep their invariant: what they need of the GPU they need
\* only while they hold the lock.
LEMMA OneMoves ==
  ASSUME SharedInv, NEW t \in Threads, NEW r \in Requests, Become(t, r), swapped' = swapped,
         run' = run \/ (run = t /\ run' = Nobody) \/ (run = Nobody /\ run' = t),
         UNCHANGED gpu \/ run = t
  PROVE  /\ thread' \in [Threads -> Requests] /\ thread'[t] = r
         /\ \A u \in Threads \ {t} : thread'[u] = thread[u] /\ RequestInv(u)'
<1> USE VersionsAssumption
<1>1. thread' \in [Threads -> Requests] /\ thread'[t] = r
  BY DEF SharedInv, TypeOK, Become
<1>2. \A u \in Threads \ {t} : thread'[u] = thread[u]
  BY DEF SharedInv, TypeOK, Become
<1>3. ASSUME NEW u \in Threads \ {t} PROVE RequestInv(u)'
  <2>1. RequestInv(u) /\ thread'[u] = thread[u]
    BY <1>2 DEF SharedInv
  <2>2. CASE run # t
    BY <2>1, <2>2 DEF RequestInv, gpu
  <2>3. CASE run = t
    BY <2>1, <2>3 DEF RequestInv, Holding
  <2> QED
    BY <2>2, <2>3
<1> QED
  BY <1>1, <1>2, <1>3

\* What remains to be shown of a step under the lock or on the way to it.
LEMMA SharedStep ==
  ASSUME SharedInv, NEW t \in Threads, NEW r \in Requests, Become(t, r),
         UNCHANGED <<store, swapped>>, CachedInv', RequestInv(t)',
         run' = run \/ (run = t /\ run' = Nobody) \/ (run = Nobody /\ run' = t),
         UNCHANGED gpu \/ run = t,
         manifests' \in [Names -> [stat : Versions \cup {Absent}, manifest : Versions \cup {Absent}]],
         resident' \in Models \cup {"none"},
         conds' \in [of : Versions \cup {Absent, Clip, Builtin},
                     model : Models \cup {"v3-old", "foreign", "none"}],
         key' \in Keys, steady' \in SUBSET Threads,
         r.pc = "omni" => resident' = "none",
         r.pc = "generate" /\ r.job \in {"compare", "build"} =>
           resident' = r.model /\ conds' = [of |-> r.source, model |-> resident']
  PROVE  SharedInv'
<1> USE VersionsAssumption
<1>1. /\ thread' \in [Threads -> Requests] /\ thread'[t] = r
      /\ \A u \in Threads \ {t} : thread'[u] = thread[u] /\ RequestInv(u)'
  BY OneMoves
<1>2. TypeOK'
  BY <1>1 DEF SharedInv, TypeOK
<1>3. \A u \in Threads \ {t} : thread[u].pc \in {"omni", "generate"} => UNCHANGED gpu
  BY DEF SharedInv, RequestInv, Holding
<1>4. OmniVoiceAlone'
  BY <1>1, <1>3 DEF SharedInv, OmniVoiceAlone, gpu
<1>5. AuditionIsExact'
  BY <1>1, <1>3 DEF SharedInv, AuditionIsExact, gpu
<1> QED
  BY <1>1, <1>2, <1>4, <1>5 DEF SharedInv

\* Requests that have not asked for the lock, or come back without it, touch nothing.
LEMMA SharedMove ==
  ASSUME SharedInv, NEW t \in Threads, NEW r \in Requests, Become(t, r),
         UNCHANGED <<store, manifests, gpu, swapped>>, steady' \in SUBSET Threads,
         RequestInv(t)',
         run' = run \/ (run = t /\ run' = Nobody) \/ (run = Nobody /\ run' = t),
         r.pc # "omni", r.pc = "generate" => r.job = "speak"
  PROVE  SharedInv'
<1> USE VersionsAssumption
<1>1. CachedInv'
  BY DEF SharedInv, CachedInv, gpu
<1>2. /\ manifests' \in [Names -> [stat : Versions \cup {Absent}, manifest : Versions \cup {Absent}]]
      /\ resident' \in Models \cup {"none"}
      /\ conds' \in [of : Versions \cup {Absent, Clip, Builtin},
                     model : Models \cup {"v3-old", "foreign", "none"}]
      /\ key' \in Keys
  BY DEF SharedInv, TypeOK, gpu
<1> QED
  BY <1>1, <1>2, SharedStep DEF gpu

LEMMA SharedStop ==
  ASSUME SharedInv, NEW t \in Threads, Stop(t), UNCHANGED <<store, manifests, gpu, swapped, steady>>,
         (run' = run /\ thread[t].pc \notin Holding) \/ (run = t /\ run' = Nobody)
  PROVE  SharedInv'
<1> USE VersionsAssumption
<1>1. Idle \in Requests /\ Become(t, Idle)
  BY DEF Idle, Requests, Stop
<1>2. RequestInv(t)'
  <2>1. thread'[t] = Idle
    BY <1>1 DEF SharedInv, TypeOK, Become
  <2>2. run' # t
    BY DEF SharedInv, RequestInv
  <2> QED
    BY <2>1, <2>2 DEF RequestInv, Idle, Holding
<1> QED
  BY <1>1, <1>2, SharedMove DEF SharedInv, TypeOK, Idle

-----------------------------------------------------------------------------
(* One lemma per action: it preserves SharedInv. *)

LEMMA SharedInit == Init => SharedInv
<1> SUFFICES ASSUME Init PROVE SharedInv
  OBVIOUS
<1> USE VersionsAssumption
<1>1. TypeOK
  BY DEF Init, TypeOK, Requests, Idle, NoConds, NoKey, NoManifest, Keys
<1>2. \A t \in Threads : RequestInv(t)
  BY DEF Init, RequestInv, Idle, Holding
<1>3. CachedInv
  BY DEF Init, CachedInv, NoManifest, NoKey
<1>4. OmniVoiceAlone /\ AuditionIsExact
  BY DEF Init, OmniVoiceAlone, AuditionIsExact, Idle
<1> QED
  BY <1>1, <1>2, <1>3, <1>4 DEF SharedInv

LEMMA SharedReplace ==
  ASSUME SharedInv, NEW n \in Names, NEW v \in Versions \cup {Absent}, Replace(n, v)
  PROVE SharedInv'
<1> USE VersionsAssumption
<1>0. {thread[t].stat : t \in Reading(n)} \subseteq Versions
  BY DEF SharedInv, RequestInv, Reading
<1>1. TypeOK'
  BY <1>0 DEF Replace, SharedInv, TypeOK, gpu
<1>2. \A t \in Threads : RequestInv(t)'
  BY DEF Replace, SharedInv, TypeOK, RequestInv, gpu, Requests, Holding
<1>3. CachedInv'
  BY DEF Replace, SharedInv, TypeOK, CachedInv, gpu, Keys
<1>4. OmniVoiceAlone' /\ AuditionIsExact'
  BY DEF Replace, SharedInv, OmniVoiceAlone, AuditionIsExact, gpu
<1> QED
  BY <1>1, <1>2, <1>3, <1>4 DEF SharedInv

LEMMA SharedAsk ==
  ASSUME SharedInv, NEW t \in Threads, NEW n \in Names,
         NEW job \in {"speak", "compare", "omni"}, Ask(t, job, n)
  PROVE  SharedInv'
<1> USE VersionsAssumption
<1> DEFINE r == [Idle EXCEPT !.pc = "stat", !.job = job, !.name = n]
<1>1. r \in Requests
  BY DEF Requests, Idle
<1>2. RequestInv(t)'
  BY <1>1 DEF Ask, Become, SharedInv, TypeOK, RequestInv, Idle, Holding
<1> QED
  BY <1>1, <1>2, SharedMove DEF Ask, SharedInv, TypeOK, Idle

LEMMA SharedAskBuild ==
  ASSUME SharedInv, NEW t \in Threads, NEW model \in Models, AskBuild(t, model)
  PROVE  SharedInv'
<1> USE VersionsAssumption
<1> DEFINE r == [Idle EXCEPT !.pc = "wait", !.job = "build", !.source = Clip, !.model = model]
<1>1. r \in Requests
  BY DEF Requests, Idle
<1>2. RequestInv(t)'
  BY <1>1 DEF AskBuild, Become, SharedInv, TypeOK, RequestInv, Idle, Holding
<1> QED
  BY <1>1, <1>2, SharedMove DEF AskBuild, SharedInv, TypeOK, Idle

\* What follows from a manifest, cached or fresh.
LEMMA KnownStep ==
  ASSUME SharedInv, NEW t \in Threads, thread[t].pc \in {"stat", "validate"},
         NEW v \in Versions, Known(t, v), UNCHANGED <<run, swapped>>
  PROVE  \E r \in Requests : /\ Become(t, r) /\ RequestInv(t)'
                             /\ r.pc \in {"idle", "stat", "extract", "wait"}
                             /\ r.pc = "wait" => r.manifest = v /\ r.name = thread[t].name
<1> USE VersionsAssumption
<1>0. thread[t] \in Requests
  BY DEF SharedInv, TypeOK
<1>1. CASE thread[t].job # "speak" /\ Become(t, [thread[t] EXCEPT !.pc = "extract", !.stat = Absent])
  <2> DEFINE r == [thread[t] EXCEPT !.pc = "extract", !.stat = Absent]
  <2>1. r \in Requests
    BY <1>0 DEF Requests
  <2>2. RequestInv(t)'
    BY <1>0, <1>1 DEF SharedInv, TypeOK, Become, RequestInv, Requests, Holding
  <2>3. r.pc = "extract"
    BY <1>0 DEF Requests
  <2> QED
    BY <1>1, <2>1, <2>2, <2>3
<1>2. CASE /\ thread[t].job = "speak"
           /\ Become(t, [thread[t] EXCEPT !.pc = "stat", !.resolved = TRUE, !.stat = Absent])
  <2> DEFINE r == [thread[t] EXCEPT !.pc = "stat", !.resolved = TRUE, !.stat = Absent]
  <2>1. r \in Requests
    BY <1>0 DEF Requests
  <2>2. RequestInv(t)'
    BY <1>0, <1>2 DEF SharedInv, TypeOK, Become, RequestInv, Requests, Holding
  <2>3. r.pc = "stat"
    BY <1>0 DEF Requests
  <2> QED
    BY <1>2, <2>1, <2>2, <2>3
<1>3. CASE /\ thread[t].job = "speak" /\ Supported(v)
           /\ Become(t, [thread[t] EXCEPT !.pc = "wait", !.stat = Absent,
                                          !.manifest = v, !.model = RuntimeSpec(v)])
  <2> DEFINE r == [thread[t] EXCEPT !.pc = "wait", !.stat = Absent,
                                    !.manifest = v, !.model = RuntimeSpec(v)]
  <2>1. r \in Requests
    BY <1>0, <1>3 DEF Requests, Supported
  <2>2. RequestInv(t)'
    BY <1>0, <1>3 DEF SharedInv, TypeOK, Become, RequestInv, Requests, Holding, Supported
  <2>3. r.pc = "wait" /\ r.manifest = v /\ r.name = thread[t].name
    BY <1>0 DEF Requests
  <2> QED
    BY <1>3, <2>1, <2>2, <2>3
<1>4. CASE Stop(t)
  <2>1. Idle \in Requests /\ Idle.pc = "idle"
    BY DEF Idle, Requests
  <2>2. RequestInv(t)'
    BY <1>4 DEF SharedInv, TypeOK, Stop, Become, RequestInv, Idle, Holding
  <2> QED
    BY <1>4, <2>1, <2>2 DEF Stop
<1> QED
  BY <1>1, <1>2, <1>3, <1>4 DEF Known

LEMMA SharedStat ==
  ASSUME SharedInv, NEW t \in Threads, Stat(t)
  PROVE  SharedInv'
<1> USE VersionsAssumption
<1> DEFINE n == thread[t].name
<1>0. /\ thread[t].pc = "stat" /\ n \in Names /\ thread[t] \in Requests
      /\ UNCHANGED <<store, manifests, gpu, run, swapped, steady>>
  BY DEF SharedInv, TypeOK, RequestInv, Stat
<1>1. CASE Stop(t)
  BY <1>0, <1>1, SharedStop DEF Holding
<1>2. CASE store[n] # Absent /\ manifests[n].stat = store[n] /\ Known(t, manifests[n].manifest)
  <2>1. manifests[n].manifest \in Versions
    BY <1>0, <1>2 DEF SharedInv, CachedInv
  <2>2. PICK r \in Requests : /\ Become(t, r) /\ RequestInv(t)'
                              /\ r.pc \in {"idle", "stat", "extract", "wait"}
    BY <1>0, <1>2, <2>1, KnownStep
  <2> QED
    BY <1>0, <2>2, SharedMove DEF SharedInv, TypeOK
<1>3. CASE store[n] # Absent /\ Become(t, [thread[t] EXCEPT !.pc = "validate", !.stat = store[n]])
  <2> DEFINE r == [thread[t] EXCEPT !.pc = "validate", !.stat = store[n]]
  <2>1. r \in Requests /\ r.pc = "validate"
    BY <1>0 DEF SharedInv, TypeOK, Requests
  <2>2. RequestInv(t)'
    BY <1>0, <1>3 DEF SharedInv, TypeOK, CachedInv, Become, RequestInv, Requests, Holding
  <2> QED
    BY <1>0, <1>3, <2>1, <2>2, SharedMove DEF SharedInv, TypeOK
<1> QED
  BY <1>1, <1>2, <1>3 DEF Stat

LEMMA SharedValidate ==
  ASSUME SharedInv, NEW t \in Threads, Validate(t)
  PROVE  SharedInv'
<1> USE VersionsAssumption
<1> DEFINE n == thread[t].name
<1>0. /\ thread[t].pc = "validate" /\ n \in Names /\ thread[t].stat \in Versions
      /\ UNCHANGED <<store, gpu, run, swapped, steady>>
  BY DEF SharedInv, RequestInv, Validate
<1>1. CASE Stop(t) /\ UNCHANGED manifests
  BY <1>0, <1>1, SharedStop DEF Holding
<1>2. CASE /\ store[n] # Absent /\ Known(t, store[n])
           /\ manifests' = [manifests EXCEPT ![n] = [stat |-> thread[t].stat, manifest |-> store[n]]]
  <2>1. store[n] \in Versions
    BY <1>0, <1>2 DEF SharedInv, TypeOK
  <2>2. PICK r \in Requests : /\ Become(t, r) /\ RequestInv(t)'
                              /\ r.pc \in {"idle", "stat", "extract", "wait"}
    BY <1>0, <1>2, <2>1, KnownStep
  <2>3. /\ manifests' \in [Names -> [stat : Versions \cup {Absent}, manifest : Versions \cup {Absent}]]
        /\ CachedInv'
    BY <1>0, <1>2, <2>1 DEF SharedInv, TypeOK, CachedInv, gpu
  <2>4. UNCHANGED gpu /\ TypeOK
    BY <1>0 DEF SharedInv
  <2> QED
    BY <1>0, <2>2, <2>3, <2>4, SharedStep DEF TypeOK, gpu
<1> QED
  BY <1>1, <1>2 DEF Validate

LEMMA SharedExtract ==
  ASSUME SharedInv, NEW t \in Threads, Extract(t)
  PROVE  SharedInv'
<1> USE VersionsAssumption
<1> DEFINE n == thread[t].name
           s == IF thread[t].job = "compare" THEN store[n] ELSE Absent
           m == IF thread[t].job = "compare" THEN "roest" ELSE "none"
           r == [thread[t] EXCEPT !.pc = "wait", !.source = s, !.model = m]
<1>0. /\ thread[t].pc = "extract" /\ n \in Names /\ thread[t] \in Requests
      /\ UNCHANGED <<store, manifests, gpu, run, swapped, steady>>
  BY DEF SharedInv, TypeOK, RequestInv, Extract
<1>1. CASE Stop(t)
  BY <1>0, <1>1, SharedStop DEF Holding
<1>2. CASE store[n] # Absent /\ Become(t, r)
  <2>1. s \in Versions \cup {Absent} /\ m \in Models \cup {"none"}
    BY <1>0 DEF SharedInv, TypeOK, Models
  <2>2. r \in Requests /\ r.pc = "wait"
    BY <1>0, <2>1 DEF Requests
  <2>3. RequestInv(t)'
    BY <1>0, <1>2, <2>2 DEF SharedInv, TypeOK, Become, RequestInv, Requests, Holding, Models
  <2> QED
    BY <1>0, <1>2, <2>2, <2>3, SharedMove DEF SharedInv, TypeOK
<1> QED
  BY <1>1, <1>2 DEF Extract

LEMMA SharedLock ==
  ASSUME SharedInv, NEW t \in Threads, Lock(t)
  PROVE  SharedInv'
<1> USE VersionsAssumption
<1> DEFINE pc == IF thread[t].job = "omni" THEN "evict" ELSE "load"
           r == [thread[t] EXCEPT !.pc = pc]
<1>0. /\ thread[t].pc = "wait" /\ thread[t] \in Requests /\ run = Nobody /\ run' = t
      /\ Become(t, r) /\ UNCHANGED <<store, manifests, gpu, swapped, steady>>
  BY DEF SharedInv, TypeOK, Lock, Goto
<1>1. r \in Requests /\ r.pc \in {"evict", "load"}
  BY <1>0 DEF Requests, Holding
<1>2. RequestInv(t)'
  BY <1>0, <1>1 DEF SharedInv, TypeOK, Become, RequestInv, Requests, Holding
<1> HIDE DEF r
<1> QED
  BY <1>0, <1>1, <1>2, SharedMove DEF SharedInv, TypeOK

LEMMA SharedLoad ==
  ASSUME SharedInv, NEW t \in Threads, Load(t)
  PROVE  SharedInv'
<1> USE VersionsAssumption
<1> DEFINE next == IF thread[t].job = "speak" THEN "key" ELSE "prepare"
           r == [thread[t] EXCEPT !.pc = next]
<1>0. /\ thread[t].pc = "load" /\ thread[t] \in Requests /\ run = t /\ thread[t].model \in Models
      /\ UNCHANGED <<store, manifests, swapped, steady>> /\ TypeOK
  BY DEF SharedInv, TypeOK, RequestInv, Load, Holding
<1>1. r \in Requests /\ r.pc \in {"key", "prepare"}
  BY <1>0 DEF Requests, Holding
<1>2. CASE Become(t, r) /\ Serves(thread[t].model) /\ UNCHANGED <<gpu, run>>
  <2>1. RequestInv(t)'
    BY <1>0, <1>1, <1>2 DEF SharedInv, TypeOK, Become, RequestInv, Requests, Holding, Serves, gpu
  <2> HIDE DEF r
  <2> QED
    BY <1>0, <1>1, <1>2, <2>1, SharedMove DEF TypeOK
<1>3. CASE /\ Become(t, r) /\ run' = run /\ resident' = thread[t].model /\ key' = NoKey
           /\ conds' = [of |-> Builtin, model |-> thread[t].model]
  <2>1. RequestInv(t)'
    BY <1>0, <1>1, <1>3 DEF SharedInv, TypeOK, Become, RequestInv, Requests, Holding
  <2>2. CachedInv'
    BY <1>0, <1>3 DEF SharedInv, CachedInv, NoKey
  <2>3. /\ resident' \in Models \cup {"none"} /\ key' \in Keys
        /\ conds' \in [of : Versions \cup {Absent, Clip, Builtin},
                       model : Models \cup {"v3-old", "foreign", "none"}]
    BY <1>0, <1>3 DEF Keys
  <2> HIDE DEF r
  <2> QED
    BY <1>0, <1>1, <1>3, <2>1, <2>2, <2>3, SharedStep DEF TypeOK
<1>4. CASE resident' = "none" /\ conds' = NoConds /\ key' = NoKey /\ Release(t)
  <2>1. Idle \in Requests /\ Idle.pc = "idle" /\ Become(t, Idle) /\ run' = Nobody
    BY <1>4 DEF Idle, Requests, Release, Stop
  <2>2. RequestInv(t)'
    BY <1>0, <2>1 DEF SharedInv, TypeOK, Become, RequestInv, Idle, Holding
  <2>3. CachedInv'
    BY <1>0, <1>4 DEF SharedInv, CachedInv, NoKey
  <2>4. /\ resident' \in Models \cup {"none"} /\ key' \in Keys
        /\ conds' \in [of : Versions \cup {Absent, Clip, Builtin},
                       model : Models \cup {"v3-old", "foreign", "none"}]
    BY <1>4 DEF Keys, NoConds
  <2> QED
    BY <1>0, <2>1, <2>2, <2>3, <2>4, SharedStep DEF TypeOK
<1> QED
  BY <1>2, <1>3, <1>4 DEF Load, Goto

LEMMA SharedEnsure ==
  ASSUME SharedInv, NEW t \in Threads, Ensure(t)
  PROVE  SharedInv'
<1> USE VersionsAssumption
<1> DEFINE n == thread[t].name
           pc == IF Current(PackageKey(n, store[n], thread[t].manifest)) THEN "generate" ELSE "fetch"
           r == [thread[t] EXCEPT !.stat = store[n], !.pc = pc]
<1>0. /\ thread[t].pc = "key" /\ n \in Names /\ thread[t].job = "speak" /\ thread[t] \in Requests
      /\ run = t /\ UNCHANGED <<store, manifests, gpu, swapped, steady>>
  BY DEF SharedInv, TypeOK, RequestInv, Ensure, Holding
<1>1. CASE Release(t)
  BY <1>0, <1>1, SharedStop DEF Release
<1>2. CASE store[n] # Absent /\ Become(t, r) /\ UNCHANGED run
  <2>1. r \in Requests /\ r.pc \in {"generate", "fetch"} /\ r.job = "speak"
    BY <1>0 DEF SharedInv, TypeOK, Requests, Holding
  <2>2. store[n] \in Versions
    BY <1>0, <1>2 DEF SharedInv, TypeOK
  <2>3. RequestInv(t)'
    BY <1>0, <1>2, <2>1, <2>2 DEF SharedInv, TypeOK, Become, RequestInv, Requests, Holding, gpu
  <2> HIDE DEF r
  <2> QED
    BY <1>0, <1>2, <2>1, <2>3, SharedMove DEF SharedInv, TypeOK
<1> QED
  BY <1>1, <1>2 DEF Ensure

LEMMA SharedFetch ==
  ASSUME SharedInv, NEW t \in Threads, Fetch(t)
  PROVE  SharedInv'
<1> USE VersionsAssumption
<1> DEFINE n == thread[t].name
           r == [thread[t] EXCEPT !.pc = "condition", !.source = store[n]]
<1>0. /\ thread[t].pc = "fetch" /\ n \in Names /\ thread[t].job = "speak" /\ thread[t] \in Requests
      /\ run = t /\ UNCHANGED <<store, manifests, gpu, swapped, steady>>
  BY DEF SharedInv, TypeOK, RequestInv, Fetch, Holding
<1>1. CASE Release(t)
  BY <1>0, <1>1, SharedStop DEF Release
<1>2. CASE store[n] # Absent /\ Become(t, r) /\ UNCHANGED run
  <2>1. r \in Requests /\ r.pc = "condition" /\ store[n] \in Versions
    BY <1>0, <1>2 DEF SharedInv, TypeOK, Requests, Holding
  <2>2. RequestInv(t)'
    BY <1>0, <1>2, <2>1 DEF SharedInv, TypeOK, Become, RequestInv, Requests, Holding, gpu
  <2> QED
    BY <1>0, <1>2, <2>1, <2>2, SharedMove DEF SharedInv, TypeOK
<1> QED
  BY <1>1, <1>2 DEF Fetch

\* The key of a request is well-formed once it has read the file's stat.
LEMMA OwnTyped ==
  ASSUME TypeOK, NEW t \in Threads, thread[t].name \in Names, thread[t].manifest \in Versions,
         thread[t].stat \in Versions
  PROVE  /\ Own(t) \in Keys /\ Own(t).kind = "package"
         /\ Own(t).name = thread[t].name /\ Own(t).stat = thread[t].stat
         /\ Own(t).voice = VoiceOf[thread[t].manifest]
         /\ Own(t).engine = BuiltFor[thread[t].manifest]
<1>1. thread[t].stat \in Versions
  BY DEF TypeOK
<1>2. VoiceOf[thread[t].manifest] \in Voices
      /\ BuiltFor[thread[t].manifest] \in {BuiltFor[v] : v \in Versions}
  BY DEF Voices
<1>3. Own(t) \in [kind : {"package"}, voice : Voices, engine : {BuiltFor[v] : v \in Versions},
                  name : Names, stat : Versions]
  BY <1>1, <1>2 DEF Own, PackageKey
<1> QED
  BY <1>3 DEF Own, PackageKey, Keys

LEMMA SharedCondition ==
  ASSUME SharedInv, NEW t \in Threads, Condition(t)
  PROVE  SharedInv'
<1> USE VersionsAssumption
<1>0. /\ thread[t].pc = "condition" /\ thread[t].job = "speak" /\ thread[t] \in Requests /\ run = t
      /\ thread[t].name \in Names /\ thread[t].manifest \in Versions
      /\ thread[t].stat \in Versions /\ thread[t].source \in Versions
      /\ UNCHANGED <<store, manifests, resident, run, swapped, steady>> /\ TypeOK
  BY DEF SharedInv, TypeOK, RequestInv, Condition, Holding
<1>1. CASE /\ Become(t, [thread[t] EXCEPT !.pc = "generate"]) /\ key' = Own(t)
           /\ conds' = [of |-> thread[t].source, model |-> BuiltFor[thread[t].source]]
  <2> DEFINE r == [thread[t] EXCEPT !.pc = "generate"]
  <2>1. r \in Requests /\ r.pc = "generate" /\ r.job = "speak"
    BY <1>0 DEF Requests, Holding
  <2>2. RequestInv(t)'
    BY <1>0, <1>1, <2>1 DEF SharedInv, TypeOK, Become, RequestInv, Requests, Holding
  <2>3. key' \in Keys
    BY <1>0, <1>1, OwnTyped
  <2>4. CachedInv'
    BY <1>0, <2>3 DEF SharedInv, CachedInv
  <2>5. conds' \in [of : Versions \cup {Absent, Clip, Builtin},
                    model : Models \cup {"v3-old", "foreign", "none"}]
    BY <1>0, <1>1
  <2> QED
    BY <1>0, <1>1, <2>1, <2>2, <2>3, <2>4, <2>5, SharedStep DEF TypeOK
<1>2. CASE /\ Become(t, [thread[t] EXCEPT !.pc = "prepare"]) /\ UNCHANGED key
           /\ conds' = NoConds
  <2> DEFINE r == [thread[t] EXCEPT !.pc = "prepare"]
  <2>1. r \in Requests /\ r.pc = "prepare" /\ r.job = "speak"
    BY <1>0 DEF Requests, Holding
  <2>2. RequestInv(t)'
    BY <1>0, <1>2, <2>1 DEF SharedInv, TypeOK, Become, RequestInv, Requests, Holding
  <2>3. CachedInv'
    BY <1>0, <1>2 DEF SharedInv, CachedInv
  <2>4. conds' \in [of : Versions \cup {Absent, Clip, Builtin},
                    model : Models \cup {"v3-old", "foreign", "none"}]
    BY <1>2 DEF NoConds
  <2> QED
    BY <1>0, <1>2, <2>1, <2>2, <2>3, <2>4, SharedStep DEF TypeOK
<1> QED
  BY <1>0, <1>1, <1>2 DEF Condition, Goto

LEMMA SharedPrepare ==
  ASSUME SharedInv, NEW t \in Threads, Prepare(t)
  PROVE  SharedInv'
<1> USE VersionsAssumption
<1>0. /\ thread[t].pc = "prepare" /\ thread[t].job \in {"speak", "compare", "build"}
      /\ thread[t] \in Requests /\ run = t /\ resident = thread[t].model
      /\ thread[t].source \in Versions \cup {Clip}
      /\ UNCHANGED <<store, manifests, resident, swapped, steady>> /\ TypeOK
  BY DEF SharedInv, TypeOK, RequestInv, Prepare, Holding, Requests
<1>1. CASE /\ Become(t, [thread[t] EXCEPT !.pc = "generate"]) /\ key' = KeyAfter(t)
           /\ conds' = [of |-> thread[t].source, model |-> resident] /\ UNCHANGED run
  <2> DEFINE r == [thread[t] EXCEPT !.pc = "generate"]
  <2>1. /\ r \in Requests /\ r.pc = "generate"
        /\ r.job = thread[t].job /\ r.source = thread[t].source /\ r.model = thread[t].model
    BY <1>0 DEF Requests, Holding
  <2>2. RequestInv(t)'
    BY <1>0, <1>1, <2>1 DEF SharedInv, TypeOK, Become, RequestInv, Requests, Holding
  <2>3. key' \in Keys
    <3>1. CASE thread[t].job = "speak"
      <4>1. /\ thread[t].name \in Names /\ thread[t].manifest \in Versions
            /\ thread[t].stat \in Versions
        BY <1>0, <3>1 DEF SharedInv, RequestInv, Holding
      <4> QED
        BY <1>0, <1>1, <3>1, <4>1, OwnTyped DEF KeyAfter
    <3>2. CASE thread[t].job # "speak"
      BY <1>1, <3>2 DEF KeyAfter, Transient, Keys
    <3> QED
      BY <3>1, <3>2
  <2>4. CachedInv'
    BY <1>0, <2>3 DEF SharedInv, CachedInv
  <2>5. conds' \in [of : Versions \cup {Absent, Clip, Builtin},
                    model : Models \cup {"v3-old", "foreign", "none"}]
    BY <1>0, <1>1 DEF TypeOK
  <2> QED
    BY <1>0, <1>1, <2>1, <2>2, <2>3, <2>4, <2>5, SharedStep DEF TypeOK
<1>2. CASE conds' \in {conds, NoConds} /\ UNCHANGED key /\ Release(t)
  <2>1. Idle \in Requests /\ Idle.pc = "idle" /\ Become(t, Idle) /\ run' = Nobody
    BY <1>2 DEF Idle, Requests, Release, Stop
  <2>2. RequestInv(t)'
    BY <1>0, <2>1 DEF SharedInv, TypeOK, Become, RequestInv, Idle, Holding
  <2>3. CachedInv'
    BY <1>0, <1>2 DEF SharedInv, CachedInv
  <2>4. conds' \in [of : Versions \cup {Absent, Clip, Builtin},
                    model : Models \cup {"v3-old", "foreign", "none"}]
    BY <1>0, <1>2 DEF NoConds, TypeOK
  <2> QED
    BY <1>0, <1>2, <2>1, <2>2, <2>3, <2>4, SharedStep DEF TypeOK
<1> QED
  BY <1>0, <1>1, <1>2 DEF Prepare, Goto

LEMMA SharedGenerate ==
  ASSUME SharedInv, NEW t \in Threads, Generate(t)
  PROVE  SharedInv'
<1> USE VersionsAssumption
<1>1. run = t /\ UNCHANGED <<store, manifests, gpu, swapped, steady>> /\ Stop(t) /\ run' = Nobody
  BY DEF SharedInv, RequestInv, Generate, Release, Holding
<1> QED
  BY <1>1, SharedStop

LEMMA SharedOmniEnds ==
  ASSUME SharedInv, NEW t \in Threads, OmniEnds(t)
  PROVE  SharedInv'
<1> USE VersionsAssumption
<1>1. run = t /\ UNCHANGED <<store, manifests, gpu, swapped, steady>> /\ Stop(t) /\ run' = Nobody
  BY DEF SharedInv, RequestInv, OmniEnds, Release, Holding
<1> QED
  BY <1>1, SharedStop

LEMMA SharedEvict ==
  ASSUME SharedInv, NEW t \in Threads, Evict(t)
  PROVE  SharedInv'
<1> USE VersionsAssumption
<1> DEFINE r == [thread[t] EXCEPT !.pc = "omni"]
<1>0. /\ thread[t].pc = "evict" /\ thread[t] \in Requests /\ run = t /\ Become(t, r)
      /\ resident' = "none" /\ conds' = NoConds /\ key' = NoKey
      /\ UNCHANGED <<store, manifests, run, swapped, steady>> /\ TypeOK
  BY DEF SharedInv, TypeOK, RequestInv, Evict, Goto, Holding
<1>1. r \in Requests /\ r.pc = "omni"
  BY <1>0 DEF Requests, Holding
<1>2. RequestInv(t)'
  BY <1>0, <1>1 DEF SharedInv, TypeOK, Become, RequestInv, Requests, Holding
<1>3. CachedInv'
  BY <1>0 DEF SharedInv, CachedInv, NoKey
<1>4. /\ resident' \in Models \cup {"none"} /\ key' \in Keys
      /\ conds' \in [of : Versions \cup {Absent, Clip, Builtin},
                     model : Models \cup {"v3-old", "foreign", "none"}]
  BY <1>0 DEF Keys, NoConds
<1> QED
  BY <1>0, <1>1, <1>2, <1>3, <1>4, SharedStep DEF TypeOK

LEMMA SharedNext == SharedInv /\ [Next]_vars => SharedInv'
<1> SUFFICES ASSUME SharedInv, [Next]_vars PROVE SharedInv'
  OBVIOUS
<1>1. CASE UNCHANGED vars
  BY <1>1 DEF vars, gpu, SharedInv, TypeOK, RequestInv, CachedInv, OmniVoiceAlone, AuditionIsExact
<1>2. ASSUME NEW n \in Names, NEW v \in Versions \cup {Absent}, Replace(n, v) PROVE SharedInv'
  BY <1>2, SharedReplace
<1>3. ASSUME NEW t \in Threads, Step(t) PROVE SharedInv'
  BY <1>3, SharedStat, SharedValidate, SharedExtract, SharedLock, SharedLoad, SharedEnsure,
     SharedFetch, SharedCondition, SharedPrepare, SharedGenerate, SharedEvict, SharedOmniEnds
  DEF Step
<1>4. ASSUME NEW t \in Threads, NEW n \in Names, NEW job \in {"speak", "compare", "omni"},
             Ask(t, job, n)
      PROVE SharedInv'
  BY <1>4, SharedAsk
<1>5. ASSUME NEW t \in Threads, NEW model \in Models, AskBuild(t, model) PROVE SharedInv'
  BY <1>5, SharedAskBuild
<1> QED
  BY <1>1, <1>2, <1>3, <1>4, <1>5 DEF Next

-----------------------------------------------------------------------------
(* Theorems, whatever replaces a package *)

LEMMA SharedAlways == Spec => []SharedInv
<1> QED
  BY SharedInit, SharedNext, PTL DEF Spec

\* Every variable keeps its type.
THEOREM TypeCorrect == Spec => []TypeOK
<1>1. SharedInv => TypeOK
  BY DEF SharedInv
<1> QED
  BY <1>1, SharedAlways, PTL

\* release_shared_model and the lock of synthesize_omnivoice_danish: no model is resident
\* while OmniVoice's process runs.
THEOREM OmniVoiceHasTheGpu == Spec => []OmniVoiceAlone
<1>1. SharedInv => OmniVoiceAlone
  BY DEF SharedInv
<1> QED
  BY <1>1, SharedAlways, PTL

\* build_artifacts, build_rost_danish_artifacts and synthesize_rost_danish speak with the
\* reference and the model they were called for, whatever other requests do.
THEOREM AuditionsAreExact == Spec => []AuditionIsExact
<1>1. SharedInv => AuditionIsExact
  BY DEF SharedInv
<1> QED
  BY <1>1, SharedAlways, PTL

-----------------------------------------------------------------------------
(* The caches and the speech they serve *)

ExactInv == SharedInv /\ CacheInv /\ SteadyInv /\ SteadySpeechIsExact

\* What remains to be shown of a step of one request.
LEMMA ExactStep ==
  ASSUME ExactInv, SharedInv', NEW t \in Threads, NEW r \in Requests, Become(t, r),
         UNCHANGED <<store, swapped>>, UNCHANGED gpu \/ run = t, KeyInv', ManifestInv',
         steady' \in SUBSET (steady \cup {t}),
         SourceRequest(r),
         t \in steady' /\ r.job = "speak" => SteadyRequest(r),
         t \in steady' /\ r.job = "speak" /\ r.pc = "generate" /\ Trusted(r.name, store[r.name]) =>
           /\ resident' = RuntimeSpec(store[r.name])
           /\ conds' = [of |-> store[r.name], model |-> resident']
  PROVE  ExactInv'
<1> USE VersionsAssumption
<1>1. thread'[t] = r /\ \A u \in Threads \ {t} : thread'[u] = thread[u]
  BY DEF ExactInv, SharedInv, TypeOK, Become
<1>2. \A u \in Threads \ {t} : thread[u].pc = "generate" => UNCHANGED gpu
  BY DEF ExactInv, SharedInv, RequestInv, Holding
<1>3. steady' \subseteq Threads
  BY DEF SharedInv, TypeOK
<1>4. SourceInv'
  BY <1>1 DEF ExactInv, CacheInv, SourceInv, SourceRequest, Trusted
<1>5. SteadyInv'
  BY <1>1, <1>3 DEF ExactInv, SteadyInv, SteadyRequest, Trusted
<1>6. SteadySpeechIsExact'
  BY <1>1, <1>2, <1>3 DEF ExactInv, SteadySpeechIsExact, Trusted, gpu
<1> QED
  BY <1>4, <1>5, <1>6 DEF ExactInv, CacheInv

\* A request that comes back keeps the caches as they are.
LEMMA ExactStop ==
  ASSUME ExactInv, SharedInv', NEW t \in Threads, Stop(t),
         UNCHANGED <<store, manifests, gpu, swapped, steady>>
  PROVE  ExactInv'
<1>1. Idle \in Requests /\ Idle.job # "speak" /\ Become(t, Idle) /\ SourceRequest(Idle)
  BY DEF Idle, Requests, Stop, SourceRequest
<1>2. KeyInv' /\ ManifestInv'
  BY DEF ExactInv, CacheInv, KeyInv, ManifestInv, Trusted, gpu
<1> QED
  BY <1>1, <1>2, ExactStep

LEMMA ExactInit == Init => ExactInv
<1> SUFFICES ASSUME Init PROVE ExactInv
  OBVIOUS
<1>1. CacheInv
  BY DEF Init, CacheInv, KeyInv, ManifestInv, SourceInv, SourceRequest, NoKey, NoManifest, Idle
<1>2. SteadyInv /\ SteadySpeechIsExact
  BY DEF Init, SteadyInv, SteadySpeechIsExact
<1> QED
  BY <1>1, <1>2, SharedInit DEF ExactInv

\* A replacement costs a version its trust only where a request is between its stat and its
\* reading; the caches are filled already, and speak of the files they were filled from.
LEMMA ExactReplace ==
  ASSUME ExactInv, NEW n \in Names, NEW v \in Versions \cup {Absent}, Replace(n, v), SharedInv'
  PROVE  ExactInv'
<1> USE VersionsAssumption
<1>1. /\ store' = [store EXCEPT ![n] = v]
      /\ swapped' = [swapped EXCEPT ![n] = @ \cup {thread[t].stat : t \in Reading(n)}]
      /\ steady' = {t \in steady : thread[t].name # n}
      /\ UNCHANGED <<manifests, gpu, run, thread>>
  BY DEF Replace
<1>2. SharedInv /\ TypeOK
  BY DEF ExactInv, SharedInv
<1>3. \A m \in Names : \A w : Trusted(m, w)' => Trusted(m, w)
  BY <1>1, <1>2 DEF TypeOK, Trusted
<1>4. KeyInv'
  <2>1. CASE key.kind = "package"
    <3>1. key.name \in Names
      BY <1>2, <2>1 DEF TypeOK, Keys, NoKey, Transient
    <3>2. Trusted(key.name, key.stat)' => Trusted(key.name, key.stat)
      BY <1>1, <1>3, <3>1 DEF Trusted, gpu
    <3> QED
      BY <1>1, <3>2 DEF ExactInv, CacheInv, KeyInv, gpu
  <2>2. CASE key.kind # "package"
    BY <1>1, <2>2 DEF KeyInv, gpu
  <2> QED
    BY <2>1, <2>2
<1>5. ManifestInv'
  <2>1. \A m \in Names : Trusted(m, manifests[m].stat)' => Trusted(m, manifests[m].stat)
    BY <1>1, <1>3 DEF Trusted
  <2> QED
    BY <1>1, <2>1 DEF ExactInv, CacheInv, ManifestInv
<1>6. ASSUME NEW t \in Threads, thread[t].job = "speak", thread[t].pc \in {"wait"} \cup Holding
      PROVE  thread[t].name \in Names
  BY <1>2, <1>6 DEF SharedInv, RequestInv
<1>7. SourceInv'
  <2> SUFFICES ASSUME NEW t \in Threads PROVE SourceRequest(thread[t])'
    BY <1>1 DEF SourceInv
  <2>1. SourceRequest(thread[t])
    BY DEF ExactInv, CacheInv, SourceInv
  <2>2. ASSUME thread[t].name \in Names, Trusted(thread[t].name, thread[t].stat)'
        PROVE  /\ Trusted(thread[t].name, thread[t].stat)
               /\ thread[t].pc \in {"validate", "fetch"} => thread[t].name # n
    BY <1>1, <1>2, <2>2 DEF TypeOK, Trusted, Reading
  <2> QED
    BY <1>1, <1>2, <2>1, <2>2 DEF SourceRequest, TypeOK, Trusted
<1>8. ASSUME NEW t \in steady', thread[t].job = "speak", thread[t].pc \in {"wait"} \cup Holding
      PROVE  /\ store'[thread[t].name] = store[thread[t].name]
             /\ swapped'[thread[t].name] = swapped[thread[t].name]
  BY <1>1, <1>2, <1>6, <1>8 DEF TypeOK
<1>9. SteadyInv'
  BY <1>1, <1>8 DEF ExactInv, SteadyInv, SteadyRequest, Trusted, Holding
<1>10. SteadySpeechIsExact'
  BY <1>1, <1>8 DEF ExactInv, SteadySpeechIsExact, Holding, gpu
<1> QED
  BY <1>4, <1>5, <1>7, <1>9, <1>10 DEF ExactInv, CacheInv

LEMMA ExactAsk ==
  ASSUME ExactInv, SharedInv', NEW t \in Threads, NEW n \in Names,
         NEW job \in {"speak", "compare", "omni"}, Ask(t, job, n)
  PROVE  ExactInv'
<1> DEFINE r == [Idle EXCEPT !.pc = "stat", !.job = job, !.name = n]
<1>1. r \in Requests /\ r.pc = "stat"
  BY DEF Requests, Idle
<1>2. KeyInv' /\ ManifestInv' /\ Become(t, r) /\ steady' \in SUBSET (steady \cup {t})
      /\ UNCHANGED <<store, gpu, swapped>>
  BY DEF Ask, ExactInv, CacheInv, KeyInv, ManifestInv, Trusted, gpu
<1> HIDE DEF r
<1>3. SteadyRequest(r) /\ SourceRequest(r)
  BY <1>1 DEF SteadyRequest, SourceRequest, Holding
<1> QED
  BY <1>1, <1>2, <1>3, ExactStep

LEMMA ExactAskBuild ==
  ASSUME ExactInv, SharedInv', NEW t \in Threads, NEW model \in Models, AskBuild(t, model)
  PROVE  ExactInv'
<1> DEFINE r == [Idle EXCEPT !.pc = "wait", !.job = "build", !.source = Clip, !.model = model]
<1>1. r \in Requests /\ r.job = "build" /\ SourceRequest(r)
  BY DEF Requests, Idle, SourceRequest
<1>2. KeyInv' /\ ManifestInv' /\ Become(t, r) /\ steady' \in SUBSET (steady \cup {t})
      /\ UNCHANGED <<store, gpu, swapped>>
  BY DEF AskBuild, ExactInv, CacheInv, KeyInv, ManifestInv, Trusted, gpu
<1> HIDE DEF r
<1> QED
  BY <1>1, <1>2, ExactStep

LEMMA ExactStat ==
  ASSUME ExactInv, NEW t \in Threads, Stat(t), SharedInv'
  PROVE  ExactInv'
<1> USE VersionsAssumption
<1> DEFINE n == thread[t].name
<1>0. /\ thread[t].pc = "stat" /\ n \in Names /\ thread[t] \in Requests /\ SharedInv
      /\ UNCHANGED <<store, manifests, gpu, run, swapped, steady>>
      /\ KeyInv' /\ ManifestInv'
  BY DEF ExactInv, SharedInv, TypeOK, RequestInv, Stat, CacheInv, KeyInv, ManifestInv, Trusted, gpu
<1>1. CASE Stop(t)
  BY <1>0, <1>1, ExactStop
<1>2. CASE store[n] # Absent /\ manifests[n].stat = store[n] /\ Known(t, manifests[n].manifest)
  <2>1. /\ manifests[n].manifest \in Versions
        /\ Trusted(n, store[n]) => manifests[n].manifest = store[n]
    BY <1>0, <1>2 DEF ExactInv, SharedInv, CachedInv, CacheInv, ManifestInv
  <2>2. PICK r \in Requests : /\ Become(t, r) /\ RequestInv(t)'
                              /\ r.pc \in {"idle", "stat", "extract", "wait"}
                              /\ r.pc = "wait" => r.manifest = manifests[n].manifest /\ r.name = n
    BY <1>0, <1>2, <2>1, KnownStep
  <2>3. SteadyRequest(r) /\ SourceRequest(r)
    BY <2>1, <2>2 DEF SteadyRequest, SourceRequest, Holding
  <2> QED
    BY <1>0, <2>2, <2>3, ExactStep
<1>3. CASE store[n] # Absent /\ Become(t, [thread[t] EXCEPT !.pc = "validate", !.stat = store[n]])
  <2> DEFINE r == [thread[t] EXCEPT !.pc = "validate", !.stat = store[n]]
  <2>1. r \in Requests /\ r.pc = "validate" /\ Become(t, r) /\ r.name = n /\ r.stat = store[n]
    BY <1>0, <1>3 DEF SharedInv, TypeOK, Requests
  <2> HIDE DEF r
  <2>2. SteadyRequest(r) /\ SourceRequest(r)
    BY <2>1 DEF SteadyRequest, SourceRequest, Holding
  <2> QED
    BY <1>0, <2>1, <2>2, ExactStep
<1> QED
  BY <1>1, <1>2, <1>3 DEF Stat

LEMMA ExactValidate ==
  ASSUME ExactInv, NEW t \in Threads, Validate(t), SharedInv'
  PROVE  ExactInv'
<1> USE VersionsAssumption
<1> DEFINE n == thread[t].name
<1>0. /\ thread[t].pc = "validate" /\ n \in Names /\ SharedInv
      /\ UNCHANGED <<store, gpu, run, swapped, steady>> /\ KeyInv'
  BY DEF ExactInv, SharedInv, RequestInv, Validate, CacheInv, KeyInv, Trusted, gpu
<1>1. CASE Stop(t) /\ UNCHANGED manifests
  BY <1>0, <1>1, ExactStop
<1>2. CASE /\ store[n] # Absent /\ Known(t, store[n])
           /\ manifests' = [manifests EXCEPT ![n] = [stat |-> thread[t].stat, manifest |-> store[n]]]
  <2>1. store[n] \in Versions
    BY <1>0, <1>2 DEF SharedInv, TypeOK
  <2>2. PICK r \in Requests : /\ Become(t, r) /\ RequestInv(t)'
                              /\ r.pc \in {"idle", "stat", "extract", "wait"}
                              /\ r.pc = "wait" => r.manifest = store[n] /\ r.name = n
    BY <1>0, <1>2, <2>1, KnownStep
  <2>3. ManifestInv'
    <3>1. Trusted(n, thread[t].stat) => store[n] = thread[t].stat
      BY <1>0 DEF ExactInv, CacheInv, SourceInv, SourceRequest
    <3>2. manifests \in [Names -> [stat : Versions \cup {Absent}, manifest : Versions \cup {Absent}]]
      BY <1>0 DEF SharedInv, TypeOK
    <3> QED
      BY <1>0, <1>2, <3>1, <3>2 DEF ExactInv, CacheInv, ManifestInv, Trusted
  <2>4. SteadyRequest(r) /\ SourceRequest(r)
    BY <2>2 DEF SteadyRequest, SourceRequest, Holding
  <2> QED
    BY <1>0, <2>2, <2>3, <2>4, ExactStep
<1> QED
  BY <1>1, <1>2 DEF Validate

LEMMA ExactExtract ==
  ASSUME ExactInv, NEW t \in Threads, Extract(t), SharedInv'
  PROVE  ExactInv'
<1> USE VersionsAssumption
<1>0. /\ thread[t].pc = "extract" /\ thread[t].job # "speak" /\ SharedInv /\ TypeOK'
      /\ UNCHANGED <<store, manifests, gpu, run, swapped, steady>>
      /\ KeyInv' /\ ManifestInv'
  BY DEF ExactInv, SharedInv, RequestInv, Extract, CacheInv, Trusted, KeyInv, ManifestInv, gpu
<1>1. thread[t] \in Requests /\ thread'[t] \in Requests /\ thread \in [Threads -> Requests]
  BY <1>0 DEF SharedInv, TypeOK
<1> DEFINE r == thread'[t]
<1>2. CASE Stop(t)
  BY <1>0, <1>2, ExactStop
<1>3. CASE Become(t, [thread[t] EXCEPT !.pc = "wait",
             !.source = IF thread[t].job = "compare" THEN store[thread[t].name] ELSE Absent,
             !.model = IF thread[t].job = "compare" THEN "roest" ELSE "none"])
  <2>1. Become(t, r) /\ r.job = thread[t].job /\ r.pc = "wait"
    BY <1>1, <1>3 DEF Become, Requests
  <2> HIDE DEF r
  <2>2. SourceRequest(r)
    BY <2>1 DEF SourceRequest
  <2> QED
    BY <1>0, <1>1, <2>1, <2>2, ExactStep DEF r
<1> QED
  BY <1>2, <1>3 DEF Extract

LEMMA ExactLock ==
  ASSUME ExactInv, NEW t \in Threads, Lock(t), SharedInv'
  PROVE  ExactInv'
<1> USE VersionsAssumption
<1> DEFINE pc == IF thread[t].job = "omni" THEN "evict" ELSE "load"
           r == [thread[t] EXCEPT !.pc = pc]
<1>0. /\ thread[t].pc = "wait" /\ thread[t] \in Requests /\ Become(t, r)
      /\ UNCHANGED <<store, manifests, gpu, swapped, steady>> /\ KeyInv' /\ ManifestInv'
  BY DEF ExactInv, SharedInv, TypeOK, Lock, Goto, CacheInv, Trusted, KeyInv, ManifestInv, gpu
<1>1. /\ r \in Requests /\ r.pc \in {"evict", "load"}
      /\ r.job = thread[t].job /\ r.manifest = thread[t].manifest /\ r.name = thread[t].name
  BY <1>0 DEF Requests, Holding
<1> HIDE DEF r
<1>2. t \in steady /\ r.job = "speak" => SteadyRequest(r)
  BY <1>0, <1>1 DEF ExactInv, SteadyInv, SteadyRequest
<1>3. SourceRequest(r)
  BY <1>1 DEF SourceRequest
<1> QED
  BY <1>0, <1>1, <1>2, <1>3, ExactStep

LEMMA ExactLoad ==
  ASSUME ExactInv, NEW t \in Threads, Load(t), SharedInv'
  PROVE  ExactInv'
<1> USE VersionsAssumption
<1> DEFINE next == IF thread[t].job = "speak" THEN "key" ELSE "prepare"
           r == [thread[t] EXCEPT !.pc = next]
<1>0. /\ thread[t].pc = "load" /\ thread[t] \in Requests /\ run = t
      /\ UNCHANGED <<store, manifests, swapped, steady>> /\ ManifestInv'
  BY DEF ExactInv, SharedInv, TypeOK, RequestInv, Load, Holding, CacheInv, Trusted, ManifestInv
<1>1. KeyInv'
  BY DEF Load, ExactInv, CacheInv, Trusted, KeyInv, NoKey, gpu
<1>2. CASE Become(t, r)
  <2>1. /\ r \in Requests /\ r.pc \in {"key", "prepare"} /\ (r.job = "speak" => r.pc = "key")
        /\ r.job = thread[t].job /\ r.manifest = thread[t].manifest /\ r.name = thread[t].name
    BY <1>0 DEF Requests, Holding
  <2> HIDE DEF r
  <2>2. t \in steady /\ r.job = "speak" => SteadyRequest(r)
    BY <1>0, <2>1 DEF ExactInv, SteadyInv, SteadyRequest, Holding
  <2>3. SourceRequest(r)
    BY <2>1 DEF SourceRequest
  <2> QED
    BY <1>0, <1>1, <1>2, <2>1, <2>2, <2>3, ExactStep
<1>3. CASE Release(t)
  <2>1. Idle \in Requests /\ Idle.job # "speak" /\ Become(t, Idle) /\ SourceRequest(Idle)
    BY <1>3 DEF Idle, Requests, Release, Stop, SourceRequest
  <2> QED
    BY <1>0, <1>1, <2>1, ExactStep
<1> QED
  BY <1>2, <1>3 DEF Load, Goto

LEMMA ExactEnsure ==
  ASSUME ExactInv, NEW t \in Threads, Ensure(t), SharedInv'
  PROVE  ExactInv'
<1> USE VersionsAssumption
<1> DEFINE n == thread[t].name
           k == PackageKey(n, store[n], thread[t].manifest)
           pc == IF Current(k) THEN "generate" ELSE "fetch"
           r == [thread[t] EXCEPT !.stat = store[n], !.pc = pc]
<1>0. /\ thread[t].pc = "key" /\ thread[t].job = "speak" /\ thread[t] \in Requests
      /\ n \in Names /\ store[n] \in Versions \cup {Absent}
      /\ UNCHANGED <<store, manifests, gpu, swapped, steady>> /\ KeyInv' /\ ManifestInv'
  BY DEF ExactInv, SharedInv, TypeOK, RequestInv, Ensure, Holding, CacheInv, Trusted, KeyInv, ManifestInv, gpu
<1>1. CASE Release(t)
  BY <1>0, <1>1, ExactStop DEF Release
<1>2. CASE store[n] # Absent /\ Become(t, r)
  <2>1. /\ r.job = "speak" /\ r.pc \in {"generate", "fetch"} /\ (r.pc = "generate" => Current(k))
        /\ r.stat = store[n] /\ r.name = n /\ r.manifest = thread[t].manifest
    BY <1>0 DEF Requests
  <2>2. r \in Requests
    BY <1>0 DEF Requests, Holding
  <2> HIDE DEF r
  <2>3. /\ t \in steady => SteadyRequest(r)
        /\ t \in steady /\ Trusted(n, store[n]) => thread[t].manifest = store[n]
    BY <1>0, <2>1 DEF ExactInv, SteadyInv, SteadyRequest, Holding
  <2>4. SourceRequest(r)
    BY <2>1 DEF SourceRequest
  <2>5. ASSUME t \in steady, r.pc = "generate", Trusted(n, store[n])
        PROVE  resident = RuntimeSpec(store[n]) /\ conds = [of |-> store[n], model |-> resident]
    <3>1. key = PackageKey(n, store[n], store[n]) /\ conds # NoConds
      BY <2>1, <2>3, <2>5 DEF Current
    <3>2. /\ key.kind = "package" /\ key.name = n /\ key.stat = store[n]
          /\ key.voice = VoiceOf[store[n]] /\ key.engine = BuiltFor[store[n]]
      BY <3>1 DEF PackageKey
    <3> QED
      BY <2>5, <3>1, <3>2 DEF ExactInv, CacheInv, KeyInv
  <2> QED
    BY <1>0, <1>2, <2>1, <2>2, <2>3, <2>4, <2>5, ExactStep DEF gpu
<1> QED
  BY <1>1, <1>2 DEF Ensure

LEMMA ExactFetch ==
  ASSUME ExactInv, NEW t \in Threads, Fetch(t), SharedInv'
  PROVE  ExactInv'
<1> USE VersionsAssumption
<1> DEFINE n == thread[t].name
           r == [thread[t] EXCEPT !.pc = "condition", !.source = store[n]]
<1>0. /\ thread[t].pc = "fetch" /\ thread[t].job = "speak" /\ thread[t] \in Requests
      /\ n \in Names /\ store[n] \in Versions \cup {Absent}
      /\ UNCHANGED <<store, manifests, gpu, swapped, steady>> /\ KeyInv' /\ ManifestInv'
  BY DEF ExactInv, SharedInv, TypeOK, RequestInv, Fetch, Holding, CacheInv, Trusted, KeyInv, ManifestInv, gpu
<1>1. CASE Release(t)
  BY <1>0, <1>1, ExactStop DEF Release
<1>2. CASE store[n] # Absent /\ Become(t, r)
  <2>1. /\ r.pc = "condition" /\ r.source = store[n] /\ r.name = n /\ r.stat = thread[t].stat
        /\ r.manifest = thread[t].manifest /\ r.job = "speak"
    BY <1>0 DEF Requests
  <2>2. r \in Requests
    BY <1>0, <1>2 DEF Requests, Holding
  <2> HIDE DEF r
  <2>3. t \in steady => SteadyRequest(r)
    BY <1>0, <2>1 DEF ExactInv, SteadyInv, SteadyRequest, Holding
  <2>4. SourceRequest(r)
    BY <1>0, <2>1 DEF ExactInv, CacheInv, SourceInv, SourceRequest
  <2> QED
    BY <1>0, <1>2, <2>1, <2>2, <2>3, <2>4, ExactStep
<1> QED
  BY <1>1, <1>2 DEF Fetch

\* What a speaking request knows when it has read the content of its package.
LEMMA ContentKnown ==
  ASSUME ExactInv, NEW t \in Threads, thread[t].pc \in {"condition", "prepare"},
         thread[t].job = "speak"
  PROVE  /\ run = t /\ resident = RuntimeSpec(thread[t].manifest) /\ thread[t].manifest \in Versions
         /\ Own(t).kind = "package" /\ Own(t).name = thread[t].name /\ Own(t).stat = thread[t].stat
         /\ Own(t).voice = VoiceOf[thread[t].manifest]
         /\ Own(t).engine = BuiltFor[thread[t].manifest]
         /\ thread[t].name \in Names
         /\ Trusted(thread[t].name, thread[t].stat) => thread[t].source = thread[t].stat
         /\ t \in steady /\ Trusted(thread[t].name, store[thread[t].name]) =>
              /\ thread[t].manifest = store[thread[t].name]
              /\ thread[t].stat = store[thread[t].name]
              /\ thread[t].source = store[thread[t].name]
<1>1. /\ run = t /\ resident = thread[t].model /\ thread[t].model = RuntimeSpec(thread[t].manifest)
      /\ thread[t].name \in Names /\ thread[t].manifest \in Versions
      /\ thread[t].stat \in Versions /\ TypeOK
  BY DEF ExactInv, SharedInv, RequestInv, Holding
<1>2. /\ Own(t).kind = "package" /\ Own(t).name = thread[t].name /\ Own(t).stat = thread[t].stat
      /\ Own(t).voice = VoiceOf[thread[t].manifest]
      /\ Own(t).engine = BuiltFor[thread[t].manifest]
  BY <1>1, OwnTyped
<1>3. Trusted(thread[t].name, thread[t].stat) => thread[t].source = thread[t].stat
  BY <1>1 DEF ExactInv, CacheInv, SourceInv, SourceRequest
<1>4. t \in steady => SteadyRequest(thread[t])
  BY DEF ExactInv, SteadyInv
<1> QED
  BY <1>1, <1>2, <1>3, <1>4 DEF SteadyRequest, Holding

LEMMA ExactCondition ==
  ASSUME ExactInv, NEW t \in Threads, Condition(t), SharedInv'
  PROVE  ExactInv'
<1> USE VersionsAssumption
<1>0. /\ thread[t].pc = "condition" /\ thread[t].job = "speak" /\ thread[t] \in Requests /\ run = t
      /\ UNCHANGED <<store, manifests, resident, run, swapped, steady>> /\ ManifestInv'
  BY DEF ExactInv, SharedInv, TypeOK, RequestInv, Condition, Holding, CacheInv, Trusted, ManifestInv
<1> DEFINE m == thread[t].manifest
           v == store[thread[t].name]
<1>1. CASE /\ Become(t, [thread[t] EXCEPT !.pc = "generate"]) /\ key' = Own(t) /\ Exact(m)
           /\ conds' = [of |-> thread[t].source, model |-> BuiltFor[thread[t].source]]
  <2> DEFINE r == [thread[t] EXCEPT !.pc = "generate"]
  <2>1. /\ r \in Requests /\ r.pc = "generate" /\ r.name = thread[t].name
        /\ r.manifest = m /\ r.stat = thread[t].stat
    BY <1>0 DEF Requests, Holding
  <2>2. KeyInv'
    BY <1>0, <1>1, ContentKnown DEF KeyInv, Trusted, Exact, RuntimeSpec
  <2> HIDE DEF r
  <2>3. t \in steady => SteadyRequest(r)
    BY <1>0, <2>1, ContentKnown DEF SteadyRequest, Holding
  <2>4. t \in steady /\ Trusted(thread[t].name, v) =>
          resident' = RuntimeSpec(v) /\ conds' = [of |-> v, model |-> resident']
    BY <1>0, <1>1, ContentKnown DEF Exact
  <2>5. Become(t, r)
    BY <1>1 DEF r
  <2>6. SourceRequest(r)
    BY <2>1 DEF SourceRequest
  <2> QED
    BY <1>0, <2>1, <2>2, <2>3, <2>4, <2>5, <2>6, ExactStep
<1>2. CASE Become(t, [thread[t] EXCEPT !.pc = "prepare"]) /\ UNCHANGED key /\ conds' = NoConds
  <2> DEFINE r == [thread[t] EXCEPT !.pc = "prepare"]
  <2>1. /\ r \in Requests /\ r.pc = "prepare" /\ r.name = thread[t].name /\ Become(t, r)
        /\ r.manifest = m /\ r.stat = thread[t].stat /\ r.source = thread[t].source
    BY <1>0, <1>2 DEF Requests, Holding
  <2>2. KeyInv'
    BY <1>2 DEF KeyInv, NoConds
  <2> HIDE DEF r
  <2>3. t \in steady => SteadyRequest(r)
    BY <1>0, <2>1, ContentKnown DEF SteadyRequest, Holding
  <2>4. SourceRequest(r)
    BY <1>0, <2>1, ContentKnown DEF SourceRequest
  <2> QED
    BY <1>0, <2>1, <2>2, <2>3, <2>4, ExactStep
<1> QED
  BY <1>0, <1>1, <1>2 DEF Condition, Goto

LEMMA ExactPrepare ==
  ASSUME ExactInv, NEW t \in Threads, Prepare(t), SharedInv'
  PROVE  ExactInv'
<1> USE VersionsAssumption
<1>0. /\ thread[t].pc = "prepare" /\ thread[t] \in Requests /\ run = t
      /\ UNCHANGED <<store, manifests, resident, swapped, steady>> /\ ManifestInv'
  BY DEF ExactInv, SharedInv, TypeOK, RequestInv, Prepare, Holding, CacheInv, Trusted, ManifestInv
<1> DEFINE v == store[thread[t].name]
<1>1. CASE /\ Become(t, [thread[t] EXCEPT !.pc = "generate"]) /\ key' = KeyAfter(t)
           /\ conds' = [of |-> thread[t].source, model |-> resident]
  <2> DEFINE r == [thread[t] EXCEPT !.pc = "generate"]
  <2>1. /\ r \in Requests /\ r.pc = "generate" /\ r.name = thread[t].name /\ Become(t, r)
        /\ r.job = thread[t].job /\ r.manifest = thread[t].manifest /\ r.stat = thread[t].stat
    BY <1>0, <1>1 DEF Requests, Holding
  <2>2. KeyInv'
    <3>1. CASE thread[t].job = "speak"
      BY <1>0, <1>1, <3>1, ContentKnown DEF KeyInv, Trusted, KeyAfter, RuntimeSpec
    <3>2. CASE thread[t].job # "speak"
      BY <1>1, <3>2 DEF KeyInv, KeyAfter, Transient
    <3> QED
      BY <3>1, <3>2
  <2> HIDE DEF r
  <2>3. t \in steady /\ r.job = "speak" => SteadyRequest(r)
    BY <1>0, <2>1, ContentKnown DEF SteadyRequest, Holding
  <2>4. t \in steady /\ r.job = "speak" /\ Trusted(r.name, v) =>
          resident' = RuntimeSpec(v) /\ conds' = [of |-> v, model |-> resident']
    BY <1>0, <1>1, <2>1, ContentKnown
  <2>5. SourceRequest(r)
    BY <2>1 DEF SourceRequest
  <2> QED
    BY <1>0, <2>1, <2>2, <2>3, <2>4, <2>5, ExactStep
<1>2. CASE conds' \in {conds, NoConds} /\ UNCHANGED key /\ Release(t)
  <2>1. Idle \in Requests /\ Idle.job # "speak" /\ Become(t, Idle) /\ SourceRequest(Idle)
    BY <1>2 DEF Idle, Requests, Release, Stop, SourceRequest
  <2>2. KeyInv'
    BY <1>0, <1>2 DEF ExactInv, CacheInv, Trusted, KeyInv
  <2> QED
    BY <1>0, <2>1, <2>2, ExactStep
<1> QED
  BY <1>0, <1>1, <1>2 DEF Prepare, Goto

LEMMA ExactEvict ==
  ASSUME ExactInv, NEW t \in Threads, Evict(t), SharedInv'
  PROVE  ExactInv'
<1> USE VersionsAssumption
<1> DEFINE r == [thread[t] EXCEPT !.pc = "omni"]
<1>0. /\ thread[t].pc = "evict" /\ thread[t].job # "speak" /\ thread[t] \in Requests /\ run = t
      /\ Become(t, r) /\ UNCHANGED <<store, manifests, run, swapped, steady>> /\ ManifestInv' /\ KeyInv'
  BY DEF ExactInv, SharedInv, TypeOK, RequestInv, Evict, Goto, Holding, CacheInv, Trusted, ManifestInv, KeyInv,
         NoKey
<1>1. r \in Requests /\ r.job # "speak" /\ r.pc = "omni"
  BY <1>0 DEF Requests, Holding
<1> HIDE DEF r
<1>2. SourceRequest(r)
  BY <1>1 DEF SourceRequest
<1> QED
  BY <1>0, <1>1, <1>2, ExactStep

LEMMA ExactNext == ExactInv /\ [Next]_vars => ExactInv'
<1> SUFFICES ASSUME ExactInv, [Next]_vars PROVE ExactInv'
  OBVIOUS
<1>0. SharedInv'
  BY SharedNext DEF ExactInv
<1>1. CASE UNCHANGED vars
  BY <1>0, <1>1 DEF vars, gpu, ExactInv, CacheInv, Trusted, KeyInv, ManifestInv, SourceInv, SourceRequest,
                    Trusted, SteadyInv, SteadyRequest, SteadySpeechIsExact
<1>2. ASSUME NEW n \in Names, NEW v \in Versions \cup {Absent}, Replace(n, v) PROVE ExactInv'
  BY <1>0, <1>2, ExactReplace
<1>3. ASSUME NEW t \in Threads, Step(t) PROVE ExactInv'
  <2>1. CASE Generate(t) \/ OmniEnds(t)
    BY <1>0, <2>1, ExactStop DEF Generate, OmniEnds, Release
  <2> QED
    BY <1>0, <1>3, <2>1, ExactStat, ExactValidate, ExactExtract, ExactLock, ExactLoad, ExactEnsure,
       ExactFetch, ExactCondition, ExactPrepare, ExactEvict
    DEF Step
<1>4. ASSUME NEW t \in Threads, NEW n \in Names, NEW job \in {"speak", "compare", "omni"},
             Ask(t, job, n)
      PROVE ExactInv'
  BY <1>0, <1>4, ExactAsk
<1>5. ASSUME NEW t \in Threads, NEW model \in Models, AskBuild(t, model) PROVE ExactInv'
  BY <1>0, <1>5, ExactAskBuild
<1> QED
  BY <1>1, <1>2, <1>3, <1>4, <1>5 DEF Next

LEMMA ExactAlways == Spec => []ExactInv
<1> QED
  BY ExactInit, ExactNext, PTL DEF Spec

\* synthesize: a request whose package is left alone is spoken with exactly that package,
\* whatever was installed, removed and put back before, unless that very file was once
\* replaced between the stat and the reading of a request.
THEOREM SteadySpeech == Spec => []SteadySpeechIsExact
<1>1. ExactInv => SteadySpeechIsExact
  BY DEF ExactInv
<1> QED
  BY <1>1, ExactAlways, PTL

\* _CONDITIONING_KEY and _VALIDATION_CACHE: with the same exception the caches never speak of
\* a file but the one they were filled from.
THEOREM CachesAreExact == Spec => []CacheInv
<1>1. ExactInv => CacheInv
  BY DEF ExactInv
<1> QED
  BY <1>1, ExactAlways, PTL
=============================================================================
