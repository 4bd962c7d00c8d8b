---------------------------- MODULE StateRestore ----------------------------
(***************************************************************************)
(* Moving a VoiceRig to another machine: state_migration.py (create,       *)
(* verify, restore) and migrate-state-windows.ps1, which stops the service *)
(* around it, binds the archive to a sidecar and starts the service again. *)
(*                                                                         *)
(* The export runs on the old rig, the import on the new one, where it may *)
(* be cut short at any step and tried again. Both read their files more    *)
(* than once. The script takes the service for stopped when /api/health    *)
(* does not answer in two seconds, which a busy service may fail to do: it *)
(* then goes on working meanwhile, as does one that somebody starts.       *)
(***************************************************************************)
EXTENDS Naturals, FiniteSets

CONSTANTS
  Names,     \* file names of packages
  Contents,  \* what a package file may hold
  Jobs,      \* job ids, numbered in the order of their names
  InputsOf,  \* the private source files a job lists
  VoiceOf,   \* the package its build publishes
  OldDisks,  \* what the disks hold at first: records of data, modelrig and default
  NewDisks,
  Absent,    \* no file, no name
  MaxWork,   \* bound: changes the two services make
  MaxFaults  \* bound: failing steps, damaged copies and crashes

Rigs == {"old", "new"}

\* The files of the portable state, by their names in an archive.
Package(n) == <<"voices", n>>
Record(j) == <<"jobs", j>>
Clip(j, c) == <<"jobs", j, c>>
Packages == {Package(n) : n \in Names}
Records == {Record(j) : j \in Jobs}
ClipsOf(j) == {Clip(j, c) : c \in InputsOf[j]}
Clips == UNION {ClipsOf(j) : j \in Jobs}
Members == Packages \cup Records \cup Clips

Paused == {"needs_speaker", "needs_reference"}
Resumable == {"queued", "running"} \cup Paused
Terminal == {"succeeded", "failed", "cancelled"}

\* What each file holds. Of a job's record only its state counts, of a clip that it is there.
Values == Contents \cup Resumable \cup Terminal \cup {"cancelling", "clip", "damaged", Absent}
IsFiles(f) ==
  /\ f \in [Members -> Values]
  /\ \A m \in Packages : f[m] \in Contents \cup {"damaged", Absent}
  /\ \A m \in Records : f[m] \in Resumable \cup Terminal \cup {"cancelling", "damaged", Absent}
  /\ \A m \in Clips : f[m] \in {"clip", "damaged", Absent}
Nothing == [m \in Members |-> Absent]
Held(f) == {m \in Members : f[m] # Absent}

IsDisk(d) ==
  /\ IsFiles(d.data)
  /\ d.modelrig \in [Names -> Contents \cup {"damaged", Absent}]
  /\ d.default \in Names \cup {Absent}

ASSUME RigsAssumption ==
  /\ Jobs \subseteq Nat
  /\ \A j \in Jobs : InputsOf[j] # {} /\ VoiceOf[j] \in Names
  /\ \A d \in OldDisks \cup NewDisks :
       IsDisk(d) /\ (d.default # Absent => d.modelrig[d.default] # Absent)
  /\ Absent \notin Names /\ Absent \notin Contents
  /\ Absent \notin Resumable \cup Terminal \cup {"cancelling", "damaged", "clip"}
  /\ MaxWork \in Nat /\ MaxFaults \in Nat

VARIABLES
  data,      \* data[r]: the files under VoiceRig's data directory of rig r
  modelrig,  \* modelrig[r]: the packages in ModelRig's directory
  default,   \* default[r]: the name in its default.txt
  up,        \* up[r]: the service of rig r is running
  quiet,     \* history: it has not been running since the script stopped it
  export,    \* the export on the old rig
  archive,   \* the archive and its sidecar there
  media,     \* the copies of them on the new rig
  import,    \* the import on the new rig
  works, faults

disks == <<data, modelrig, default>>
services == <<up, quiet>>
vars == <<disks, services, export, archive, media, import, works, faults>>

\* An archive: the digests of manifest.json, the members of the tar, the default package.
\* Its sidecar holds the digest of the archive, that is, of all of it.
NoArchive == [manifest |-> Nothing, tar |-> Nothing, default |-> Absent]
NoCopy == [archive |-> NoArchive, sidecar |-> NoArchive, placed |-> FALSE]

Before == [pc |-> "idle", was |-> FALSE, from |-> [n \in Names |-> "library"], todo |-> {},
           built |-> NoArchive]
Outside == [pc |-> "idle", force |-> FALSE, todo |-> {}]

Init ==
  /\ \E o \in OldDisks, w \in NewDisks :
       LET D(r) == IF r = "old" THEN o ELSE w IN
       /\ data = [r \in Rigs |-> D(r).data]
       /\ modelrig = [r \in Rigs |-> D(r).modelrig]
       /\ default = [r \in Rigs |-> D(r).default]
  /\ up \in [Rigs -> BOOLEAN]
  /\ quiet = [r \in Rigs |-> FALSE]
  /\ export = Before
  /\ archive = NoCopy /\ media = NoCopy
  /\ import = Outside
  /\ works = 0 /\ faults = 0

Fault == faults < MaxFaults /\ faults' = faults + 1

-----------------------------------------------------------------------------
(* The services, as far as the two scripts can tell what they do. *)

Complete(f, j) == ClipsOf(j) \subseteq Held(f)

\* recover(): what a start makes of the jobs it finds.
Recovered(f) ==
  LET Lost(j) == f[Record(j)] \in {"queued", "running"} /\ ~Complete(f, j) IN
  [m \in Members |->
     IF m \in Packages THEN f[m]
     ELSE LET j == m[2] s == f[Record(j)] IN
       IF m \in Clips
       THEN IF s = "cancelling" \/ Lost(j) THEN Absent ELSE f[m]
       ELSE IF s = "cancelling" THEN "cancelled"
       ELSE IF Lost(j) \/ (s \in Paused /\ ClipsOf(j) \cap Held(f) = {}) THEN "failed"
       ELSE IF s = "running" THEN "queued" ELSE s]

Start(r) ==
  /\ up' = [up EXCEPT ![r] = TRUE]
  /\ data' = [data EXCEPT ![r] = Recovered(data[r])]
  /\ quiet' = [quiet EXCEPT ![r] = FALSE]
  /\ UNCHANGED <<modelrig, default>>

StartByHand(r) ==
  /\ ~up[r] /\ Start(r) /\ UNCHANGED <<export, archive, media, import, works, faults>>

\* Stop-OwnedVoiceRig. No answer from /api/health is taken for no service.
Stop(r) ==
  \/ up' = [up EXCEPT ![r] = FALSE] /\ quiet' = [quiet EXCEPT ![r] = TRUE]
  \/ up[r] /\ UNCHANGED up /\ quiet' = [quiet EXCEPT ![r] = FALSE]

\* A build publishes its package, then installs it and is recorded, then its clips go. A
\* promotion replaces a package of ModelRig's directory only.
Publish(r, j, c) ==
  /\ data[r][Record(j)] \in {"queued", "running"} /\ Complete(data[r], j)
  /\ data' = [data EXCEPT ![r][Package(VoiceOf[j])] = c, ![r][Record(j)] = "running"]
  /\ UNCHANGED <<modelrig, default>>
Conclude(r, j) ==
  /\ data[r][Record(j)] = "running" /\ data[r][Package(VoiceOf[j])] # Absent
  /\ data' = [data EXCEPT ![r][Record(j)] = "succeeded"]
  /\ modelrig' = [modelrig EXCEPT ![r][VoiceOf[j]] = data[r][Package(VoiceOf[j])]]
  /\ default' = [default EXCEPT ![r] = VoiceOf[j]]
Cancel(r, j) ==
  /\ data[r][Record(j)] \in Resumable
  /\ data' = [data EXCEPT ![r][Record(j)] = IF @ \in Paused THEN "cancelled" ELSE "cancelling"]
  /\ UNCHANGED <<modelrig, default>>
Erase(r, j) ==
  /\ data[r][Record(j)] \in Terminal
  /\ data' = [data EXCEPT ![r] = [m \in Members |-> IF m \in ClipsOf(j) THEN Absent ELSE @[m]]]
  /\ UNCHANGED <<modelrig, default>>
Promote(r, n, c) ==
  /\ modelrig[r][n] # Absent
  /\ modelrig' = [modelrig EXCEPT ![r][n] = c]
  /\ UNCHANGED <<data, default>>

Work(r) ==
  /\ up[r] /\ works < MaxWork /\ works' = works + 1
  /\ \/ \E j \in Jobs, c \in Contents : Publish(r, j, c)
     \/ \E j \in Jobs : Conclude(r, j) \/ Cancel(r, j) \/ Erase(r, j)
     \/ \E n \in Names, c \in Contents : Promote(r, n, c)
  /\ UNCHANGED <<services, export, archive, media, import, faults>>

-----------------------------------------------------------------------------
(* The order of files: packages before jobs when they are collected, jobs  *)
(* before packages in the manifest, whose keys are sorted. A job's record  *)
(* comes right before its clips in both.                                   *)

JobFileBefore(k, m) ==
  /\ {k, m} \cap Packages = {}
  /\ k[2] < m[2] \/ (k[2] = m[2] /\ k \in Records /\ m \in Clips)
First(todo) ==
  {m \in todo : \A k \in todo : ~JobFileBefore(k, m) /\ ~(k \in Packages /\ m \notin Packages)}
FirstSorted(todo) ==
  {m \in todo : \A k \in todo : ~JobFileBefore(k, m) /\ ~(k \notin Packages /\ m \in Packages)}

-----------------------------------------------------------------------------
(* Export. *)

BeginExport ==
  /\ export.pc = "idle" /\ ~archive.placed
  /\ export' = [Before EXCEPT !.pc = "voices", !.was = up["old"]]
  /\ Stop("old")
  /\ UNCHANGED <<disks, archive, media, import, works, faults>>

ExportGoes(pc) == export' = [export EXCEPT !.pc = pc]

\* Mutant: the service is not started again.
ExportFailsForGood == ExportGoes("failed")

ExportFails == ExportGoes("restart")

\* A name found in both directories must have one content, and the default must be found.
InBoth(n) == data["old"][Package(n)] # Absent /\ modelrig["old"][n] # Absent
Ambiguous == \E n \in Names : InBoth(n) /\ data["old"][Package(n)] # modelrig["old"][n]

\* Mutant: what a promotion or a build has installed is taken to be in the library as well.
FoundInLibrary == {n \in Names : data["old"][Package(n)] # Absent}

Found == {n \in Names : data["old"][Package(n)] # Absent \/ modelrig["old"][n] # Absent}

\* _collect_voice_packages remembers where a package is, the library's copy first. The
\* contents are read again later.
CollectVoices ==
  /\ export.pc = "voices"
  /\ IF Ambiguous \/ default["old"] \notin Found \cup {Absent} THEN ExportFails
     ELSE export' = [export EXCEPT
            !.pc = "jobs",
            !.from = [n \in Names |->
                        IF data["old"][Package(n)] # Absent THEN "library" ELSE "modelrig"],
            !.todo = {Package(n) : n \in Found},
            !.built.default = default["old"]]
  /\ UNCHANGED <<disks, services, archive, media, import, works, faults>>

JobFiles(f) ==
  {Record(j) : j \in {i \in Jobs : f[Record(i)] # Absent}}
    \cup UNION {ClipsOf(j) : j \in {i \in Jobs : f[Record(i)] \in Resumable}}

\* _collect_jobs: every record, and the clips of a job that can still be resumed.
CollectJobs ==
  /\ export.pc = "jobs"
  /\ IF \E j \in Jobs : data["old"][Record(j)] \in Resumable /\ ~Complete(data["old"], j)
     THEN ExportFails
     ELSE export' = [export EXCEPT !.pc = "digest", !.todo = @ \cup JobFiles(data["old"])]
  /\ UNCHANGED <<disks, services, archive, media, import, works, faults>>

Source(m) ==
  IF m \in Packages /\ export.from[m[2]] = "modelrig" THEN modelrig["old"][m[2]]
                                                      ELSE data["old"][m]

\* _manifest_from_live: a second reading, for the digests.
Digest(m) ==
  /\ export.pc = "digest" /\ m \in First(export.todo)
  /\ IF Source(m) = Absent THEN ExportFails
     ELSE export' = [export EXCEPT !.todo = @ \ {m}, !.built.manifest[m] = Source(m)]
  /\ UNCHANGED <<disks, services, archive, media, import, works, faults>>

DigestsDone ==
  /\ export.pc = "digest" /\ export.todo = {}
  /\ export' = [export EXCEPT !.pc = "pack", !.todo = Held(export.built.manifest)]
  /\ UNCHANGED <<disks, services, archive, media, import, works, faults>>

\* tar.add: a third reading, into the temporary archive.
Pack(m) ==
  /\ export.pc = "pack" /\ m \in First(export.todo)
  /\ IF Source(m) = Absent THEN ExportFails
     ELSE export' = [export EXCEPT !.todo = @ \ {m}, !.built.tar[m] = Source(m)]
  /\ UNCHANGED <<disks, services, archive, media, import, works, faults>>

\* os.replace. It is verified where it is.
Place ==
  /\ export.pc = "pack" /\ export.todo = {}
  /\ archive' = [NoCopy EXCEPT !.archive = export.built, !.placed = TRUE]
  /\ ExportGoes("verify")
  /\ UNCHANGED <<disks, services, media, import, works, faults>>

\* Mutant: an inventory that is complete is enough.
JobsVerifiedByName(a) ==
  \A j \in Jobs : ClipsOf(j) \cap Held(a.tar) # {} => Record(j) \in Held(a.tar)

\* The states that count are those in the archive, not those that were collected.
JobsVerified(a) ==
  \A j \in Jobs : IF a.tar[Record(j)] \in Resumable THEN ClipsOf(j) \subseteq Held(a.tar)
                                                    ELSE ClipsOf(j) \cap Held(a.tar) = {}

Verified(a) ==
  /\ Held(a.tar) = Held(a.manifest)
  /\ a.tar = a.manifest
  /\ JobsVerified(a)
  /\ a.default # Absent => Package(a.default) \in Held(a.tar)

\* create verifies, and the script does so again before it writes the sidecar.
VerifyExport ==
  /\ export.pc = "verify"
  /\ IF Verified(archive.archive) THEN ExportGoes("seal") ELSE ExportFails
  /\ UNCHANGED <<disks, services, archive, media, import, works, faults>>

Seal ==
  /\ export.pc = "seal"
  /\ archive' = [archive EXCEPT !.sidecar = archive.archive]
  /\ ExportFails
  /\ UNCHANGED <<disks, services, media, import, works, faults>>

\* finally: the service runs again if it did before.
Restart ==
  /\ export.pc = "restart"
  /\ IF export.was /\ ~up["old"] THEN Start("old") ELSE UNCHANGED <<disks, services>>
  /\ export' = Before
  /\ UNCHANGED <<archive, media, import, works, faults>>

BreakExport ==
  /\ export.pc \notin {"idle", "restart"} /\ Fault
  /\ ExportFails
  /\ UNCHANGED <<disks, services, archive, media, import, works>>

\* Both files are copied to the new rig, as they are or damaged on the way.
Carry ==
  /\ export.pc = "idle" /\ archive.placed /\ import.pc = "idle"
  /\ \/ media' = archive /\ UNCHANGED faults
     \/ /\ Fault
        /\ \E m \in Held(archive.archive.tar), bad \in {"damaged", Absent} :
             media' = [archive EXCEPT !.archive.tar[m] = bad]
  /\ UNCHANGED <<disks, services, export, archive, import, works>>

-----------------------------------------------------------------------------
(* Import. *)

tar == media.archive.tar
named == media.archive.default
\* The jobs whose directories the archive fills.
ActiveJobs == {j \in Jobs : ClipsOf(j) \cap Held(tar) # {}}
ActiveClips == UNION {ClipsOf(j) : j \in ActiveJobs}

ImportGoes(pc) == import' = [import EXCEPT !.pc = pc]
ImportFails == import' = Outside

\* The sidecar and the whole archive are verified before the service is stopped.
BeginImport(force) ==
  /\ import.pc = "idle" /\ media.placed
  /\ media.sidecar = media.archive /\ Verified(media.archive)
  /\ import' = [Outside EXCEPT !.pc = "plan", !.force = force]
  /\ Stop("new")
  /\ UNCHANGED <<disks, export, archive, media, works, faults>>

\* Mutant: only the files of the library and of the jobs are in the way.
ClashesInLibrary ==
  (Held(tar) \cup ActiveClips) \cap Held(data["new"]) # {}

Clashes ==
  \/ (Held(tar) \cup ActiveClips) \cap Held(data["new"]) # {}
  \/ named # Absent /\ (modelrig["new"][named] # Absent \/ default["new"] # Absent)

\* restore: what is in the way, once. With --force the directories of the active jobs go.
Plan ==
  /\ import.pc = "plan"
  /\ IF Clashes /\ ~import.force THEN ImportFails
     ELSE import' = [import EXCEPT
            !.pc = "wipe", !.todo = IF import.force THEN ActiveClips \cap Held(data["new"]) ELSE {}]
  /\ UNCHANGED <<disks, services, export, archive, media, works, faults>>

Wipe(m) ==
  /\ import.pc = "wipe" /\ m \in import.todo
  /\ data' = [data EXCEPT !["new"][m] = Absent]
  /\ import' = [import EXCEPT !.todo = @ \ {m}]
  /\ UNCHANGED <<modelrig, default, services, export, archive, media, works, faults>>

\* Mutant: the clips are taken to be where they were.
WipedRecordsOnly ==
  /\ import.pc = "wipe" /\ import.todo = {}
  /\ import' = [import EXCEPT !.pc = "extract", !.todo = Held(tar) \ Clips]
  /\ UNCHANGED <<disks, services, export, archive, media, works, faults>>

Wiped ==
  /\ import.pc = "wipe" /\ import.todo = {}
  /\ import' = [import EXCEPT !.pc = "extract", !.todo = Held(tar)]
  /\ UNCHANGED <<disks, services, export, archive, media, works, faults>>

\* _extract_atomic, file by file: a temporary file beside the target, then os.replace.
Extract(m) ==
  /\ import.pc = "extract" /\ m \in FirstSorted(import.todo)
  /\ data' = [data EXCEPT !["new"][m] = tar[m]]
  /\ import' = [import EXCEPT !.todo = @ \ {m}]
  /\ UNCHANGED <<modelrig, default, services, export, archive, media, works, faults>>

Extracted ==
  /\ import.pc = "extract" /\ import.todo = {}
  /\ ImportGoes(IF named = Absent THEN "start" ELSE "install")
  /\ UNCHANGED <<disks, services, export, archive, media, works, faults>>

\* Mutant: the marker is written before its package is there.
MarkFirst ==
  /\ import.pc = "install"
  /\ IF data["new"][Package(named)] = Absent THEN ImportFails /\ UNCHANGED default
     ELSE /\ default' = [default EXCEPT !["new"] = named]
          /\ ImportGoes("mark")
  /\ UNCHANGED <<data, modelrig, services, export, archive, media, works, faults>>

\* Mutant: a package ModelRig has already is left there.
InstallDefaultIfMissing ==
  /\ import.pc = "install"
  /\ IF data["new"][Package(named)] = Absent THEN ImportFails /\ UNCHANGED modelrig
     ELSE /\ modelrig' = [modelrig EXCEPT !["new"][named] =
                            IF @ = Absent THEN data["new"][Package(named)] ELSE @]
          /\ ImportGoes("mark")
  /\ UNCHANGED <<data, default, services, export, archive, media, works, faults>>

\* The default voice, and no other, is copied on to ModelRig's directory.
InstallDefault ==
  /\ import.pc = "install"
  /\ IF data["new"][Package(named)] = Absent THEN ImportFails /\ UNCHANGED modelrig
     ELSE /\ modelrig' = [modelrig EXCEPT !["new"][named] = data["new"][Package(named)]]
          /\ ImportGoes("mark")
  /\ UNCHANGED <<data, default, services, export, archive, media, works, faults>>

MarkDefault ==
  /\ import.pc = "mark"
  /\ default' = [default EXCEPT !["new"] = named]
  /\ ImportGoes("start")
  /\ UNCHANGED <<data, modelrig, services, export, archive, media, works, faults>>

\* Only a restore that returned is followed by a start.
StartImported ==
  /\ import.pc = "start"
  /\ IF up["new"] THEN UNCHANGED <<disks, services>> ELSE Start("new")
  /\ import' = Outside
  /\ UNCHANGED <<export, archive, media, works, faults>>

\* Nothing is rolled back, and the service stays as it is.
BreakImport ==
  /\ import.pc \notin {"idle", "start"} /\ Fault
  /\ ImportFails
  /\ UNCHANGED <<disks, services, export, archive, media, works>>

-----------------------------------------------------------------------------
\* A rig loses power: its service and the script on it are gone.
Crash(r) ==
  /\ Fault
  /\ up' = [up EXCEPT ![r] = FALSE]
  /\ IF r = "old" THEN export' = Before /\ UNCHANGED import
                  ELSE import' = Outside /\ UNCHANGED export
  /\ UNCHANGED <<disks, quiet, archive, media, works>>

Exporting ==
  \/ BeginExport \/ CollectVoices \/ CollectJobs \/ DigestsDone \/ Place \/ VerifyExport
  \/ Seal \/ Restart \/ BreakExport \/ Carry
  \/ \E m \in Members : Digest(m) \/ Pack(m)
Importing ==
  \/ \E force \in BOOLEAN : BeginImport(force)
  \/ Plan \/ Wiped \/ Extracted \/ InstallDefault \/ MarkDefault \/ StartImported \/ BreakImport
  \/ \E m \in Members : Wipe(m) \/ Extract(m)

Next ==
  \/ Exporting \/ Importing
  \/ \E r \in Rigs : StartByHand(r) \/ Work(r) \/ Crash(r)

Spec == Init /\ [][Next]_vars

-----------------------------------------------------------------------------
(* Properties. *)

IsArchive(a) == IsFiles(a.manifest) /\ IsFiles(a.tar) /\ a.default \in Names \cup {Absent}
IsCopy(c) == IsArchive(c.archive) /\ IsArchive(c.sidecar) /\ c.placed \in BOOLEAN

\* The values of the variables.
TypeOK ==
  /\ \A r \in Rigs :
       /\ IsDisk([data |-> data[r], modelrig |-> modelrig[r], default |-> default[r]])
       /\ up[r] \in BOOLEAN /\ quiet[r] \in BOOLEAN
  /\ export.pc \in {"idle", "voices", "jobs", "digest", "pack", "verify", "seal", "restart"}
  /\ export.was \in BOOLEAN
  /\ export.from \in [Names -> {"library", "modelrig"}]
  /\ export.todo \subseteq Members
  /\ IsArchive(export.built) /\ IsCopy(archive) /\ IsCopy(media)
  /\ import.pc \in {"idle", "plan", "wipe", "extract", "install", "mark", "start"}
  /\ import.force \in BOOLEAN
  /\ import.todo \subseteq Members
  /\ works \in 0..MaxWork /\ faults \in 0..MaxFaults

\* Whatever the service of the old rig did meanwhile, a job that can be resumed is in a
\* sealed archive with all its clips, and clips of no other job are.
SealedJobsCanResume ==
  archive.placed /\ archive.sidecar = archive.archive =>
    \A j \in Jobs : IF archive.archive.tar[Record(j)] \in Resumable
                    THEN ClipsOf(j) \subseteq Held(archive.archive.tar)
                    ELSE ClipsOf(j) \cap Held(archive.archive.tar) = {}

\* With the service stopped, the archive that is sealed is the portable state of the rig:
\* every package of either directory, every record, the clips of the jobs that can be resumed,
\* the default.
Portable(m) ==
  CASE m \in Packages -> IF data["old"][m] # Absent THEN data["old"][m] ELSE modelrig["old"][m[2]]
    [] m \in Records -> data["old"][m]
    [] OTHER -> IF data["old"][Record(m[2])] \in Resumable THEN data["old"][m] ELSE Absent
ExportIsComplete ==
  export.pc = "restart" /\ archive.placed /\ archive.sidecar = archive.archive /\ quiet["old"] =>
    /\ \A m \in Members : archive.archive.tar[m] = Portable(m)
    /\ archive.archive.default = default["old"]

\* A restore that returned, perhaps after others that were cut short, has brought back all
\* that the old rig sealed, and its default voice is the same package in both directories.
ImportIsComplete ==
  import.pc = "start" /\ quiet["new"] =>
    /\ \A m \in Held(archive.archive.tar) : data["new"][m] = archive.archive.tar[m]
    /\ archive.archive.default # Absent =>
         /\ default["new"] = archive.archive.default
         /\ modelrig["new"][default["new"]] = data["new"][Package(default["new"])]

\* The start after the restore takes up every job the old rig could have resumed.
ImportedJobsResume ==
  [][StartImported /\ quiet["new"] =>
       \A j \in Jobs : archive.archive.tar[Record(j)] \in Resumable =>
                         data'["new"][Record(j)] \in Resumable]_vars

\* An import changes what the archive names and the directories of its jobs, nothing else.
\* Without --force it replaces and removes nothing at all.
NothingClobbered ==
  [][import' # import /\ import.pc # "start" =>
       /\ \A m \in Members : data'["new"][m] # data["new"][m] =>
            /\ m \in Held(tar) \cup ActiveClips
            /\ import.force \/ ~quiet["new"] \/ data["new"][m] = Absent
       /\ \A n \in Names : modelrig'["new"][n] # modelrig["new"][n] =>
            n = named /\ (import.force \/ ~quiet["new"] \/ modelrig["new"][n] = Absent)
       /\ default'["new"] # default["new"] =>
            import.force \/ ~quiet["new"] \/ default["new"] = Absent]_vars

\* Wherever an import was cut short, the default of the new rig is a package ModelRig has.
MarkerLeadsToPackage ==
  default["new"] # Absent => modelrig["new"][default["new"]] # Absent
=============================================================================
