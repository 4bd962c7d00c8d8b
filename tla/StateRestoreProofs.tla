------------------------- MODULE StateRestoreProofs -------------------------
(***************************************************************************)
(* Theorems about StateRestore, for every set of packages, jobs, disks and *)
(* every schedule of exports, imports, service work, failures and crashes. *)
(***************************************************************************)
EXTENDS StateRestore, TLAPS

Files == {f \in [Members -> Values] : IsFiles(f)}
Archives == [manifest : Files, tar : Files, default : Names \cup {Absent}]
Copies == [archive : Archives, sidecar : Archives, placed : BOOLEAN]
Exports ==
  [pc : {"idle", "voices", "jobs", "digest", "pack", "verify", "seal", "restart"},
   was : BOOLEAN, from : [Names -> {"library", "modelrig"}], todo : SUBSET Members,
   built : Archives]
Imports ==
  [pc : {"idle", "plan", "wipe", "extract", "install", "mark", "start"},
   force : BOOLEAN, todo : SUBSET Members]

\* The type invariant, as the provers like it.
Typed ==
  /\ data \in [Rigs -> Files]
  /\ modelrig \in [Rigs -> [Names -> Contents \cup {"damaged", Absent}]]
  /\ default \in [Rigs -> Names \cup {Absent}]
  /\ up \in [Rigs -> BOOLEAN] /\ quiet \in [Rigs -> BOOLEAN]
  /\ export \in Exports /\ import \in Imports
  /\ archive \in Copies /\ media \in Copies
  /\ works \in 0..MaxWork /\ faults \in 0..MaxFaults

-----------------------------------------------------------------------------
(* Files *)

\* What the file m may hold.
Fits(m, v) ==
  /\ v \in Values
  /\ m \in Packages => v \in Contents \cup {"damaged", Absent}
  /\ m \in Records => v \in Resumable \cup Terminal \cup {"cancelling", "damaged", Absent}
  /\ m \in Clips => v \in {"clip", "damaged", Absent}

LEMMA FilesByFit ==
  ASSUME NEW f
  PROVE  f \in Files <=> f \in [Members -> Values] /\ \A m \in Members : Fits(m, f[m])
BY DEF Files, IsFiles, Fits, Members

\* The names of files tell what they are.
LEMMA NamesOfFiles ==
  /\ \A n \in Names : Package(n) \in Packages /\ Package(n)[2] = n
  /\ \A j \in Jobs : Record(j) \in Records /\ Record(j)[2] = j /\ ClipsOf(j) \subseteq Clips
  /\ \A m \in Packages : m[2] \in Names /\ m = Package(m[2])
  /\ \A m \in Records : m[2] \in Jobs /\ m = Record(m[2])
  /\ \A m \in Clips : m[2] \in Jobs /\ m \in ClipsOf(m[2])
  /\ \A j \in Jobs : \A m \in ClipsOf(j) : m[2] = j
  /\ Packages \cap Records = {} /\ Packages \cap Clips = {} /\ Records \cap Clips = {}
  /\ Packages \subseteq Members /\ Records \subseteq Members /\ Clips \subseteq Members
<1>1. \A n \in Names : Package(n) \in Packages /\ Package(n)[2] = n /\ Package(n)[1] = "voices"
  BY DEF Package, Packages
<1>2. \A j \in Jobs : Record(j) \in Records /\ Record(j)[2] = j /\ Record(j)[1] = "jobs"
                      /\ DOMAIN Record(j) = 1..2
  BY DEF Record, Records
<1>3. \A j \in Jobs : \A m \in ClipsOf(j) :
        m \in Clips /\ m[2] = j /\ m[1] = "jobs" /\ DOMAIN m = 1..3
  BY DEF Clip, Clips, ClipsOf
<1>4. \A m \in Packages : m[2] \in Names /\ m = Package(m[2]) /\ m[1] = "voices"
  BY <1>1 DEF Packages
<1>5. \A m \in Records : m[2] \in Jobs /\ m = Record(m[2]) /\ m[1] = "jobs" /\ DOMAIN m = 1..2
  BY <1>2 DEF Records
<1>6. \A m \in Clips : m[2] \in Jobs /\ m \in ClipsOf(m[2]) /\ m[1] = "jobs" /\ DOMAIN m = 1..3
  BY <1>3 DEF Clips
<1>7. 1..2 # 1..3
  <2>1. 3 \in 1..3 /\ 3 \notin 1..2
    OBVIOUS
  <2> QED BY <2>1
<1>8. Packages \subseteq Members /\ Records \subseteq Members /\ Clips \subseteq Members
  BY DEF Members
<1> QED BY <1>1, <1>2, <1>3, <1>4, <1>5, <1>6, <1>7, <1>8

LEMMA FilesExcept ==
  ASSUME NEW f \in Files, NEW m \in Members, NEW v, Fits(m, v)
  PROVE  [f EXCEPT ![m] = v] \in Files
BY FilesByFit DEF Fits

LEMMA FilesHold ==
  ASSUME NEW f \in Files, NEW m \in Members
  PROVE  Fits(m, f[m])
BY FilesByFit

LEMMA EmptyFits == ASSUME NEW m \in Members PROVE Fits(m, Absent)
BY DEF Fits, Values

LEMMA NothingIsFiles == Nothing \in Files /\ Held(Nothing) = {}
BY FilesByFit, EmptyFits DEF Nothing, Held, Fits

\* A start leaves files of the same kinds.
LEMMA RecoveredIsFiles ==
  ASSUME NEW f \in Files
  PROVE  Recovered(f) \in Files
<1>1. \A m \in Members : Fits(m, Recovered(f)[m])
  <2> SUFFICES ASSUME NEW m \in Members PROVE Fits(m, Recovered(f)[m])
    OBVIOUS
  <2>1. CASE m \in Packages
    BY <2>1, FilesHold DEF Recovered
  <2>2. CASE m \in Clips
    BY <2>2, NamesOfFiles, FilesHold, EmptyFits DEF Recovered
  <2>3. CASE m \in Records
    <3>1. m = Record(m[2]) /\ m \notin Packages /\ m \notin Clips
      BY <2>3, NamesOfFiles
    <3>2. Recovered(f)[m] \in {f[m], "cancelled", "failed", "queued"}
      BY <3>1 DEF Recovered
    <3>3. \A s \in {"cancelled", "failed", "queued"} : Fits(m, s)
      BY <3>1, <2>3 DEF Fits, Values, Resumable, Terminal
    <3> QED BY <3>2, <3>3, FilesHold
  <2> QED BY <2>1, <2>2, <2>3 DEF Members
<1>2. Recovered(f) = [m \in Members |-> Recovered(f)[m]]
  BY DEF Recovered
<1> QED BY <1>1, <1>2, FilesByFit DEF Fits

-----------------------------------------------------------------------------
(* The values of the variables *)

DisksTyped ==
  /\ data \in [Rigs -> Files]
  /\ modelrig \in [Rigs -> [Names -> Contents \cup {"damaged", Absent}]]
  /\ default \in [Rigs -> Names \cup {Absent}]
ServicesTyped == up \in [Rigs -> BOOLEAN] /\ quiet \in [Rigs -> BOOLEAN]

LEMMA NoArchiveTyped == NoArchive \in Archives /\ NoCopy \in Copies /\ Before \in Exports
BY NothingIsFiles DEF NoArchive, NoCopy, Before, Archives, Copies, Exports

LEMMA StartTyped ==
  ASSUME NEW r \in Rigs, DisksTyped, ServicesTyped, Start(r)
  PROVE  DisksTyped' /\ ServicesTyped'
BY RecoveredIsFiles DEF DisksTyped, ServicesTyped, Start

LEMMA StopTyped ==
  ASSUME NEW r \in Rigs, ServicesTyped, Stop(r)
  PROVE  ServicesTyped'
BY DEF ServicesTyped, Stop

\* One file of one rig is given a value that fits it.
LEMMA FileWritten ==
  ASSUME NEW r \in Rigs, NEW m \in Members, NEW v, Fits(m, v), data \in [Rigs -> Files],
         data' = [data EXCEPT ![r][m] = v]
  PROVE  data' \in [Rigs -> Files]
<1>1. [data[r] EXCEPT ![m] = v] \in Files
  BY FilesExcept
<1> QED BY <1>1

LEMMA StatesFit ==
  ASSUME NEW j \in Jobs, NEW s \in Resumable \cup Terminal \cup {"cancelling"}
  PROVE  Fits(Record(j), s)
BY NamesOfFiles DEF Fits, Values

\* What the service of a rig does.
LEMMA WorkTyped ==
  ASSUME NEW r \in Rigs, Typed, Work(r)
  PROVE  DisksTyped'
<1> USE DEF DisksTyped
<1>0. DisksTyped BY DEF Typed
<1>1. ASSUME NEW j \in Jobs, NEW c \in Contents, Publish(r, j, c) PROVE DisksTyped'
  <2>1. VoiceOf[j] \in Names BY RigsAssumption
  <2>2. Fits(Package(VoiceOf[j]), c) /\ Package(VoiceOf[j]) \in Members
    BY <2>1, NamesOfFiles DEF Fits, Values
  <2>3. Fits(Record(j), "running") /\ Record(j) \in Members
    BY StatesFit, NamesOfFiles DEF Resumable
  <2>4. [data[r] EXCEPT ![Package(VoiceOf[j])] = c] \in Files
    BY <1>0, <2>2, FilesExcept
  <2>5. [[data[r] EXCEPT ![Package(VoiceOf[j])] = c] EXCEPT ![Record(j)] = "running"] \in Files
    BY <2>3, <2>4, FilesExcept
  <2>6. data' = [data EXCEPT ![r] =
           [[data[r] EXCEPT ![Package(VoiceOf[j])] = c] EXCEPT ![Record(j)] = "running"]]
    BY <1>1, <1>0 DEF Publish
  <2> QED BY <1>0, <1>1, <2>5, <2>6 DEF Publish
<1>2. ASSUME NEW j \in Jobs, Conclude(r, j) PROVE DisksTyped'
  <2>1. VoiceOf[j] \in Names BY RigsAssumption
  <2>2. data[r][Package(VoiceOf[j])] \in Contents \cup {"damaged", Absent}
    BY <1>0, <2>1, NamesOfFiles, FilesHold DEF Fits
  <2>3. data' \in [Rigs -> Files]
    BY <1>0, <1>2, FileWritten, StatesFit, NamesOfFiles DEF Conclude, Terminal
  <2> QED BY <1>0, <1>2, <2>1, <2>2, <2>3 DEF Conclude
<1>3. ASSUME NEW j \in Jobs, Cancel(r, j) PROVE DisksTyped'
  <2>1. PICK s \in {"cancelled", "cancelling"} : data' = [data EXCEPT ![r][Record(j)] = s]
    BY <1>0, <1>3 DEF Cancel
  <2>2. data' \in [Rigs -> Files]
    BY <1>0, <2>1, FileWritten, StatesFit, NamesOfFiles DEF Terminal
  <2> QED BY <1>0, <1>3, <2>2 DEF Cancel
<1>4. ASSUME NEW j \in Jobs, Erase(r, j) PROVE DisksTyped'
  <2>1. [m \in Members |-> IF m \in ClipsOf(j) THEN Absent ELSE data[r][m]] \in Files
    BY <1>0, FilesByFit, EmptyFits DEF Fits
  <2> QED BY <1>0, <1>4, <2>1 DEF Erase
<1>5. ASSUME NEW n \in Names, NEW c \in Contents, Promote(r, n, c) PROVE DisksTyped'
  BY <1>0, <1>5 DEF Promote
<1> QED BY <1>1, <1>2, <1>3, <1>4, <1>5 DEF Work

LEMMA InitTyped == Init => Typed
<1> SUFFICES ASSUME Init PROVE Typed
  OBVIOUS
<1>1. PICK o \in OldDisks, w \in NewDisks :
        /\ data = [r \in Rigs |-> (IF r = "old" THEN o ELSE w).data]
        /\ modelrig = [r \in Rigs |-> (IF r = "old" THEN o ELSE w).modelrig]
        /\ default = [r \in Rigs |-> (IF r = "old" THEN o ELSE w).default]
  BY DEF Init
<1>2. \A r \in Rigs : IsDisk(IF r = "old" THEN o ELSE w)
  BY RigsAssumption
<1>3. \A d : IsDisk(d) => d.data \in Files
  BY DEF IsDisk, Files, IsFiles
<1>4. DisksTyped
  BY <1>1, <1>2, <1>3 DEF DisksTyped, IsDisk
<1>5. Outside \in Imports
  BY DEF Outside, Imports
<1> QED BY <1>4, <1>5, NoArchiveTyped, RigsAssumption DEF Typed, DisksTyped, Init

\* What the new rig reads off the media.
LEMMA MediaTyped ==
  ASSUME Typed
  PROVE  tar \in Files /\ named \in Names \cup {Absent} /\ ActiveClips \subseteq Clips
BY DEF Typed, Copies, Archives, tar, named, ActiveClips, ActiveJobs, Clips

\* A step of the export that changes its place and nothing else of it.
LEMMA ExportGoing ==
  ASSUME Typed, NEW pc, ExportGoes(pc),
         pc \in {"idle", "voices", "jobs", "digest", "pack", "verify", "seal", "restart"}
  PROVE  /\ export' \in Exports /\ export'.pc = pc
         /\ export'.built = export.built /\ export'.todo = export.todo
         /\ export'.from = export.from /\ export'.was = export.was
BY DEF ExportGoes, Typed, Exports

LEMMA ExportFailing ==
  ASSUME Typed, ExportFails
  PROVE  /\ export' \in Exports /\ export'.pc = "restart"
         /\ export'.built = export.built /\ export'.todo = export.todo
         /\ export'.from = export.from /\ export'.was = export.was
BY ExportGoing DEF ExportFails

\* Where the steps of the export lead.
LEMMA CollectMoves ==
  ASSUME Typed
  PROVE  /\ BeginExport => export'.pc = "voices"
         /\ Restart => export'.pc = "idle"
         /\ CollectVoices => export'.pc \in {"jobs", "restart"}
         /\ CollectJobs => export'.pc \in {"digest", "restart"}
         /\ DigestsDone => export'.pc = "pack"
<1>1. DOMAIN export = {"pc", "was", "from", "todo", "built"}
  BY DEF Typed, Exports
<1>2. CollectVoices => export'.pc \in {"jobs", "restart"}
  BY <1>1, ExportFailing DEF CollectVoices
<1>3. CollectJobs => export'.pc \in {"digest", "restart"}
  BY <1>1, ExportFailing DEF CollectJobs
<1>4. DigestsDone => export'.pc = "pack"
  BY <1>1 DEF DigestsDone
<1>5. BeginExport => export'.pc = "voices"
  <2>1. DOMAIN Before = {"pc", "was", "from", "todo", "built"}
    BY DEF Before
  <2> QED BY <2>1 DEF BeginExport
<1>6. Restart => export'.pc = "idle"
  BY DEF Restart, Before
<1> QED BY <1>2, <1>3, <1>4, <1>5, <1>6

LEMMA FileMoves ==
  ASSUME Typed, NEW m \in Members
  PROVE  /\ Digest(m) => export'.pc \in {"digest", "restart"}
         /\ Pack(m) => export'.pc \in {"pack", "restart"}
<1>1. DOMAIN export = {"pc", "was", "from", "todo", "built"}
  BY DEF Typed, Exports
<1>2. Digest(m) => export'.pc \in {"digest", "restart"}
  BY <1>1, ExportFailing DEF Digest
<1>3. Pack(m) => export'.pc \in {"pack", "restart"}
  BY <1>1, ExportFailing DEF Pack
<1> QED BY <1>2, <1>3

LEMMA ExportingTyped ==
  ASSUME Typed, Exporting
  PROVE  Typed'
<1>1. CASE BeginExport
  <2>1. ServicesTyped'
    BY <1>1, StopTyped DEF BeginExport, Typed, ServicesTyped, Rigs
  <2>2. export' \in Exports
    BY <1>1, NoArchiveTyped DEF BeginExport, Typed, Exports, Rigs
  <2> QED BY <1>1, <2>1, <2>2 DEF BeginExport, Typed, ServicesTyped, disks
<1>2. CASE CollectVoices
  <2>1. default["old"] \in Names \cup {Absent}
    BY DEF Typed, Rigs
  <2>2. {Package(n) : n \in Found} \subseteq Members
    BY NamesOfFiles DEF Found
  <2>3. CASE ExportFails
    BY <1>2, <2>3, ExportFailing DEF CollectVoices, Typed, disks, services
  <2>4. CASE ~ExportFails
    <3>1. PICK from \in [Names -> {"library", "modelrig"}] :
            export' = [export EXCEPT !.pc = "jobs", !.from = from,
                                     !.todo = {Package(n) : n \in Found},
                                     !.built.default = default["old"]]
      BY <1>2, <2>4 DEF CollectVoices
    <3>2. export' \in Exports
      BY <3>1, <2>1, <2>2 DEF Typed, Exports, Archives
    <3> QED BY <1>2, <3>2 DEF CollectVoices, Typed, disks, services
  <2> QED BY <2>3, <2>4
<1>3. CASE CollectJobs
  <2>1. JobFiles(data["old"]) \subseteq Members
    BY NamesOfFiles DEF JobFiles
  <2>2. export' \in Exports
    <3>1. CASE ExportFails
      BY <3>1, ExportFailing
    <3>2. CASE export' = [export EXCEPT !.pc = "digest", !.todo = @ \cup JobFiles(data["old"])]
      BY <3>2, <2>1 DEF Typed, Exports
    <3> QED BY <1>3, <3>1, <3>2 DEF CollectJobs
  <2> QED BY <1>3, <2>2 DEF CollectJobs, Typed, disks, services
<1>4. ASSUME NEW m \in Members, Digest(m) \/ Pack(m)
      PROVE  Typed'
  <2>1. Fits(m, Source(m))
    <3>1. CASE m \in Packages
      <4>1. modelrig["old"][m[2]] \in Contents \cup {"damaged", Absent}
        BY <3>1, NamesOfFiles DEF Typed, Rigs
      <4>2. Fits(m, modelrig["old"][m[2]])
        BY <3>1, <4>1, NamesOfFiles DEF Fits, Values
      <4> QED BY <4>2, FilesHold DEF Source, Typed, Rigs
    <3>2. CASE m \notin Packages
      BY <3>2, FilesHold DEF Source, Typed, Rigs
    <3> QED BY <3>1, <3>2
  <2>2. /\ [export.built.manifest EXCEPT ![m] = Source(m)] \in Files
        /\ [export.built.tar EXCEPT ![m] = Source(m)] \in Files
    BY <2>1, FilesExcept DEF Typed, Exports, Archives
  <2>3. export' \in Exports
    <3>1. CASE ExportFails
      BY <3>1, ExportFailing
    <3>2. CASE export' = [export EXCEPT !.todo = @ \ {m}, !.built.manifest[m] = Source(m)]
      BY <3>2, <2>2 DEF Typed, Exports, Archives
    <3>3. CASE export' = [export EXCEPT !.todo = @ \ {m}, !.built.tar[m] = Source(m)]
      BY <3>3, <2>2 DEF Typed, Exports, Archives
    <3> QED BY <1>4, <3>1, <3>2, <3>3 DEF Digest, Pack
  <2> QED BY <1>4, <2>3 DEF Digest, Pack, Typed, disks, services
<1>5. CASE DigestsDone \/ VerifyExport \/ BreakExport
  <2>1. export' \in Exports
    <3>1. CASE DigestsDone
      BY <3>1 DEF DigestsDone, Typed, Exports, Held
    <3>2. CASE VerifyExport \/ BreakExport
      BY <3>2, ExportFailing, ExportGoing DEF VerifyExport, BreakExport
    <3> QED BY <1>5, <3>1, <3>2
  <2>2. faults' \in 0..MaxFaults
    BY <1>5, RigsAssumption DEF DigestsDone, VerifyExport, BreakExport, Fault, Typed
  <2> QED BY <1>5, <2>1, <2>2 DEF DigestsDone, VerifyExport, BreakExport, Typed, disks, services
<1>6. CASE Place
  <2>1. archive' \in Copies
    BY <1>6, NoArchiveTyped DEF Place, Typed, Copies, Exports
  <2> QED BY <1>6, <2>1 DEF Place, ExportGoes, Typed, Exports, disks, services
<1>7. CASE Seal
  <2>1. archive' \in Copies /\ export' \in Exports
    BY <1>7 DEF Seal, ExportFails, ExportGoes, Typed, Copies, Exports
  <2> QED BY <1>7, <2>1 DEF Seal, Typed, disks, services
<1>8. CASE Restart
  <2>1. DisksTyped' /\ ServicesTyped'
    BY <1>8, StartTyped DEF Restart, Typed, DisksTyped, ServicesTyped, Rigs, disks, services
  <2> QED BY <1>8, <2>1, NoArchiveTyped DEF Restart, Typed, DisksTyped, ServicesTyped
<1>9. CASE Carry
  <2>1. ASSUME NEW m \in Held(archive.archive.tar), NEW bad \in {"damaged", Absent},
               media' = [archive EXCEPT !.archive.tar[m] = bad]
        PROVE  media' \in Copies
    <3>1. m \in Members /\ Fits(m, bad)
      BY DEF Held, Fits, Values
    <3>2. [archive.archive.tar EXCEPT ![m] = bad] \in Files
      BY <3>1, FilesExcept DEF Typed, Copies, Archives
    <3> QED BY <2>1, <3>2 DEF Typed, Copies, Archives
  <2>2. media' \in Copies
    BY <1>9, <2>1 DEF Carry, Typed
  <2>3. faults' \in 0..MaxFaults
    BY <1>9, RigsAssumption DEF Carry, Fault, Typed
  <2> QED BY <1>9, <2>2, <2>3 DEF Carry, Typed, disks, services
<1> QED BY <1>1, <1>2, <1>3, <1>4, <1>5, <1>6, <1>7, <1>8, <1>9 DEF Exporting

\* Where the steps of the import lead.
LEMMA ImportMoves ==
  ASSUME Typed
  PROVE  /\ \A force \in BOOLEAN : BeginImport(force) => import'.pc = "plan" /\ import'.force = force
         /\ Plan => import'.pc \in {"idle", "wipe"}
         /\ Wiped => import'.pc = "extract" /\ import'.force = import.force
         /\ MarkDefault => import'.pc = "start" /\ import'.force = import.force
         /\ BreakImport \/ StartImported => import'.pc = "idle"
         /\ \A m \in Members :
              /\ Wipe(m) => import'.pc = "wipe" /\ import'.force = import.force
              /\ Extract(m) => import'.pc = "extract" /\ import'.force = import.force
<1>1. DOMAIN import = {"pc", "force", "todo"} /\ DOMAIN Outside = {"pc", "force", "todo"}
  BY DEF Typed, Imports, Outside
<1>2. \A force \in BOOLEAN : BeginImport(force) => import'.pc = "plan" /\ import'.force = force
  BY <1>1 DEF BeginImport
<1>3. Plan => import'.pc \in {"idle", "wipe"}
  <2> SUFFICES ASSUME Plan PROVE import'.pc \in {"idle", "wipe"}
    OBVIOUS
  <2>1. CASE Clashes /\ ~import.force
    BY <2>1 DEF Plan, ImportFails, Outside
  <2>2. CASE ~(Clashes /\ ~import.force)
    <3>1. PICK todo : import' = [import EXCEPT !.pc = "wipe", !.todo = todo]
      BY <2>2 DEF Plan
    <3> QED BY <1>1, <3>1
  <2> QED BY <2>1, <2>2
<1>4. Wiped => import'.pc = "extract" /\ import'.force = import.force
  BY <1>1 DEF Wiped
<1>5. MarkDefault => import'.pc = "start" /\ import'.force = import.force
  BY <1>1 DEF MarkDefault, ImportGoes
<1>6. BreakImport \/ StartImported => import'.pc = "idle"
  BY DEF BreakImport, StartImported, ImportFails, Outside
<1>7. \A m \in Members : Wipe(m) => import'.pc = "wipe" /\ import'.force = import.force
  BY <1>1 DEF Wipe
<1>8. \A m \in Members : Extract(m) => import'.pc = "extract" /\ import'.force = import.force
  BY <1>1 DEF Extract
<1> QED BY <1>2, <1>3, <1>4, <1>5, <1>6, <1>7, <1>8

LEMMA ImportingTyped ==
  ASSUME Typed, Importing
  PROVE  Typed'
<1>0. Outside \in Imports
  BY DEF Outside, Imports
<1>1. ASSUME NEW force \in BOOLEAN, BeginImport(force) PROVE Typed'
  <2>1. ServicesTyped'
    BY <1>1, StopTyped DEF BeginImport, Typed, ServicesTyped, Rigs
  <2>2. import' \in Imports
    BY <1>0, <1>1 DEF BeginImport, Imports
  <2> QED BY <1>1, <2>1, <2>2 DEF BeginImport, Typed, ServicesTyped, disks
<1>2. CASE Plan \/ Wiped \/ Extracted
  <2>1. import' \in Imports
    <3>1. CASE Plan
      <4>1. (IF import.force THEN ActiveClips \cap Held(data["new"]) ELSE {}) \subseteq Members
        BY DEF Held
      <4> QED BY <1>0, <3>1, <4>1 DEF Plan, ImportFails, Typed, Imports
    <3>2. CASE Wiped
      <4>1. Held(tar) \subseteq Members
        BY DEF Held
      <4> QED BY <3>2, <4>1 DEF Wiped, Typed, Imports
    <3>3. CASE Extracted
      BY <3>3 DEF Extracted, ImportGoes, Typed, Imports
    <3> QED BY <1>2, <3>1, <3>2, <3>3
  <2> QED BY <1>2, <2>1 DEF Plan, Wiped, Extracted, Typed, disks, services
<1>3. ASSUME NEW m \in Members, Wipe(m) \/ Extract(m) PROVE Typed'
  <2>1. Fits(m, Absent) /\ Fits(m, tar[m])
    BY EmptyFits, FilesHold, MediaTyped
  <2>2. data' \in [Rigs -> Files]
    BY <1>3, <2>1, FileWritten DEF Wipe, Extract, Typed, Rigs
  <2>3. import' \in Imports
    BY <1>3 DEF Wipe, Extract, Typed, Imports
  <2> QED BY <1>3, <2>2, <2>3 DEF Wipe, Extract, Typed, services
<1>4. CASE InstallDefault
  <2>1. import' \in Imports
    BY <1>0, <1>4 DEF InstallDefault, ImportFails, ImportGoes, Typed, Imports
  <2>2. named \in Names =>
          data["new"][Package(named)] \in Contents \cup {"damaged", Absent}
    BY NamesOfFiles, FilesHold DEF Fits, Typed, Rigs
  <2>3. modelrig' \in [Rigs -> [Names -> Contents \cup {"damaged", Absent}]]
    <3>1. CASE data["new"][Package(named)] = Absent
      BY <1>4, <3>1 DEF InstallDefault, Typed
    <3>2. CASE data["new"][Package(named)] # Absent
      BY <1>4, <2>2, <3>2 DEF InstallDefault, Typed, Rigs
    <3> QED BY <3>1, <3>2
  <2> QED BY <1>4, <2>1, <2>3 DEF InstallDefault, Typed, services
<1>5. CASE MarkDefault
  <2>1. import' \in Imports
    BY <1>5 DEF MarkDefault, ImportGoes, Typed, Imports
  <2>2. default' \in [Rigs -> Names \cup {Absent}]
    BY <1>5, MediaTyped DEF MarkDefault, Typed
  <2> QED BY <1>5, <2>1, <2>2 DEF MarkDefault, Typed, services
<1>6. CASE StartImported
  <2>1. DisksTyped' /\ ServicesTyped'
    BY <1>6, StartTyped DEF StartImported, Typed, DisksTyped, ServicesTyped, Rigs, disks, services
  <2> QED BY <1>0, <1>6, <2>1 DEF StartImported, Typed, DisksTyped, ServicesTyped
<1>7. CASE BreakImport
  <2>1. faults' \in 0..MaxFaults
    BY <1>7, RigsAssumption DEF BreakImport, Fault, Typed
  <2> QED BY <1>0, <1>7, <2>1 DEF BreakImport, ImportFails, Typed, disks, services
<1> QED BY <1>1, <1>2, <1>3, <1>4, <1>5, <1>6, <1>7 DEF Importing

\* What the file names are of concern to no other step: the values of the variables.
LEMMA NextTyped == Typed /\ [Next]_vars => Typed'
<1> SUFFICES ASSUME Typed, [Next]_vars PROVE Typed'
  OBVIOUS
<1>0. Outside \in Imports /\ Before \in Exports
  BY NoArchiveTyped DEF Outside, Imports
<1>1. ASSUME NEW r \in Rigs, StartByHand(r) PROVE Typed'
  <2>1. DisksTyped' /\ ServicesTyped'
    BY <1>1, StartTyped DEF StartByHand, Typed, DisksTyped, ServicesTyped
  <2> QED BY <1>1, <2>1 DEF StartByHand, Typed, DisksTyped, ServicesTyped
<1>2. ASSUME NEW r \in Rigs, Work(r) PROVE Typed'
  <2>1. DisksTyped'
    BY <1>2, WorkTyped
  <2>2. works' \in 0..MaxWork
    BY <1>2, RigsAssumption DEF Work, Typed
  <2> QED BY <1>2, <2>1, <2>2 DEF Work, Typed, DisksTyped, services
<1>3. ASSUME NEW r \in Rigs, Crash(r) PROVE Typed'
  <2>1. faults' \in 0..MaxFaults
    BY <1>3, RigsAssumption DEF Crash, Fault, Typed
  <2> QED BY <1>0, <1>3, <2>1 DEF Crash, Typed, disks
<1>4. CASE UNCHANGED vars
  BY <1>4 DEF vars, disks, services, Typed
<1> QED BY <1>1, <1>2, <1>3, <1>4, ExportingTyped, ImportingTyped DEF Next

LEMMA TypedIsEnough == Typed => TypeOK
BY DEF Typed, TypeOK, IsDisk, Files, Copies, Archives, IsCopy, IsArchive, Exports, Imports

LEMMA AlwaysTyped == Spec => []Typed
BY InitTyped, NextTyped, PTL DEF Spec

\* Every variable keeps to its kind of value: a file holds what a file of its name may hold,
\* an archive has nothing but files of the portable state.
THEOREM TypeCorrect == Spec => []TypeOK
BY AlwaysTyped, TypedIsEnough, PTL

-----------------------------------------------------------------------------
(* What the rigs leave alone of each other *)

\* The service that was stopped is down until somebody starts it.
QuietIsDown == \A r \in Rigs : quiet[r] => ~up[r]

Disk(r) == <<data[r], modelrig[r], default[r]>>

LEMMA StartFrame ==
  ASSUME DisksTyped, ServicesTyped, NEW r \in Rigs, Start(r)
  PROVE  /\ up'[r] /\ ~quiet'[r]
         /\ \A q \in Rigs \ {r} : Disk(q)' = Disk(q) /\ up'[q] = up[q] /\ quiet'[q] = quiet[q]
BY DEF DisksTyped, ServicesTyped, Start, Disk

LEMMA StopFrame ==
  ASSUME ServicesTyped, NEW r \in Rigs, Stop(r)
  PROVE  /\ quiet'[r] => ~up'[r]
         /\ \A q \in Rigs \ {r} : up'[q] = up[q] /\ quiet'[q] = quiet[q]
BY DEF ServicesTyped, Stop

LEMMA WorkFrame ==
  ASSUME Typed, NEW r \in Rigs, Work(r)
  PROVE  up[r] /\ \A q \in Rigs \ {r} : Disk(q)' = Disk(q)
<1>1. \A q \in Rigs \ {r} : data'[q] = data[q]
  BY DEF Typed, Work, Publish, Conclude, Cancel, Erase, Promote
<1>2. \A q \in Rigs \ {r} : modelrig'[q] = modelrig[q] /\ default'[q] = default[q]
  BY DEF Typed, Work, Publish, Conclude, Cancel, Erase, Promote
<1> QED BY <1>1, <1>2 DEF Work, Disk

\* The export touches nothing of the new rig but what it is brought on the media.
LEMMA ExportFrame ==
  ASSUME Typed, Exporting
  PROVE  /\ Disk("new")' = Disk("new") /\ import' = import
         /\ up'["new"] = up["new"] /\ quiet'["new"] = quiet["new"]
         /\ quiet'["old"] /\ QuietIsDown => ~up'["old"]
         /\ media' = media \/ Carry
<1> USE DEF Disk, Rigs
<1>0. DisksTyped /\ ServicesTyped
  BY DEF Typed, DisksTyped, ServicesTyped
<1>1. CASE BeginExport
  BY <1>0, <1>1, StopFrame DEF BeginExport, disks
<1>2. CASE Restart
  BY <1>0, <1>2, StartFrame DEF Restart, disks, services, QuietIsDown
<1>3. CASE Carry
  BY <1>3 DEF Carry, disks, services, QuietIsDown
<1>4. CASE CollectVoices \/ CollectJobs \/ DigestsDone \/ Place \/ VerifyExport \/ Seal \/ BreakExport
  BY <1>4 DEF CollectVoices, CollectJobs, DigestsDone, Place, VerifyExport, Seal, BreakExport,
              disks, services, QuietIsDown
<1>5. CASE \E m \in Members : Digest(m) \/ Pack(m)
  BY <1>5 DEF Digest, Pack, disks, services, QuietIsDown
<1> QED BY <1>1, <1>2, <1>3, <1>4, <1>5 DEF Exporting

\* The import touches nothing of the old rig, and not the media.
LEMMA ImportFrame ==
  ASSUME Typed, Importing
  PROVE  /\ Disk("old")' = Disk("old") /\ export' = export /\ archive' = archive /\ media' = media
         /\ up'["old"] = up["old"] /\ quiet'["old"] = quiet["old"]
         /\ quiet'["new"] /\ QuietIsDown => ~up'["new"]
<1> USE DEF Disk, Rigs
<1>0. DisksTyped /\ ServicesTyped
  BY DEF Typed, DisksTyped, ServicesTyped
<1>1. CASE \E force \in BOOLEAN : BeginImport(force)
  BY <1>0, <1>1, StopFrame DEF BeginImport, disks
<1>2. CASE StartImported
  BY <1>0, <1>2, StartFrame DEF StartImported, disks, services, QuietIsDown
<1>3. CASE Plan \/ Wiped \/ Extracted \/ BreakImport
  BY <1>3 DEF Plan, Wiped, Extracted, BreakImport, disks, services, QuietIsDown
<1>4. CASE InstallDefault \/ MarkDefault
  BY <1>4 DEF InstallDefault, MarkDefault, services, QuietIsDown, Typed
<1>5. CASE \E m \in Members : Wipe(m) \/ Extract(m)
  BY <1>5 DEF Wipe, Extract, services, QuietIsDown, Typed
<1> QED BY <1>1, <1>2, <1>3, <1>4, <1>5 DEF Importing

LEMMA QuietIsDownStep == Typed /\ QuietIsDown /\ [Next]_vars => QuietIsDown'
<1> SUFFICES ASSUME Typed, QuietIsDown, [Next]_vars PROVE QuietIsDown'
  OBVIOUS
<1>1. CASE Exporting
  BY <1>1, ExportFrame DEF QuietIsDown, Rigs
<1>2. CASE Importing
  BY <1>2, ImportFrame DEF QuietIsDown, Rigs
<1>3. ASSUME NEW r \in Rigs, StartByHand(r) PROVE QuietIsDown'
  BY <1>3, StartFrame DEF StartByHand, Typed, DisksTyped, ServicesTyped, QuietIsDown
<1>4. CASE \E r \in Rigs : Work(r) \/ Crash(r)
  BY <1>4 DEF Work, Crash, services, QuietIsDown, Typed
<1>5. CASE UNCHANGED vars
  BY <1>5 DEF vars, services, QuietIsDown
<1> QED BY <1>1, <1>2, <1>3, <1>4, <1>5 DEF Next

\* As long as the service of the new rig is down, only the import changes that rig.
LEMMA NewRigStill ==
  ASSUME Typed, QuietIsDown, [Next]_vars, quiet'["new"], ~Importing
  PROVE  /\ Disk("new")' = Disk("new") /\ quiet["new"]
         /\ import' = import \/ import' = Outside
         /\ media' = media \/ import.pc = "idle"
<1> USE DEF Rigs
<1>1. CASE Exporting
  BY <1>1, ExportFrame DEF Carry
<1>2. ASSUME NEW r \in Rigs, StartByHand(r) PROVE r = "old" /\ UNCHANGED <<import, media>>
  BY <1>2, StartFrame DEF StartByHand, Typed, DisksTyped, ServicesTyped
<1>3. ASSUME NEW r \in Rigs, StartByHand(r) PROVE Disk("new")' = Disk("new") /\ quiet["new"]
  BY <1>2, <1>3, StartFrame DEF StartByHand, Typed, DisksTyped, ServicesTyped
<1>4. ASSUME NEW r \in Rigs, Work(r)
      PROVE  Disk("new")' = Disk("new") /\ UNCHANGED <<import, media, quiet>>
  BY <1>4, WorkFrame DEF Work, services, QuietIsDown
<1>5. ASSUME NEW r \in Rigs, Crash(r)
      PROVE  /\ Disk("new")' = Disk("new") /\ UNCHANGED <<media, quiet>>
             /\ import' = import \/ import' = Outside
  BY <1>5 DEF Crash, disks, Disk
<1>6. CASE UNCHANGED vars
  BY <1>6 DEF vars, disks, services, Disk
<1> QED BY <1>1, <1>2, <1>3, <1>4, <1>5, <1>6 DEF Next

\* As long as the service of the old rig is down, nothing changes that rig.
LEMMA OldRigStill ==
  ASSUME Typed, QuietIsDown, [Next]_vars, quiet'["old"], ~Exporting
  PROVE  /\ Disk("old")' = Disk("old") /\ quiet["old"]
         /\ export' = export \/ export' = Before
         /\ archive' = archive
<1> USE DEF Rigs
<1>1. CASE Importing
  BY <1>1, ImportFrame
<1>2. ASSUME NEW r \in Rigs, StartByHand(r) PROVE r = "new" /\ UNCHANGED <<export, archive>>
  BY <1>2, StartFrame DEF StartByHand, Typed, DisksTyped, ServicesTyped
<1>3. ASSUME NEW r \in Rigs, StartByHand(r) PROVE Disk("old")' = Disk("old") /\ quiet["old"]
  BY <1>2, <1>3, StartFrame DEF StartByHand, Typed, DisksTyped, ServicesTyped
<1>4. ASSUME NEW r \in Rigs, Work(r)
      PROVE  Disk("old")' = Disk("old") /\ UNCHANGED <<export, archive, quiet>>
  BY <1>4, WorkFrame DEF Work, services, QuietIsDown
<1>5. ASSUME NEW r \in Rigs, Crash(r)
      PROVE  /\ Disk("old")' = Disk("old") /\ UNCHANGED <<archive, quiet>>
             /\ export' = export \/ export' = Before
  BY <1>5 DEF Crash, disks, Disk
<1>6. CASE UNCHANGED vars
  BY <1>6 DEF vars, disks, services, Disk
<1> QED BY <1>1, <1>2, <1>3, <1>4, <1>5, <1>6 DEF Next

\* Only the import changes its own state, but for a crash that ends it; the media are only
\* changed while there is none.
LEMMA ImportAlone ==
  ASSUME Typed, [Next]_vars, ~Importing
  PROVE  (import' = import \/ import' = Outside) /\ (media' = media \/ import.pc = "idle")
<1>1. CASE Exporting
  BY <1>1, ExportFrame DEF Carry
<1>2. CASE \E r \in Rigs : StartByHand(r) \/ Work(r) \/ Crash(r)
  BY <1>2 DEF StartByHand, Work, Crash
<1>3. CASE UNCHANGED vars
  BY <1>3 DEF vars
<1> QED BY <1>1, <1>2, <1>3 DEF Next

LEMMA ExportAlone ==
  ASSUME Typed, [Next]_vars, ~Exporting
  PROVE  (export' = export \/ export' = Before) /\ archive' = archive
<1>1. CASE Importing
  BY <1>1, ImportFrame
<1>2. CASE \E r \in Rigs : StartByHand(r) \/ Work(r) \/ Crash(r)
  BY <1>2 DEF StartByHand, Work, Crash
<1>3. CASE UNCHANGED vars
  BY <1>3 DEF vars
<1> QED BY <1>1, <1>2, <1>3 DEF Next

-----------------------------------------------------------------------------
(* The default voice of the new rig *)

\* A voice about to be named is one the archive names, and ModelRig has it by then.
MarkerInv ==
  /\ import.pc \in {"install", "mark"} => named # Absent
  /\ import.pc = "mark" => modelrig["new"][named] # Absent

\* The default changes to a voice ModelRig has, and no package of ModelRig's is ever removed.
LEMMA PackagesStay ==
  ASSUME Typed, [Next]_vars
  PROVE  /\ \A n \in Names : modelrig["new"][n] # Absent => modelrig'["new"][n] # Absent
         /\ \/ default'["new"] = default["new"]
            \/ MarkDefault
            \/ default'["new"] \in Names /\ modelrig'["new"][default'["new"]] # Absent
<1> USE DEF Rigs
<1>0. DisksTyped /\ ServicesTyped
  BY DEF Typed, DisksTyped, ServicesTyped
<1>1. CASE Exporting
  BY <1>1, ExportFrame DEF Disk
<1>2. CASE InstallDefault
  BY <1>2 DEF InstallDefault, Typed
<1>3. CASE MarkDefault
  BY <1>3 DEF MarkDefault
<1>4. CASE Importing /\ ~InstallDefault /\ ~MarkDefault
  BY <1>4 DEF Importing, BeginImport, Plan, Wiped, Extracted, StartImported, BreakImport,
              Wipe, Extract, Start, disks
<1>5. ASSUME NEW r \in Rigs, Work(r)
      PROVE  /\ \A n \in Names : modelrig["new"][n] # Absent => modelrig'["new"][n] # Absent
             /\ \/ default'["new"] = default["new"]
                \/ default'["new"] \in Names /\ modelrig'["new"][default'["new"]] # Absent
  <2>1. ASSUME NEW j \in Jobs, Conclude(r, j)
        PROVE  /\ \A n \in Names : modelrig["new"][n] # Absent => modelrig'["new"][n] # Absent
               /\ \/ default'["new"] = default["new"]
                  \/ default'["new"] \in Names /\ modelrig'["new"][default'["new"]] # Absent
    <3>1. VoiceOf[j] \in Names
      BY RigsAssumption
    <3> QED BY <1>0, <2>1, <3>1 DEF Conclude, DisksTyped
  <2>2. ASSUME NEW n \in Names, NEW c \in Contents, Promote(r, n, c)
        PROVE  /\ \A k \in Names : modelrig["new"][k] # Absent => modelrig'["new"][k] # Absent
               /\ default' = default
    BY <1>0, <2>2, RigsAssumption DEF Promote, DisksTyped
  <2> QED BY <1>5, <2>1, <2>2 DEF Work, Publish, Cancel, Erase
<1>6. CASE \E r \in Rigs : StartByHand(r) \/ Crash(r)
  BY <1>6 DEF StartByHand, Start, Crash, disks
<1>7. CASE UNCHANGED vars
  BY <1>7 DEF vars, disks
<1> QED BY <1>1, <1>2, <1>3, <1>4, <1>5, <1>6, <1>7 DEF Next

LEMMA MarkerInit == Init => MarkerInv /\ MarkerLeadsToPackage
<1> SUFFICES ASSUME Init PROVE MarkerInv /\ MarkerLeadsToPackage
  OBVIOUS
<1>1. MarkerInv
  BY DEF Init, Outside, MarkerInv
<1>2. PICK w \in NewDisks : modelrig["new"] = w.modelrig /\ default["new"] = w.default
  BY DEF Init, Rigs
<1> QED BY <1>1, <1>2, RigsAssumption DEF MarkerLeadsToPackage

LEMMA MarkerStep ==
  Typed /\ MarkerInv /\ MarkerLeadsToPackage /\ [Next]_vars => MarkerInv' /\ MarkerLeadsToPackage'
<1> SUFFICES ASSUME Typed, MarkerInv, MarkerLeadsToPackage, [Next]_vars
             PROVE  MarkerInv' /\ MarkerLeadsToPackage'
  OBVIOUS
<1>1. named \in Names \cup {Absent} /\ default["new"] \in Names \cup {Absent}
  BY MediaTyped DEF Typed, Rigs
<1>2. MarkerInv'
  <2>1. CASE ~Importing
    <3>1. import' = import \/ import' = Outside
      BY <2>1, ImportAlone
    <3>2. import'.pc \in {"install", "mark"} => import' = import /\ named' = named
      BY <2>1, <3>1, ImportAlone DEF Outside, named
    <3> QED BY <1>1, <3>1, <3>2, PackagesStay DEF MarkerInv
  <2>2. CASE Importing
    <3>1. named' = named
      BY <2>2, ImportFrame DEF named
    <3>2. CASE Extracted
      BY <3>1, <3>2 DEF Extracted, ImportGoes, MarkerInv, Typed, Imports
    <3>3. CASE InstallDefault
      <4>1. CASE data["new"][Package(named)] = Absent
        BY <3>3, <4>1 DEF InstallDefault, ImportFails, Outside, MarkerInv
      <4>2. CASE data["new"][Package(named)] # Absent
        <5>1. import'.pc = "mark" /\ named \in Names
          BY <1>1, <3>3, <4>2 DEF InstallDefault, ImportGoes, Typed, Imports, MarkerInv
        <5>2. modelrig'["new"][named] = data["new"][Package(named)]
          BY <3>3, <4>2, <5>1 DEF InstallDefault, Typed, Rigs
        <5> QED BY <1>1, <3>1, <3>3, <4>2, <5>1, <5>2, RigsAssumption DEF InstallDefault, MarkerInv
      <4> QED BY <4>1, <4>2
    <3>4. CASE ~Extracted /\ ~InstallDefault
      <4>1. import'.pc \notin {"install", "mark"}
        BY <2>2, <3>4, ImportMoves DEF Importing
      <4> QED BY <4>1 DEF MarkerInv
    <3> QED BY <3>2, <3>3, <3>4
  <2> QED BY <2>1, <2>2
<1>3. MarkerLeadsToPackage'
  <2>1. CASE MarkDefault
    <3>1. default'["new"] = named /\ modelrig'["new"][named] # Absent
      BY <1>1, <2>1 DEF MarkDefault, MarkerInv, Typed, Rigs
    <3> QED BY <3>1 DEF MarkerLeadsToPackage
  <2>2. CASE ~MarkDefault
    BY <1>1, <2>2, PackagesStay DEF MarkerLeadsToPackage
  <2> QED BY <2>1, <2>2
<1> QED BY <1>2, <1>3

\* Wherever imports were cut short and whatever ModelRig did meanwhile, the default of the new
\* rig is a package ModelRig has: the package comes before the marker, and nothing removes it.
THEOREM MarkerCorrect == Spec => []MarkerLeadsToPackage
BY AlwaysTyped, MarkerInit, MarkerStep, PTL DEF Spec

-----------------------------------------------------------------------------
(* What is sealed *)

\* Only what has been verified is about to be sealed.
SealInv == export.pc = "seal" => JobsVerified(archive.archive)

LEMMA NothingIsVerified == JobsVerified(NoArchive)
<1>1. \A j \in Jobs : NoArchive.tar[Record(j)] = Absent
  BY NamesOfFiles DEF NoArchive, Nothing
<1>2. Held(NoArchive.tar) = {}
  BY NothingIsFiles DEF NoArchive
<1> QED BY <1>1, <1>2, RigsAssumption DEF JobsVerified

LEMMA SealStep ==
  Typed /\ SealInv /\ SealedJobsCanResume /\ [Next]_vars => SealInv' /\ SealedJobsCanResume'
<1> SUFFICES ASSUME Typed, SealInv, SealedJobsCanResume, [Next]_vars
             PROVE  SealInv' /\ SealedJobsCanResume'
  OBVIOUS
<1>1. SealedJobsCanResume <=>
        (archive.placed /\ archive.sidecar = archive.archive => JobsVerified(archive.archive))
  BY DEF SealedJobsCanResume, JobsVerified
<1>2. SealedJobsCanResume' <=>
        (archive'.placed /\ archive'.sidecar = archive'.archive => JobsVerified(archive'.archive))
  BY DEF SealedJobsCanResume, JobsVerified
<1>3. CASE ~Exporting
  BY <1>1, <1>2, <1>3, ExportAlone DEF SealInv, Before
<1>4. CASE Place
  <2>1. archive'.sidecar = NoArchive /\ export'.pc = "verify"
    BY <1>4 DEF Place, NoCopy, ExportGoes, Typed, Exports
  <2> QED BY <1>2, <2>1, NothingIsVerified DEF SealInv
<1>5. CASE Seal
  <2>1. archive'.archive = archive.archive /\ export'.pc = "restart"
    BY <1>5, ExportFailing DEF Seal, Typed, Copies
  <2> QED BY <1>2, <1>5, <2>1 DEF SealInv, Seal
<1>6. CASE VerifyExport
  <2>1. archive' = archive /\ (export'.pc = "seal" => Verified(archive.archive))
    BY <1>6, ExportFailing, ExportGoing DEF VerifyExport
  <2> QED BY <1>1, <1>2, <2>1 DEF SealInv, Verified
<1>7. CASE Exporting /\ ~Place /\ ~Seal /\ ~VerifyExport
  <2>1. archive' = archive
    BY <1>7 DEF Exporting, BeginExport, CollectVoices, CollectJobs, DigestsDone, Restart,
                BreakExport, Carry, Digest, Pack
  <2>2. export'.pc = "seal" => export' = export
    <3>1. CASE BeginExport \/ Restart
      BY <3>1, CollectMoves
    <3>2. CASE CollectVoices \/ CollectJobs \/ DigestsDone
      BY <3>2, CollectMoves
    <3>3. CASE BreakExport \/ Carry
      BY <3>3, ExportFailing DEF BreakExport, Carry
    <3>4. ASSUME NEW m \in Members, Digest(m) \/ Pack(m) PROVE export'.pc # "seal"
      BY <3>4, FileMoves
    <3> QED BY <1>7, <3>1, <3>2, <3>3, <3>4 DEF Exporting
  <2> QED BY <1>1, <1>2, <2>1, <2>2 DEF SealInv
<1> QED BY <1>3, <1>4, <1>5, <1>6, <1>7

LEMMA SealInit == Init => SealInv /\ SealedJobsCanResume
BY DEF Init, SealInv, SealedJobsCanResume, Before, NoCopy

\* Whatever the service did while the archive was made, a job in a sealed archive that can be
\* resumed has all its clips there, and no other job has any: it is the archive that is
\* examined, not the rig.
THEOREM SealedJobsCorrect == Spec => []SealedJobsCanResume
BY AlwaysTyped, SealInit, SealStep, PTL DEF Spec

-----------------------------------------------------------------------------
(* What an import may change *)

\* What is to be wiped are clips of the jobs it brings, what is to be extracted is in the
\* archive. Without --force there is nothing to wipe, and nothing where the files, the
\* package and the marker will go.
PlanInv ==
  /\ import.pc = "wipe" => import.todo \subseteq ActiveClips
  /\ import.pc = "extract" => import.todo \subseteq Held(tar)
  /\ ~import.force /\ quiet["new"] =>
       /\ import.pc = "wipe" => import.todo = {} /\ \A m \in Held(tar) : data["new"][m] = Absent
       /\ import.pc = "extract" => \A m \in import.todo : data["new"][m] = Absent
       /\ import.pc \in {"wipe", "extract", "install"} /\ named # Absent =>
            modelrig["new"][named] = Absent /\ default["new"] = Absent
       /\ import.pc = "mark" => default["new"] = Absent

LEMMA PlanInvElsewhere ==
  ASSUME Typed, QuietIsDown, PlanInv, [Next]_vars, ~Importing
  PROVE  PlanInv'
<1>1. CASE import' = Outside
  BY <1>1 DEF Outside, PlanInv
<1>2. CASE import' # Outside
  <2>1. import' = import
    BY <1>2, ImportAlone
  <2>2. import.pc # "idle" => media' = media
    BY ImportAlone
  <2>3. quiet'["new"] => quiet["new"] /\ Disk("new")' = Disk("new")
    BY NewRigStill
  <2>4. import.pc # "idle" => tar' = tar /\ named' = named /\ ActiveClips' = ActiveClips
    BY <2>2 DEF tar, named, ActiveClips, ActiveJobs
  <2> QED BY <2>1, <2>3, <2>4 DEF PlanInv, Disk
<1> QED BY <1>1, <1>2

LEMMA PlanInvStep ==
  ASSUME Typed, QuietIsDown, MarkerInv, PlanInv, [Next]_vars
  PROVE  PlanInv'
<1> USE DEF Rigs
<1>0. CASE ~Importing
  BY <1>0, PlanInvElsewhere
<1>1. CASE Importing
  <2>0. tar' = tar /\ named' = named /\ ActiveClips' = ActiveClips
    BY <1>1, ImportFrame DEF tar, named, ActiveClips, ActiveJobs
  <2>00. /\ DOMAIN import = {"pc", "force", "todo"}
         /\ Held(tar) \subseteq Members /\ named \in Names \cup {Absent}
         /\ ActiveClips \subseteq Members
    BY MediaTyped, NamesOfFiles DEF Typed, Imports, Held
  <2>1. CASE \E force \in BOOLEAN : BeginImport(force)
    BY <2>1, ImportMoves DEF PlanInv
  <2>2. CASE Plan
    <3>1. CASE import' = Outside
      BY <3>1 DEF Outside, PlanInv
    <3>2. CASE import' # Outside
      <4>1. /\ import'.pc = "wipe" /\ import'.force = import.force
            /\ import'.todo = IF import.force THEN ActiveClips \cap Held(data["new"]) ELSE {}
        BY <2>00, <2>2, <3>2 DEF Plan, ImportFails
      <4>2. ~import.force => ~Clashes
        BY <2>2, <3>2 DEF Plan, ImportFails
      <4>3. ~Clashes =>
              /\ \A m \in Held(tar) : data["new"][m] = Absent
              /\ named # Absent => modelrig["new"][named] = Absent /\ default["new"] = Absent
        BY <2>00 DEF Clashes, Held
      <4>4. UNCHANGED disks
        BY <2>2 DEF Plan
      <4> HIDE DEF Clashes
      <4> QED BY <2>0, <4>1, <4>2, <4>3, <4>4 DEF PlanInv, disks
    <3> QED BY <3>1, <3>2
  <2>3. ASSUME NEW m \in Members, Wipe(m) PROVE PlanInv'
    <3>1. import'.pc = "wipe" /\ import'.force = import.force /\ import.pc = "wipe" /\ m \in import.todo
      BY <2>3, ImportMoves DEF Wipe
    <3>2. import'.todo = import.todo \ {m}
      BY <2>3, <2>00 DEF Wipe
    <3>3. quiet' = quiet
      BY <2>3 DEF Wipe, services
    <3> QED BY <2>0, <3>1, <3>2, <3>3 DEF PlanInv
  <2>4. CASE Wiped
    <3>1. import'.pc = "extract" /\ import'.force = import.force /\ import.pc = "wipe"
      BY <2>4, ImportMoves DEF Wiped
    <3>2. import'.todo = Held(tar)
      BY <2>4, <2>00 DEF Wiped
    <3>3. UNCHANGED <<disks, quiet>>
      BY <2>4 DEF Wiped, services
    <3> QED BY <2>0, <3>1, <3>2, <3>3 DEF PlanInv, disks
  <2>5. ASSUME NEW m \in Members, Extract(m) PROVE PlanInv'
    <3>1. /\ import'.pc = "extract" /\ import'.force = import.force
          /\ import.pc = "extract" /\ m \in import.todo
      BY <2>5, ImportMoves DEF Extract, FirstSorted
    <3>2. import'.todo = import.todo \ {m}
      BY <2>5, <2>00 DEF Extract
    <3>3. UNCHANGED <<modelrig, default, quiet>>
      BY <2>5 DEF Extract, services
    <3>4. \A k \in Members \ {m} : data'["new"][k] = data["new"][k]
      BY <2>5 DEF Extract, Typed, Files
    <3> QED BY <2>0, <2>00, <3>1, <3>2, <3>3, <3>4 DEF PlanInv
  <2>6. CASE Extracted
    <3>1. import'.pc \in {"start", "install"} /\ import'.force = import.force /\ import.pc = "extract"
      BY <2>6, <2>00 DEF Extracted, ImportGoes
    <3>2. UNCHANGED <<disks, quiet>>
      BY <2>6 DEF Extracted, services
    <3> QED BY <2>0, <3>1, <3>2 DEF PlanInv, disks
  <2>7. CASE InstallDefault
    <3>1. import' = Outside \/ (import'.pc = "mark" /\ import'.force = import.force)
      BY <2>7, <2>00 DEF InstallDefault, ImportFails, ImportGoes
    <3>2. UNCHANGED <<default, quiet>> /\ import.pc = "install" /\ named # Absent
      BY <2>7 DEF InstallDefault, services, MarkerInv
    <3> QED BY <3>1, <3>2 DEF PlanInv, Outside
  <2>8. CASE MarkDefault \/ StartImported \/ BreakImport
    BY <2>8, ImportMoves DEF PlanInv
  <2> QED BY <1>1, <2>1, <2>2, <2>3, <2>4, <2>5, <2>6, <2>7, <2>8 DEF Importing
<1> QED BY <1>0, <1>1

\* What a step may not do.
Clobbering ==
  import' # import /\ import.pc # "start" =>
       /\ \A m \in Members : data'["new"][m] # data["new"][m] =>
            /\ m \in Held(tar) \cup ActiveClips
            /\ import.force \/ ~quiet["new"] \/ data["new"][m] = Absent
       /\ \A n \in Names : modelrig'["new"][n] # modelrig["new"][n] =>
            n = named /\ (import.force \/ ~quiet["new"] \/ modelrig["new"][n] = Absent)
       /\ default'["new"] # default["new"] =>
            import.force \/ ~quiet["new"] \/ default["new"] = Absent

LEMMA NothingClobberedStep ==
  ASSUME Typed, MarkerInv, PlanInv, [Next]_vars
  PROVE  Clobbering
<1> USE DEF Rigs
<1>1. SUFFICES ASSUME import' # import, import.pc # "start", ~(UNCHANGED disks) PROVE Clobbering
  BY DEF Clobbering, disks
<1>2. Importing
  <2>1. ~Exporting
    BY <1>1, ExportFrame
  <2> QED BY <1>1, <2>1 DEF Next, StartByHand, Work, Crash, vars
<1>3. named \in Names \cup {Absent}
  BY MediaTyped
<1>4. ASSUME NEW m \in Members, Wipe(m) PROVE Clobbering
  <2>1. UNCHANGED <<modelrig, default>> /\ m \in import.todo /\ import.pc = "wipe"
    BY <1>4 DEF Wipe
  <2>2. \A k \in Members \ {m} : data'["new"][k] = data["new"][k]
    BY <1>4 DEF Wipe, Typed, Files
  <2> QED BY <2>1, <2>2 DEF Clobbering, PlanInv
<1>5. ASSUME NEW m \in Members, Extract(m) PROVE Clobbering
  <2>1. UNCHANGED <<modelrig, default>> /\ m \in import.todo /\ import.pc = "extract"
    BY <1>5 DEF Extract, FirstSorted
  <2>2. \A k \in Members \ {m} : data'["new"][k] = data["new"][k]
    BY <1>5 DEF Extract, Typed, Files
  <2> QED BY <2>1, <2>2 DEF Clobbering, PlanInv
<1>6. CASE InstallDefault
  <2>1. UNCHANGED <<data, default>> /\ import.pc = "install" /\ named \in Names
    BY <1>3, <1>6 DEF InstallDefault, MarkerInv
  <2>2. \A n \in Names \ {named} : modelrig'["new"][n] = modelrig["new"][n]
    BY <1>6, <2>1 DEF InstallDefault, Typed
  <2> QED BY <1>3, <2>1, <2>2, RigsAssumption DEF Clobbering, PlanInv
<1>7. CASE MarkDefault
  <2>1. UNCHANGED <<data, modelrig>> /\ import.pc = "mark"
    BY <1>7 DEF MarkDefault
  <2> QED BY <2>1 DEF Clobbering, PlanInv
<1>8. ~(Plan \/ Wiped \/ Extracted \/ StartImported \/ BreakImport \/ \E f \in BOOLEAN : BeginImport(f))
  BY <1>1 DEF Plan, Wiped, Extracted, StartImported, BreakImport, BeginImport
<1> QED BY <1>2, <1>4, <1>5, <1>6, <1>7, <1>8 DEF Importing

-----------------------------------------------------------------------------
(* What an import brings back *)

\* An archive is placed once. While it is made, it takes nothing that has no digest; it has one
\* sidecar, its own.
ArchiveInv ==
  /\ export.pc \in {"voices", "jobs", "digest", "pack"} => ~archive.placed
  /\ export.pc \in {"voices", "jobs", "digest"} => export.built.tar = Nothing
  /\ export.pc = "pack" =>
       export.todo \cup Held(export.built.tar) \subseteq Held(export.built.manifest)
  /\ archive.sidecar \in {NoArchive, archive.archive}
  /\ archive.archive.manifest = Nothing => archive.archive.tar = Nothing

LEMMA NothingHeld ==
  ASSUME NEW f \in Files, Held(f) = {}
  PROVE  f = Nothing
BY DEF Files, Held, Nothing

LEMMA ArchiveInit == Init => ArchiveInv
BY DEF Init, ArchiveInv, Before, NoCopy, NoArchive

LEMMA ArchiveStep ==
  ASSUME Typed, ArchiveInv, [Next]_vars
  PROVE  ArchiveInv'
<1> USE DEF Rigs
<1>0. /\ DOMAIN export = {"pc", "was", "from", "todo", "built"}
      /\ DOMAIN export.built = {"manifest", "tar", "default"}
      /\ export.built \in Archives /\ archive \in Copies
  BY DEF Typed, Exports, Archives
<1>1. CASE ~Exporting
  BY <1>1, ExportAlone DEF ArchiveInv, Before
<1>2. CASE BeginExport
  <2>1. /\ export'.pc = "voices" /\ export'.built = NoArchive
        /\ archive' = archive /\ ~archive.placed
    BY <1>2 DEF BeginExport, Before
  <2> QED BY <2>1 DEF ArchiveInv, NoArchive
<1>3. CASE CollectVoices \/ CollectJobs
  <2>1. export'.built.tar = export.built.tar
    <3>1. CASE ExportFails
      BY <3>1, ExportFailing
    <3>2. CASE ~ExportFails /\ CollectJobs
      BY <1>0, <3>2 DEF CollectJobs
    <3>3. CASE ~ExportFails /\ CollectVoices
      <4>1. PICK from, todo :
              export' = [export EXCEPT !.pc = "jobs", !.from = from, !.todo = todo,
                                       !.built.default = default["old"]]
        BY <3>3 DEF CollectVoices
      <4> QED BY <1>0, <4>1
    <3> QED BY <1>3, <3>1, <3>2, <3>3
  <2>2. archive' = archive /\ export'.pc \in {"jobs", "digest", "restart"}
    BY <1>3, CollectMoves DEF CollectVoices, CollectJobs
  <2>3. export.pc \in {"voices", "jobs"}
    BY <1>3 DEF CollectVoices, CollectJobs
  <2> QED BY <2>1, <2>2, <2>3 DEF ArchiveInv
<1>4. CASE DigestsDone
  <2>1. /\ export'.pc = "pack" /\ export'.todo = Held(export.built.manifest)
        /\ export'.built = export.built /\ archive' = archive /\ export.pc = "digest"
    BY <1>0, <1>4 DEF DigestsDone
  <2> QED BY <2>1, NothingIsFiles DEF ArchiveInv
<1>5. ASSUME NEW m \in Members, Digest(m) PROVE ArchiveInv'
  <2>1. archive' = archive /\ export'.pc \in {"digest", "restart"} /\ export.pc = "digest"
    BY <1>5, FileMoves DEF Digest
  <2>2. export'.built.tar = export.built.tar
    BY <1>0, <1>5, ExportFailing DEF Digest
  <2> QED BY <2>1, <2>2 DEF ArchiveInv
<1>6. ASSUME NEW m \in Members, Pack(m) PROVE ArchiveInv'
  <2>1. archive' = archive /\ export'.pc \in {"pack", "restart"} /\ export.pc = "pack" /\ m \in export.todo
    BY <1>6, FileMoves DEF Pack, First
  <2>2. CASE ExportFails
    BY <2>1, <2>2, ExportFailing DEF ArchiveInv
  <2>3. CASE export' = [export EXCEPT !.todo = @ \ {m}, !.built.tar[m] = Source(m)]
    <3>1. /\ export'.todo = export.todo \ {m} /\ export'.built.manifest = export.built.manifest
          /\ export'.built.tar = [export.built.tar EXCEPT ![m] = Source(m)]
      BY <1>0, <2>3
    <3>2. Held(export'.built.tar) \subseteq Held(export.built.tar) \cup {m}
      BY <1>0, <3>1 DEF Held, Archives, Files
    <3> QED BY <2>1, <3>1, <3>2 DEF ArchiveInv
  <2> QED BY <1>6, <2>2, <2>3 DEF Pack
<1>7. CASE Place
  <2>1. /\ archive'.archive = export.built /\ archive'.sidecar = NoArchive
        /\ export'.pc = "verify" /\ export.pc = "pack"
    BY <1>0, <1>7 DEF Place, NoCopy, ExportGoes
  <2>2. export.built.manifest = Nothing => export.built.tar = Nothing
    BY <1>0, <2>1, NothingHeld, NothingIsFiles DEF ArchiveInv, Archives
  <2> QED BY <2>1, <2>2 DEF ArchiveInv
<1>8. CASE VerifyExport \/ BreakExport \/ Carry \/ Restart
  <2>1. archive' = archive
    BY <1>8 DEF VerifyExport, BreakExport, Carry, Restart
  <2>2. export'.pc \in {"seal", "restart", "idle"} \/ export' = export
    BY <1>8, ExportFailing, ExportGoing, CollectMoves DEF VerifyExport, BreakExport, Carry
  <2> QED BY <2>1, <2>2 DEF ArchiveInv
<1>9. CASE Seal
  <2>1. archive'.archive = archive.archive /\ archive'.sidecar = archive.archive /\ export'.pc = "restart"
    BY <1>0, <1>9, ExportFailing DEF Seal, Copies
  <2> QED BY <2>1 DEF ArchiveInv
<1> QED BY <1>1, <1>2, <1>3, <1>4, <1>5, <1>6, <1>7, <1>8, <1>9 DEF Exporting

\* The media are copies of what was placed, and damage shows; an import works with what the
\* old rig has sealed.
MediaInv ==
  /\ media.placed =>
       /\ archive.placed
       /\ media.archive.manifest = archive.archive.manifest
       /\ media.archive.default = archive.archive.default
       /\ media.sidecar \in {NoArchive, archive.archive}
  /\ import.pc # "idle" =>
       media.placed /\ media.archive = archive.archive /\ JobsVerified(archive.archive)

LEMMA MediaInit == Init => MediaInv
BY DEF Init, MediaInv, NoCopy, Outside

LEMMA MediaStep ==
  ASSUME Typed, ArchiveInv, MediaInv, [Next]_vars
  PROVE  MediaInv'
<1>0. archive \in Copies /\ media \in Copies /\ archive.archive \in Archives /\ media.archive \in Archives
  BY DEF Typed, Copies
<1>1. CASE Importing
  <2>1. archive' = archive /\ media' = media
    BY <1>1, ImportFrame
  <2>2. ASSUME NEW force \in BOOLEAN, BeginImport(force)
        PROVE  media.placed /\ media.archive = archive.archive /\ JobsVerified(archive.archive)
    <3>1. media.placed /\ media.sidecar = media.archive /\ JobsVerified(media.archive)
      BY <2>2 DEF BeginImport, Verified
    <3>2. CASE media.sidecar = archive.archive
      BY <3>1, <3>2
    <3>3. CASE media.sidecar = NoArchive
      <4>1. archive.archive.manifest = Nothing /\ archive.archive.default = Absent
        BY <3>1, <3>3 DEF MediaInv, NoArchive
      <4>2. archive.archive.tar = Nothing
        BY <4>1 DEF ArchiveInv
      <4>3. archive.archive = NoArchive
        BY <1>0, <4>1, <4>2 DEF Archives, NoArchive
      <4> QED BY <3>1, <3>3, <4>3
    <3> QED BY <3>1, <3>2, <3>3 DEF MediaInv
  <2>3. CASE \E force \in BOOLEAN : BeginImport(force)
    BY <2>1, <2>2, <2>3 DEF MediaInv
  <2>4. CASE ~\E force \in BOOLEAN : BeginImport(force)
    <3>1. import.pc # "idle"
      BY <1>1, <2>4 DEF Importing, Plan, Wiped, Extracted, InstallDefault, MarkDefault, StartImported,
                        BreakImport, Wipe, Extract
    <3> QED BY <2>1, <3>1 DEF MediaInv
  <2> QED BY <2>3, <2>4
<1>2. CASE ~Importing /\ ~Exporting
  <2>1. archive' = archive
    BY <1>2, ExportAlone
  <2>2. media' = media
    BY <1>2 DEF Next, StartByHand, Work, Crash, vars
  <2>3. import' = import \/ import'.pc = "idle"
    BY <1>2, ImportAlone DEF Outside
  <2> QED BY <2>1, <2>2, <2>3 DEF MediaInv
<1>3. CASE Exporting
  <2>1. import' = import
    BY <1>3, ExportFrame
  <2>2. CASE Place
    <3>1. ~media.placed /\ import.pc = "idle"
      BY <2>2 DEF Place, ArchiveInv, MediaInv
    <3>2. media' = media
      BY <2>2 DEF Place
    <3> QED BY <2>1, <3>1, <3>2 DEF MediaInv
  <2>3. CASE Seal
    <3>1. archive'.archive = archive.archive /\ archive'.placed = archive.placed /\ media' = media
      BY <1>0, <2>3 DEF Seal, Copies
    <3> QED BY <2>1, <3>1 DEF MediaInv
  <2>4. CASE Carry
    <3>1. archive' = archive /\ archive.placed /\ import.pc = "idle"
      BY <2>4 DEF Carry
    <3>2. /\ media'.sidecar = archive.sidecar
          /\ media'.archive.manifest = archive.archive.manifest
          /\ media'.archive.default = archive.archive.default
      BY <1>0, <2>4 DEF Carry, Copies, Archives
    <3> QED BY <2>1, <3>1, <3>2 DEF MediaInv, ArchiveInv
  <2>5. CASE ~Place /\ ~Seal /\ ~Carry
    <3>1. archive' = archive
      BY <1>3, <2>5 DEF Exporting, BeginExport, CollectVoices, CollectJobs, DigestsDone, VerifyExport,
                        Restart, BreakExport, Digest, Pack
    <3>2. media' = media
      BY <1>3, <2>5, ExportFrame
    <3> QED BY <2>1, <3>1, <3>2 DEF MediaInv
  <2> QED BY <2>2, <2>3, <2>4, <2>5
<1> QED BY <1>1, <1>2, <1>3

\* How far a restore has come, as long as the service is down.
RestoredInv ==
  quiet["new"] =>
    /\ import.pc = "extract" => \A m \in Held(tar) \ import.todo : data["new"][m] = tar[m]
    /\ import.pc \in {"install", "mark", "start"} => \A m \in Held(tar) : data["new"][m] = tar[m]
    /\ import.pc = "mark" => modelrig["new"][named] = data["new"][Package(named)]
    /\ import.pc = "start" /\ named # Absent =>
         default["new"] = named /\ modelrig["new"][named] = data["new"][Package(named)]

LEMMA RestoredStep ==
  ASSUME Typed, QuietIsDown, MarkerInv, PlanInv, RestoredInv, [Next]_vars
  PROVE  RestoredInv'
<1> USE DEF Rigs
<1>0. CASE ~Importing
  <2>1. CASE import' = Outside
    BY <2>1 DEF Outside, RestoredInv
  <2>2. CASE import' # Outside
    <3>1. import' = import
      BY <1>0, <2>2, ImportAlone
    <3>2. quiet'["new"] => quiet["new"] /\ Disk("new")' = Disk("new")
      BY <1>0, NewRigStill
    <3>3. import.pc # "idle" => tar' = tar /\ named' = named
      BY <1>0, ImportAlone DEF tar, named
    <3> QED BY <3>1, <3>2, <3>3 DEF RestoredInv, Disk
  <2> QED BY <2>1, <2>2
<1>1. CASE Importing
  <2>0. tar' = tar /\ named' = named
    BY <1>1, ImportFrame DEF tar, named
  <2>00. /\ DOMAIN import = {"pc", "force", "todo"}
         /\ Held(tar) \subseteq Members /\ named \in Names \cup {Absent}
    BY MediaTyped DEF Typed, Imports, Held
  <2>1. CASE (\E force \in BOOLEAN : BeginImport(force)) \/ Plan \/ StartImported \/ BreakImport
    BY <2>1, ImportMoves DEF RestoredInv
  <2>2. ASSUME NEW m \in Members, Wipe(m) PROVE RestoredInv'
    BY <2>2, ImportMoves DEF RestoredInv
  <2>3. CASE Wiped
    <3>1. import'.pc = "extract" /\ import'.todo = Held(tar)
      BY <2>3, <2>00 DEF Wiped
    <3> QED BY <2>0, <3>1 DEF RestoredInv
  <2>4. ASSUME NEW m \in Members, Extract(m) PROVE RestoredInv'
    <3>1. import'.pc = "extract" /\ import.pc = "extract" /\ import'.todo = import.todo \ {m}
      BY <2>4, <2>00 DEF Extract
    <3>2. /\ data'["new"][m] = tar[m]
          /\ \A k \in Members \ {m} : data'["new"][k] = data["new"][k]
      BY <2>4 DEF Extract, Typed, Files
    <3>3. quiet' = quiet
      BY <2>4 DEF Extract, services
    <3> QED BY <2>0, <2>00, <3>1, <3>2, <3>3 DEF RestoredInv
  <2>5. CASE Extracted
    <3>1. /\ import'.pc = IF named = Absent THEN "start" ELSE "install"
          /\ import.pc = "extract" /\ import.todo = {}
      BY <2>5, <2>00 DEF Extracted, ImportGoes
    <3>2. UNCHANGED <<disks, quiet>>
      BY <2>5 DEF Extracted, services
    <3> QED BY <2>0, <3>1, <3>2 DEF RestoredInv, disks
  <2>6. CASE InstallDefault
    <3>1. CASE data["new"][Package(named)] = Absent
      BY <2>6, <3>1 DEF InstallDefault, ImportFails, Outside, RestoredInv
    <3>2. CASE data["new"][Package(named)] # Absent
      <4>1. /\ import'.pc = "mark" /\ import.pc = "install" /\ named \in Names
            /\ UNCHANGED <<data, quiet>>
        BY <2>6, <2>00, <3>2 DEF InstallDefault, ImportGoes, MarkerInv, services
      <4>2. modelrig'["new"][named] = data["new"][Package(named)]
        BY <2>6, <3>2, <4>1 DEF InstallDefault, Typed
      <4> QED BY <2>0, <4>1, <4>2 DEF RestoredInv
    <3> QED BY <3>1, <3>2
  <2>7. CASE MarkDefault
    <3>1. /\ import'.pc = "start" /\ import.pc = "mark"
          /\ default'["new"] = named /\ UNCHANGED <<data, modelrig, quiet>>
      BY <2>7, <2>00, ImportMoves DEF MarkDefault, Typed, services
    <3> QED BY <2>0, <3>1 DEF RestoredInv
  <2> QED BY <1>1, <2>1, <2>2, <2>3, <2>4, <2>5, <2>6, <2>7 DEF Importing
<1> QED BY <1>0, <1>1

LEMMA ImportIsCompleteNow ==
  ASSUME Typed, MediaInv, RestoredInv
  PROVE  ImportIsComplete
BY DEF MediaInv, RestoredInv, ImportIsComplete, tar, named

\* The start that follows takes up what could be resumed: all its files are there again.
LEMMA ImportedJobsResumeStep ==
  ASSUME Typed, QuietIsDown, MediaInv, RestoredInv, StartImported, quiet["new"],
         NEW j \in Jobs, archive.archive.tar[Record(j)] \in Resumable
  PROVE  data'["new"][Record(j)] \in Resumable
<1> DEFINE f == data["new"]
<1> USE DEF Rigs
<1>1. /\ tar = archive.archive.tar /\ JobsVerified(archive.archive)
      /\ \A m \in Held(tar) : f[m] = tar[m]
  BY DEF StartImported, MediaInv, RestoredInv, tar
<1>2. data'["new"] = Recovered(f)
  BY DEF StartImported, QuietIsDown, Start, Typed
<1>3. Record(j) \in Records /\ Record(j) \in Members /\ ClipsOf(j) \subseteq Members /\ Record(j)[2] = j
  BY NamesOfFiles
<1>4. f[Record(j)] \in Resumable
  BY <1>1, <1>3, RigsAssumption DEF Held
<1>5. ClipsOf(j) \subseteq Held(f)
  <2>1. ClipsOf(j) \subseteq Held(tar)
    BY <1>1 DEF JobsVerified
  <2> QED BY <1>1, <1>3, <2>1 DEF Held
<1>6. ClipsOf(j) \cap Held(f) # {}
  <2>1. PICK c : c \in InputsOf[j]
    BY RigsAssumption
  <2>2. Clip(j, c) \in ClipsOf(j)
    BY <2>1 DEF ClipsOf
  <2> QED BY <1>5, <2>2
<1>7. Record(j) \notin Packages /\ Record(j) \notin Clips
  BY <1>3, NamesOfFiles
<1>8. Recovered(f)[Record(j)] = IF f[Record(j)] = "running" THEN "queued" ELSE f[Record(j)]
  <2>1. f[Record(j)] # "cancelling"
    BY <1>4 DEF Resumable, Paused
  <2> QED BY <1>3, <1>5, <1>6, <1>7, <2>1 DEF Recovered, Complete
<1> QED BY <1>2, <1>4, <1>8 DEF Resumable

-----------------------------------------------------------------------------
(* What an export takes along *)

\* How far an export has come, as long as the service is down: what is still to be read is
\* what there is, and what has been read is still so.
CollectedInv ==
  /\ export.pc \in {"voices", "jobs"} => export.built.manifest = Nothing
  /\ quiet["old"] =>
       /\ export.pc \in {"jobs", "digest", "pack"} =>
            /\ export.built.default = default["old"]
            /\ \A n \in Names :
                 export.from[n] = IF data["old"][Package(n)] # Absent THEN "library" ELSE "modelrig"
       /\ export.pc = "jobs" => export.todo = {Package(n) : n \in Found}
       /\ export.pc \in {"digest", "pack"} => \A m \in export.todo : Source(m) = Portable(m)
       /\ export.pc = "digest" =>
            \A m \in Members \ export.todo : export.built.manifest[m] = Portable(m)
       /\ export.pc = "pack" =>
            /\ \A m \in Members : export.built.manifest[m] = Portable(m)
            /\ \A m \in Members \ export.todo : export.built.tar[m] = Portable(m)
       /\ export.pc \in {"verify", "seal", "restart"} /\ archive.placed =>
            /\ \A m \in Members : archive.archive.tar[m] = Portable(m)
            /\ archive.archive.default = default["old"]

LEMMA PortableByKind ==
  /\ \A m \in Packages : Portable(m) = IF data["old"][m] # Absent THEN data["old"][m]
                                                                  ELSE modelrig["old"][m[2]]
  /\ \A m \in Records : Portable(m) = data["old"][m]
  /\ \A m \in Clips : Portable(m) = IF data["old"][Record(m[2])] \in Resumable THEN data["old"][m]
                                                                              ELSE Absent
BY NamesOfFiles DEF Portable

\* After both collections, what is to be read is all there is.
LEMMA CollectedAll ==
  ASSUME \A n \in Names :
           export.from[n] = IF data["old"][Package(n)] # Absent THEN "library" ELSE "modelrig",
         NEW todo, todo = {Package(n) : n \in Found} \cup JobFiles(data["old"])
  PROVE  /\ \A m \in todo : Source(m) = Portable(m)
         /\ \A m \in Members \ todo : Portable(m) = Absent
<1>1. ASSUME NEW m \in Packages PROVE Source(m) = Portable(m)
  <2>1. m[2] \in Names /\ m = Package(m[2])
    BY <1>1, NamesOfFiles
  <2> QED BY <1>1, <2>1, PortableByKind DEF Source
<1>2. ASSUME NEW m \in Packages, m \notin todo PROVE Portable(m) = Absent
  <2>1. m[2] \in Names /\ m = Package(m[2])
    BY <1>2, NamesOfFiles
  <2>2. m[2] \notin Found
    BY <1>2, <2>1
  <2> QED BY <1>2, <2>1, <2>2, PortableByKind DEF Found
<1>3. ASSUME NEW m \in Records PROVE Source(m) = Portable(m)
  BY <1>3, NamesOfFiles, PortableByKind DEF Source
<1>4. ASSUME NEW m \in Records, m \notin todo PROVE Portable(m) = Absent
  <2>1. m[2] \in Jobs /\ m = Record(m[2])
    BY <1>4, NamesOfFiles
  <2> QED BY <1>4, <2>1, PortableByKind DEF JobFiles
<1>5. ASSUME NEW m \in Clips, m \in todo PROVE Source(m) = Portable(m)
  <2>1. m \notin Packages /\ m \notin Records
    BY <1>5, NamesOfFiles
  <2>2. PICK j \in Jobs : data["old"][Record(j)] \in Resumable /\ m \in ClipsOf(j)
    BY <1>5, <2>1, NamesOfFiles DEF JobFiles, Found
  <2> QED BY <1>5, <2>1, <2>2, NamesOfFiles, PortableByKind DEF Source
<1>6. ASSUME NEW m \in Clips, m \notin todo PROVE Portable(m) = Absent
  <2>1. m[2] \in Jobs /\ m \in ClipsOf(m[2])
    BY <1>6, NamesOfFiles
  <2>2. data["old"][Record(m[2])] \notin Resumable
    BY <1>6, <2>1 DEF JobFiles
  <2> QED BY <1>6, <2>2, PortableByKind
<1>7. todo \subseteq Members
  BY NamesOfFiles DEF JobFiles, Found
<1> QED BY <1>1, <1>2, <1>3, <1>4, <1>5, <1>6, <1>7 DEF Members

\* What is portable and there is what its source holds.
LEMMA SourceHeld ==
  ASSUME \A n \in Names :
           export.from[n] = IF data["old"][Package(n)] # Absent THEN "library" ELSE "modelrig",
         NEW m \in Members, Portable(m) # Absent
  PROVE  Source(m) = Portable(m)
<1>1. CASE m \in Packages
  <2>1. m[2] \in Names /\ m = Package(m[2])
    BY <1>1, NamesOfFiles
  <2> QED BY <1>1, <2>1, PortableByKind DEF Source
<1>2. CASE m \in Records \cup Clips
  BY <1>2, NamesOfFiles, PortableByKind DEF Source
<1> QED BY <1>1, <1>2 DEF Members

LEMMA CollectedInit == Init => CollectedInv
BY DEF Init, CollectedInv, Before, NoArchive, Rigs

LEMMA CollectedStep ==
  ASSUME Typed, QuietIsDown, ArchiveInv, CollectedInv, [Next]_vars
  PROVE  CollectedInv'
<1> USE DEF Rigs
<1>0. /\ DOMAIN export = {"pc", "was", "from", "todo", "built"}
      /\ DOMAIN export.built = {"manifest", "tar", "default"}
      /\ export.built \in Archives /\ archive \in Copies
      /\ export.built.manifest \in [Members -> Values] /\ export.built.tar \in [Members -> Values]
  BY DEF Typed, Exports, Archives, Files
<1>1. CASE ~Exporting
  <2>1. archive' = archive /\ (export' = export \/ export' = Before)
    BY <1>1, ExportAlone
  <2>2. quiet'["old"] => quiet["old"] /\ Disk("old")' = Disk("old")
    BY <1>1, OldRigStill
  <2>3. CASE export' = Before
    BY <2>3 DEF Before, CollectedInv
  <2>4. CASE export' = export
    BY <2>1, <2>2, <2>4 DEF CollectedInv, Disk, Source, Portable, Found
  <2> QED BY <2>1, <2>3, <2>4
<1>2. CASE Exporting
  <2>1. CASE BeginExport \/ Restart
    <3>1. CASE BeginExport
      <4>1. export'.pc = "voices" /\ export'.built = NoArchive
        BY <3>1, CollectMoves DEF BeginExport, Before
      <4> QED BY <4>1 DEF CollectedInv, NoArchive
    <3>2. CASE Restart
      BY <3>2, CollectMoves DEF CollectedInv
    <3> QED BY <2>1, <3>1, <3>2
  <2>2. CASE ~BeginExport /\ ~Restart
    <3>1. UNCHANGED <<disks, quiet>>
      BY <1>2, <2>2 DEF Exporting, CollectVoices, CollectJobs, DigestsDone, Place, VerifyExport, Seal,
             BreakExport, Carry, Digest, Pack, services
    <3>2. /\ \A m : Portable(m)' = Portable(m)
          /\ Found' = Found
      BY <3>1 DEF Portable, Found, disks
    <3>3. CASE ExportFails /\ archive' = archive /\ (archive.placed => export.pc \in {"verify", "seal", "restart"})
      <4>1. export'.pc = "restart"
        BY <3>3, ExportFailing
      <4> QED BY <3>1, <3>2, <3>3, <4>1 DEF CollectedInv, disks
    <3>4. CASE CollectVoices /\ ~ExportFails
      <4>1. /\ export'.pc = "jobs" /\ export'.todo = {Package(n) : n \in Found}
            /\ export'.from = [n \in Names |->
                  IF data["old"][Package(n)] # Absent THEN "library" ELSE "modelrig"]
            /\ export'.built.manifest = export.built.manifest
            /\ export'.built.default = default["old"]
            /\ export.pc = "voices"
        <5>1. PICK from, todo :
                /\ from = [n \in Names |->
                             IF data["old"][Package(n)] # Absent THEN "library" ELSE "modelrig"]
                /\ todo = {Package(n) : n \in Found}
                /\ export' = [export EXCEPT !.pc = "jobs", !.from = from, !.todo = todo,
                                            !.built.default = default["old"]]
          BY <3>4 DEF CollectVoices
        <5>2. export.pc = "voices"
          BY <3>4 DEF CollectVoices
        <5> QED BY <1>0, <5>1, <5>2
      <4> QED BY <3>1, <3>2, <4>1 DEF CollectedInv, disks
    <3>5. CASE CollectJobs /\ ~ExportFails
      <4>1. /\ export'.pc = "digest" /\ export'.todo = export.todo \cup JobFiles(data["old"])
            /\ export'.from = export.from /\ export'.built = export.built /\ export.pc = "jobs"
        BY <1>0, <3>5 DEF CollectJobs
      <4>2. \A m : Source(m)' = Source(m)
        BY <3>1, <4>1 DEF Source, disks
      <4>3. export.built.manifest = Nothing
        BY <4>1 DEF CollectedInv
      <4>4. quiet["old"] =>
              /\ \A m \in export'.todo : Source(m) = Portable(m)
              /\ \A m \in Members \ export'.todo : Portable(m) = Absent
        BY <4>1, CollectedAll DEF CollectedInv
      <4> QED BY <3>1, <3>2, <4>1, <4>2, <4>3, <4>4 DEF CollectedInv, disks, Nothing
    <3>6. ASSUME NEW m \in Members, Digest(m), ~ExportFails PROVE CollectedInv'
      <4>1. /\ export'.pc = "digest" /\ export.pc = "digest" /\ m \in export.todo
            /\ export'.todo = export.todo \ {m} /\ export'.from = export.from
            /\ export'.built.manifest = [export.built.manifest EXCEPT ![m] = Source(m)]
            /\ export'.built.default = export.built.default
        <5>1. export' = [export EXCEPT !.todo = @ \ {m}, !.built.manifest[m] = Source(m)]
          BY <3>6 DEF Digest
        <5>2. export.pc = "digest" /\ m \in export.todo
          BY <3>6 DEF Digest, First
        <5> QED BY <1>0, <5>1, <5>2
      <4>2. \A k : Source(k)' = Source(k)
        BY <3>1, <4>1 DEF Source, disks
      <4> QED BY <1>0, <3>1, <3>2, <4>1, <4>2 DEF CollectedInv, disks
    <3>7. CASE DigestsDone
      <4>1. /\ export'.pc = "pack" /\ export.pc = "digest" /\ export.todo = {}
            /\ export'.todo = Held(export.built.manifest) /\ export'.from = export.from
            /\ export'.built = export.built
        BY <1>0, <3>7 DEF DigestsDone
      <4>2. \A k : Source(k)' = Source(k)
        BY <3>1, <4>1 DEF Source, disks
      <4>3. export.built.tar = Nothing
        BY <4>1 DEF ArchiveInv
      <4>4. quiet["old"] => \A m \in Members : export.built.manifest[m] = Portable(m)
        BY <4>1 DEF CollectedInv
      <4>5. quiet["old"] => \A m \in Held(export.built.manifest) : Source(m) = Portable(m)
        BY <4>1, <4>4, SourceHeld DEF CollectedInv, Held
      <4> QED BY <3>1, <3>2, <4>1, <4>2, <4>3, <4>4, <4>5 DEF CollectedInv, disks, Held, Nothing
    <3>8. ASSUME NEW m \in Members, Pack(m), ~ExportFails PROVE CollectedInv'
      <4>1. /\ export'.pc = "pack" /\ export.pc = "pack" /\ m \in export.todo
            /\ export'.todo = export.todo \ {m} /\ export'.from = export.from
            /\ export'.built.tar = [export.built.tar EXCEPT ![m] = Source(m)]
            /\ export'.built.manifest = export.built.manifest
            /\ export'.built.default = export.built.default
        <5>1. export' = [export EXCEPT !.todo = @ \ {m}, !.built.tar[m] = Source(m)]
          BY <3>8 DEF Pack
        <5>2. export.pc = "pack" /\ m \in export.todo
          BY <3>8 DEF Pack, First
        <5> QED BY <1>0, <5>1, <5>2
      <4>2. \A k : Source(k)' = Source(k)
        BY <3>1, <4>1 DEF Source, disks
      <4> QED BY <1>0, <3>1, <3>2, <4>1, <4>2 DEF CollectedInv, disks
    <3>9. CASE Place
      <4>1. /\ export'.pc = "verify" /\ export.pc = "pack" /\ export.todo = {}
            /\ archive'.archive = export.built
        BY <1>0, <3>9 DEF Place, NoCopy, ExportGoes
      <4> QED BY <3>1, <3>2, <4>1 DEF CollectedInv, disks
    <3>10. CASE (VerifyExport /\ ~ExportFails) \/ Seal
      <4>1. /\ export'.pc \in {"seal", "restart"} /\ export.pc \in {"verify", "seal"}
            /\ archive'.archive = archive.archive /\ archive'.placed = archive.placed
        BY <1>0, <3>10, ExportFailing, ExportGoing DEF VerifyExport, Seal, Copies
      <4> QED BY <3>1, <3>2, <4>1 DEF CollectedInv, disks
    <3>11. CASE Carry
      BY <3>1, <3>2, <3>11 DEF Carry, CollectedInv, disks
    <3>12. CASE ExportFails /\ ~Seal /\ ~Place /\ ~Carry
      <4>1. archive' = archive /\ export.pc \notin {"idle", "restart"}
        BY <1>2, <2>2, <3>12 DEF Exporting, CollectVoices, CollectJobs, DigestsDone, VerifyExport,
               BreakExport, Digest, Pack
      <4>2. archive.placed => export.pc \in {"verify", "seal"}
        BY <4>1 DEF ArchiveInv, Typed, Exports
      <4> QED BY <3>3, <3>12, <4>1, <4>2
    <3>13. CASE BreakExport
      <4>1. ExportFails
        BY <3>13 DEF BreakExport
      <4> QED BY <3>9, <3>10, <3>11, <3>12, <4>1
    <3> QED BY <1>2, <2>2, <3>4, <3>5, <3>6, <3>7, <3>8, <3>9, <3>10, <3>11, <3>12, <3>13
            DEF Exporting
  <2> QED BY <2>1, <2>2
<1> QED BY <1>1, <1>2

-----------------------------------------------------------------------------
(* The theorems about both rigs *)

RigsInv ==
  /\ Typed /\ QuietIsDown
  /\ MarkerInv /\ MarkerLeadsToPackage /\ PlanInv
  /\ ArchiveInv /\ MediaInv /\ RestoredInv /\ CollectedInv

LEMMA RigsInit == Init => RigsInv
<1>1. Init => QuietIsDown /\ PlanInv /\ RestoredInv
  BY DEF Init, QuietIsDown, PlanInv, RestoredInv, Outside, Rigs
<1> QED BY <1>1, InitTyped, MarkerInit, ArchiveInit, MediaInit, CollectedInit DEF RigsInv

LEMMA RigsStep == RigsInv /\ [Next]_vars => RigsInv'
BY NextTyped, QuietIsDownStep, MarkerStep, PlanInvStep, ArchiveStep, MediaStep, RestoredStep,
   CollectedStep DEF RigsInv

LEMMA RigsAlways == Spec => []RigsInv
BY RigsInit, RigsStep, PTL DEF Spec

\* An import, however often it is cut short and begun again, changes what the archive names
\* and the directories of its jobs, nothing else; without --force, and with nobody else at
\* work, it replaces and removes nothing: what it found free when it looked is free when it
\* writes.
THEOREM NothingClobberedCorrect == Spec => NothingClobbered
<1>1. RigsInv /\ [Next]_vars => [Clobbering]_vars
  BY NothingClobberedStep DEF RigsInv
<1>2. Spec => [][Clobbering]_vars
  BY <1>1, RigsAlways, PTL DEF Spec
<1> QED BY <1>2 DEF NothingClobbered, Clobbering

\* With the service down a sealed archive is the portable state of the rig, although files
\* were read three times in three steps.
THEOREM ExportIsCompleteAlways == Spec => []ExportIsComplete
<1>1. RigsInv => ExportIsComplete
  BY DEF RigsInv, CollectedInv, ExportIsComplete
<1> QED BY <1>1, RigsAlways, PTL

\* A restore that returned has brought back everything that was sealed, whatever the media went
\* through and however many restores were cut short before.
THEOREM ImportIsCompleteAlways == Spec => []ImportIsComplete
<1>1. RigsInv => ImportIsComplete
  BY ImportIsCompleteNow DEF RigsInv
<1> QED BY <1>1, RigsAlways, PTL

\* The start after it takes up every job the old rig could have resumed.
THEOREM ImportedJobsResumeAlways == Spec => ImportedJobsResume
<1> DEFINE Resumed ==
      StartImported /\ quiet["new"] =>
        \A j \in Jobs : archive.archive.tar[Record(j)] \in Resumable =>
                          data'["new"][Record(j)] \in Resumable
<1>1. RigsInv => Resumed
  BY ImportedJobsResumeStep DEF RigsInv
<1>2. RigsInv /\ [Next]_vars => [Resumed]_vars
  BY <1>1
<1>3. Spec => [][Resumed]_vars
  BY <1>2, RigsAlways, PTL DEF Spec
<1> QED BY <1>3 DEF ImportedJobsResume
=============================================================================
