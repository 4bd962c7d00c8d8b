---------------------------- MODULE ReleaseGate ----------------------------
(***************************************************************************)
(* Whether a VoiceRig may be released: validate-rig.ps1 with               *)
(* acceptance_wrapper.py and rig_validation.py, test-piper-fallback.ps1,   *)
(* and complete-acceptance.ps1 with release_gate.py.                       *)
(*                                                                         *)
(* One console runs these one after another, in any order and as often as  *)
(* its operator likes, and may be killed. What they observe lives          *)
(* elsewhere and changes under them: the checkout, the service with the    *)
(* identity it had when its process began, the voices it has built. They   *)
(* meet through two reports and the artifacts, which later runs overwrite. *)
(***************************************************************************)
EXTENDS Naturals, Sequences

CONSTANTS
  Revisions,  \* commits
  Names,      \* names of voices, and so of packages
  Name,       \* the one validations give to theirs
  None,
  MaxBuilds,  \* bound: voices that are built
  MaxHands,   \* bound: what others do with the service and its voices
  MaxEdits,   \* bound: changes of the checkout
  MaxFaults   \* bound: killed scripts, lost artifacts, writes and starts that fail

\* Where a checkout is and what is in it; the process started from it has that identity for good.
Identities == [root : {"here", "elsewhere"}, revision : Revisions, dirty : BOOLEAN]
Processes == [pid : Nat, root : {"here", "elsewhere"}, revision : Revisions, dirty : BOOLEAN]

ASSUME GateAssumption ==
  /\ Name \in Names /\ None \notin Names \cup Nat \cup Identities \cup Processes
  /\ MaxBuilds \in Nat /\ MaxHands \in Nat /\ MaxEdits \in Nat /\ MaxFaults \in Nat

VARIABLES
  checkout,  \* the checkout the scripts are in, as Git sees it
  service,   \* the process that answers on VoiceRig's port, None if there is none
  starts,    \* processes started so far; the last pid
  made,      \* made[i]: the process that built the i-th voice
  library,   \* library[n]: the voice in the package n of the library
  modelrig,  \* modelrig[n]: and in ModelRig's directory
  default,   \* the name in default.txt
  output,    \* whose package, reference and speech are in validation-output
  piperWav,  \* who spoke piper-fallback.wav there
  report,    \* validation-report.json
  fallback,  \* piper-fallback-report.json
  verdict,   \* release-acceptance.json
  console,   \* the script at work
  failed,    \* history: the tests that replaced their report, ended in a failure and have not
             \* passed since
  outage,    \* history: who stopped the service last
  hands, edits, faults

voices == <<made, library, modelrig, default>>
evidence == <<output, piperWav, report, fallback>>
bounds == <<hands, edits, faults>>
vars == <<checkout, service, starts, voices, evidence, verdict, console, failed, outage, bounds>>

Builds == 1..MaxBuilds
Here(c) == [root |-> "here", revision |-> c.revision, dirty |-> c.dirty]
Source(s) == [root |-> s.root, revision |-> s.revision, dirty |-> s.dirty]

\* A report that is missing, cut short, or of another stage than the last.
NoReport == [ok |-> FALSE, complete |-> FALSE, id |-> None, modelrig |-> FALSE, checkout |-> None,
             service |-> None, crossed |-> FALSE]
NoFallback == [ok |-> FALSE, revision |-> None, before |-> None, restored |-> None, id |-> None]
Idle == [pc |-> "idle", full |-> FALSE, strict |-> FALSE, piper |-> FALSE, source |-> None,
         service |-> None, id |-> None, sound |-> FALSE, before |-> None, crossed |-> FALSE]
NoOutput == [package |-> None, reference |-> None, speech |-> None]

\* setup-windows.ps1 leaves a clean checkout and its service.
Init ==
  /\ checkout \in [revision : Revisions, dirty : {FALSE}]
  /\ service = [pid |-> 1, root |-> "here", revision |-> checkout.revision, dirty |-> FALSE]
  /\ starts = 1
  /\ made = <<>> /\ library = [n \in Names |-> None]
  /\ modelrig = [n \in Names |-> None] /\ default = None
  /\ output = NoOutput /\ piperWav = None
  /\ report = NoReport /\ fallback = NoFallback /\ verdict = "none"
  /\ console = Idle
  /\ failed = {} /\ outage = "hand"
  /\ hands = 0 /\ edits = 0 /\ faults = 0

Fault == faults < MaxFaults /\ faults' = faults + 1
Goes(pc) == console' = [console EXCEPT !.pc = pc]
At(pc) == console.pc = pc

-----------------------------------------------------------------------------
(* What goes on beside the console. *)

\* Commits, edits, reverts, other branches.
Edit ==
  /\ edits < MaxEdits /\ edits' = edits + 1
  /\ checkout' \in [revision : Revisions, dirty : BOOLEAN] \ {checkout}
  /\ UNCHANGED <<service, starts, voices, evidence, verdict, console, failed, outage, hands,
                 faults>>

\* source_control freezes the identity of a process when it is imported.
Starts(source) ==
  /\ starts' = starts + 1
  /\ service' = [pid |-> starts + 1, root |-> source.root, revision |-> source.revision,
                 dirty |-> source.dirty]

Hand == hands < MaxHands /\ hands' = hands + 1

StartByHand ==
  /\ service = None /\ Hand
  /\ \/ Starts(Here(checkout))
     \/ \E r \in Revisions : Starts([root |-> "elsewhere", revision |-> r, dirty |-> FALSE])
  /\ UNCHANGED <<checkout, voices, evidence, verdict, console, failed, outage, edits, faults>>

StopByHand ==
  /\ service # None /\ Hand
  /\ service' = None /\ outage' = "hand"
  /\ UNCHANGED <<checkout, starts, voices, evidence, verdict, console, failed, edits, faults>>

\* A build publishes its package, installs it and makes it the default.
Publishes(n, installed) ==
  LET i == Len(made) + 1 IN
  /\ service # None /\ i \in Builds
  /\ made' = Append(made, service)
  /\ library' = [library EXCEPT ![n] = i]
  /\ IF installed THEN modelrig' = [modelrig EXCEPT ![n] = i] /\ default' = n
                  ELSE UNCHANGED <<modelrig, default>>

BuildInBrowser(n) ==
  /\ Hand /\ Publishes(n, TRUE)
  /\ console' = [console EXCEPT !.crossed = @ \/ n = Name]
  /\ UNCHANGED <<checkout, service, starts, evidence, verdict, failed, outage, edits, faults>>

SetDefault(n) ==
  /\ service # None /\ modelrig[n] # None /\ default # n /\ Hand
  /\ default' = n
  /\ UNCHANGED <<checkout, service, starts, made, library, modelrig, evidence, verdict, console,
                 failed, outage, edits, faults>>

\* An artifact is deleted, moved or damaged.
LoseArtifact ==
  /\ Fault
  /\ \/ \E a \in DOMAIN NoOutput : output' = [output EXCEPT ![a] = None]
     \/ UNCHANGED output
  /\ piperWav' \in IF output' = output THEN {None} ELSE {piperWav}
  /\ UNCHANGED <<checkout, service, starts, voices, report, fallback, verdict, console, failed,
                 outage, hands, edits>>

\* ModelRig speaks with VoiceRig if that answers and has a voice, else with Piper.
Provider == IF service # None /\ default # None THEN "voicerig" ELSE "piper"

-----------------------------------------------------------------------------
(* validate-rig.ps1 up to the end of acceptance_wrapper.py. *)

\* The identity of the checkout is that of the moment Python starts; without a source
\* -RequireModelRig has no effect.
BeginValidation(full, strict, piper) ==
  /\ At("idle")
  /\ console' = [Idle EXCEPT !.pc = "identify", !.full = full, !.strict = strict /\ full,
                   !.piper = piper, !.source = Here(checkout)]
  /\ UNCHANGED <<checkout, service, starts, voices, evidence, verdict, failed, outage, bounds>>

\* The script throws before Python starts: no environment, token or source,
\* -RequirePiperFallback without a source or -RequireModelRig. No report is written.
Refused ==
  /\ At("identify") /\ console' = Idle
  /\ UNCHANGED <<checkout, service, starts, voices, evidence, verdict, failed, outage, bounds>>

Accepted == At("identify") /\ (console.piper => console.strict)

\* collect_source_evidence: a full run needs a service that is this clean checkout.
Identified ==
  /\ ~console.source.dirty
  /\ console.full => service # None /\ Source(service) = console.source

\* The end of a validation: the exit code, and with it the fallback test or the prompt.
Ends(ok) ==
  /\ console' = IF ok /\ console.piper THEN [Idle EXCEPT !.pc = "check"] ELSE Idle
  /\ failed' = IF ok THEN failed \ {"validation"} ELSE failed \cup {"validation"}

\* Mutant: an acceptance that cannot begin leaves the earlier report alone.
IdentityUnreported ==
  /\ Accepted /\ ~Identified
  /\ Ends(FALSE)
  /\ UNCHANGED <<checkout, service, starts, voices, evidence, verdict, outage, bounds>>

\* An exception while a report is written: the earlier one stays, or an empty file.
WriteFails ==
  /\ Fault
  /\ report' \in {report, NoReport}
  /\ console' = Idle /\ UNCHANGED failed

\* _write_identity_failure.
IdentityFailure ==
  /\ Accepted /\ ~Identified
  /\ \/ report' = NoReport /\ Ends(FALSE) /\ UNCHANGED faults
     \/ WriteFails
  /\ UNCHANGED <<checkout, service, starts, voices, output, piperWav, fallback, verdict, outage,
                 hands, edits>>

Identify ==
  /\ Accepted /\ Identified
  /\ console' = [console EXCEPT !.pc = IF console.full THEN "build" ELSE "preflight",
                   !.service = IF console.full THEN service ELSE None, !.crossed = FALSE]
  /\ UNCHANGED <<checkout, service, starts, voices, evidence, verdict, failed, outage, bounds>>

\* rig_validation.main writes whatever it has found; the source evidence is added later.
Writes(r) ==
  \/ report' = r /\ Goes("augment") /\ UNCHANGED <<failed, faults>>
  \/ WriteFails

Preflight ==
  /\ At("preflight")
  /\ \E ok \in BOOLEAN : Writes([NoReport EXCEPT !.ok = ok])
  /\ UNCHANGED <<checkout, service, starts, voices, output, piperWav, fallback, verdict, outage,
                 hands, edits>>

\* The preflight, the service, an input, the build, a download or the speech fails. An output
\* directory that cannot be made is an exception like a report that cannot be written.
StageFails ==
  /\ console.pc \in {"build", "download", "extract", "speak"}
  /\ Writes(NoReport)
  /\ UNCHANGED <<checkout, service, starts, voices, output, piperWav, fallback, verdict, outage,
                 hands, edits>>

\* _build_via_service. Without speakers told apart, CUDA, or installation there is a blocker.
Build ==
  /\ At("build")
  /\ \E installed, fine \in BOOLEAN :
       /\ Publishes(Name, installed)
       /\ console' = [console EXCEPT !.pc = "download", !.sound = installed /\ fine]
  /\ UNCHANGED <<checkout, service, starts, evidence, verdict, failed, outage, bounds>>

\* Mutant: the id of the voice is not taken over from its manifest.
DownloadUnread ==
  /\ At("download") /\ service # None /\ library[Name] # None
  /\ output' = [output EXCEPT !.package = library[Name]]
  /\ Goes("extract")
  /\ UNCHANGED <<checkout, service, starts, voices, piperWav, report, fallback, verdict, failed,
                 outage, bounds>>

\* _download_package by its name, over the file of an earlier run, and its manifest.
Download ==
  /\ At("download") /\ service # None /\ library[Name] # None
  /\ output' = [output EXCEPT !.package = library[Name]]
  /\ console' = [console EXCEPT !.pc = "extract", !.id = library[Name]]
  /\ UNCHANGED <<checkout, service, starts, voices, piperWav, report, fallback, verdict, failed,
                 outage, bounds>>

ExtractReference ==
  /\ At("extract") /\ output.package # None
  /\ output' = [output EXCEPT !.reference = output.package]
  /\ Goes("speak")
  /\ UNCHANGED <<checkout, service, starts, voices, piperWav, report, fallback, verdict, failed,
                 outage, bounds>>

\* _synthesize_via_service asks for the name, and compares the name that is answered.
Speak ==
  /\ At("speak") /\ service # None /\ modelrig[Name] # None
  /\ output' = [output EXCEPT !.speech = modelrig[Name]]
  /\ Goes("probe")
  /\ UNCHANGED <<checkout, service, starts, voices, piperWav, report, fallback, verdict, failed,
                 outage, bounds>>

\* _probe_modelrig, the blockers, the report. ModelRig may be out of reach.
Probe ==
  /\ At("probe")
  /\ \E reached \in BOOLEAN :
       LET good == reached /\ Provider = "voicerig" /\ default = Name IN
       Writes([NoReport EXCEPT
         !.ok = console.sound /\ (console.strict => good), !.complete = TRUE,
         !.id = console.id, !.modelrig = good, !.crossed = console.crossed])
  /\ UNCHANGED <<checkout, service, starts, voices, output, piperWav, fallback, verdict, outage,
                 hands, edits>>

\* _augment_report
Augment ==
  /\ At("augment")
  /\ report' = [report EXCEPT !.checkout = console.source, !.service = console.service]
  /\ Ends(report.ok)
  /\ UNCHANGED <<checkout, service, starts, voices, output, piperWav, fallback, verdict, outage,
                 bounds>>

\* It cannot read the report again, or not write it.
AugmentFails ==
  /\ At("augment") /\ Fault
  /\ report' \in {report, NoReport}
  /\ Ends(FALSE)
  /\ UNCHANGED <<checkout, service, starts, voices, output, piperWav, fallback, verdict, outage,
                 hands, edits>>

-----------------------------------------------------------------------------
(* test-piper-fallback.ps1. *)

\* A clean checkout and its service, or else an error and no report.
CheckService ==
  /\ At("check")
  /\ console' = IF checkout.dirty \/ service = None \/ Source(service) # Here(checkout) THEN Idle
                ELSE [console EXCEPT !.pc = "before", !.source = Here(checkout),
                                     !.service = service]
  /\ UNCHANGED <<checkout, service, starts, voices, evidence, verdict, failed, outage, bounds>>

Before ==
  /\ At("before")
  /\ console' = IF Provider = "piper" THEN Idle
                ELSE [console EXCEPT !.pc = "stop", !.before = default, !.id = modelrig[default],
                                     !.sound = TRUE]
  /\ UNCHANGED <<checkout, service, starts, voices, evidence, verdict, failed, outage, bounds>>

\* Mutant: a test that has failed is not followed by the finally clause.
TestGivesUp == console' = Idle

\* catch, then finally.
TestFails == console' = [console EXCEPT !.pc = "restart", !.sound = FALSE]

\* The process is stopped by the pid it had; another one is left alone.
StopService ==
  /\ At("stop")
  /\ IF service = console.service
     THEN service' = None /\ outage' = "test" /\ Goes("await")
     ELSE TestFails /\ UNCHANGED <<service, outage>>
  /\ UNCHANGED <<checkout, starts, voices, evidence, verdict, failed, bounds>>

AwaitPiper ==
  /\ At("await")
  /\ IF Provider = "piper" THEN Goes("piper") ELSE TestFails
  /\ UNCHANGED <<checkout, service, starts, voices, evidence, verdict, failed, outage, bounds>>

\* Invoke-PiperSynthesis removes an earlier file first. It may fail after that.
SpeakWithPiper ==
  /\ At("piper")
  /\ \/ piperWav' = Provider /\ (IF Provider = "piper" THEN Goes("restart") ELSE TestFails)
     \/ piperWav' = None /\ TestFails
  /\ UNCHANGED <<checkout, service, starts, voices, output, report, fallback, verdict, failed,
                 outage, bounds>>

\* A service that answers by now is not started. A start may come to nothing, or throw, which
\* ends the script without a report.
RestartService ==
  /\ At("restart")
  /\ \/ service = None /\ Starts(Here(checkout)) /\ Goes("verify") /\ UNCHANGED faults
     \/ service # None /\ Goes("verify") /\ UNCHANGED <<service, starts, faults>>
     \/ /\ service = None /\ Fault /\ UNCHANGED <<service, starts>>
        /\ Goes("verify") \/ console' = Idle
  /\ UNCHANGED <<checkout, voices, evidence, verdict, failed, outage, hands, edits>>

VerifyService ==
  /\ At("verify")
  /\ console' = [console EXCEPT !.pc = "restored",
                   !.sound = @ /\ service # None /\ Source(service) = console.source]
  /\ UNCHANGED <<checkout, service, starts, voices, evidence, verdict, failed, outage, bounds>>

\* The result, if it can be written.
ReportFallback ==
  /\ At("restored") /\ console' = Idle
  /\ LET ok == console.sound /\ Provider = "voicerig" IN
     \/ /\ fallback' = [ok |-> ok, revision |-> console.source.revision,
                        before |-> console.before, restored |-> IF ok THEN default ELSE None,
                        id |-> console.id]
        /\ failed' = IF ok THEN failed \ {"fallback"} ELSE failed \cup {"fallback"}
        /\ UNCHANGED faults
     \/ Fault /\ fallback' \in {fallback, NoFallback} /\ UNCHANGED failed
  /\ UNCHANGED <<checkout, service, starts, voices, output, piperWav, report, verdict, outage,
                 hands, edits>>

-----------------------------------------------------------------------------
(* complete-acceptance.ps1 and release_gate.py. *)

BeginGate ==
  /\ At("idle")
  /\ console' = [Idle EXCEPT !.pc = "gate", !.source = Here(checkout)]
  /\ UNCHANGED <<checkout, service, starts, voices, evidence, verdict, failed, outage, bounds>>

ValidationPasses == report.ok /\ report.complete /\ report.modelrig

\* Mutant: the evidence fits itself, but perhaps not the checkout.
EvidenceAgrees ==
  report.checkout # None /\ report.service # None /\ Source(report.service) = report.checkout

\* source_evidence names this checkout, clean, and a service that had started from it.
EvidenceMatches ==
  /\ report.checkout # None /\ report.service # None
  /\ report.checkout = console.source
  /\ Source(report.service) = console.source

\* Mutant: the artifacts are there.
ArtifactsExist == \A a \in DOMAIN NoOutput : output[a] # None

\* They are there and can be read; of the package also the id is compared.
ArtifactsWhole ==
  /\ \A a \in DOMAIN NoOutput : output[a] # None
  /\ output.package = report.id

\* The fallback test is known by the revision and by the name of its package.
FallbackMatches ==
  /\ fallback.ok /\ piperWav # None
  /\ fallback.revision = console.source.revision
  /\ fallback.before = Name /\ fallback.restored = Name

\* evaluate_release; the manual judgement of the quality is one of its arguments.
ReleaseReady ==
  /\ ~console.source.dirty
  /\ ValidationPasses
  /\ EvidenceMatches
  /\ ArtifactsWhole
  /\ FallbackMatches

\* Without that judgement the script throws, and an earlier verdict stays.
GateRefused ==
  /\ At("gate") /\ console' = Idle
  /\ UNCHANGED <<checkout, service, starts, voices, evidence, verdict, failed, outage, bounds>>

EndGate ==
  /\ At("gate") /\ console' = Idle
  /\ verdict' = IF ReleaseReady THEN "release-ready" ELSE "release-blocked"
  /\ UNCHANGED <<checkout, service, starts, voices, evidence, failed, outage, bounds>>

-----------------------------------------------------------------------------
\* A script is killed, perhaps while it writes a report.
Kill ==
  /\ ~At("idle") /\ Fault
  /\ console' = Idle
  /\ report' \in IF console.pc \in {"identify", "preflight", "build", "probe", "augment"}
                 THEN {report, NoReport} ELSE {report}
  /\ fallback' \in IF At("restored") THEN {fallback, NoFallback} ELSE {fallback}
  /\ verdict' \in IF At("gate") THEN {verdict, "none"} ELSE {verdict}
  /\ UNCHANGED <<checkout, service, starts, voices, output, piperWav, failed, outage, hands,
                 edits>>

Validating ==
  \/ \E full, strict, piper \in BOOLEAN : BeginValidation(full, strict, piper)
  \/ Refused \/ IdentityFailure \/ Identify \/ Preflight \/ StageFails \/ Build \/ Download
  \/ ExtractReference \/ Speak \/ Probe \/ Augment \/ AugmentFails
Falling ==
  \/ CheckService \/ Before \/ StopService \/ AwaitPiper \/ SpeakWithPiper \/ RestartService
  \/ VerifyService \/ ReportFallback
Others ==
  \/ Edit \/ StartByHand \/ StopByHand \/ LoseArtifact \/ Kill
  \/ \E n \in Names : BuildInBrowser(n) \/ SetDefault(n)

Next == Validating \/ Falling \/ BeginGate \/ GateRefused \/ EndGate \/ Others

Spec == Init /\ [][Next]_vars

-----------------------------------------------------------------------------
(* Properties. *)

Voices == Builds \cup {None}
SomeName == Names \cup {None}

\* The values of the variables.
TypeOK ==
  /\ checkout \in [revision : Revisions, dirty : BOOLEAN]
  /\ service \in Processes \cup {None} /\ starts \in Nat
  /\ made \in Seq(Processes) /\ Len(made) <= MaxBuilds
  /\ library \in [Names -> Voices] /\ modelrig \in [Names -> Voices] /\ default \in SomeName
  /\ output \in [package : Voices, reference : Voices, speech : Voices]
  /\ piperWav \in {"piper", "voicerig", None}
  /\ report \in [ok : BOOLEAN, complete : BOOLEAN, id : Voices, modelrig : BOOLEAN,
                 checkout : Identities \cup {None},
                 service : Processes \cup {None}, crossed : BOOLEAN]
  /\ report.complete => report.id \in Builds
  /\ fallback \in [ok : BOOLEAN, revision : Revisions \cup {None}, before : SomeName,
                   restored : SomeName, id : Voices]
  /\ verdict \in {"none", "release-ready", "release-blocked"}
  /\ failed \subseteq {"validation", "fallback"} /\ outage \in {"hand", "test"}
  /\ hands \in 0..MaxHands /\ edits \in 0..MaxEdits /\ faults \in 0..MaxFaults

Passes == EndGate /\ verdict' = "release-ready"

\* What passes was built by the revision the gate runs on, clean, from this very checkout,
\* provided that the process whose identity was recorded is the one that built it.
VerdictIsOfThisCode ==
  [][Passes /\ made[report.id].pid = report.service.pid =>
       Source(made[report.id]) = console.source /\ ~console.source.dirty]_vars

\* The package, the reference and the speech that pass come from one voice, the reported one,
\* however many validations were cut short, unless a build of that name came in between.
EvidenceIsOneRun ==
  [][Passes /\ ~report.crossed =>
       \A a \in DOMAIN NoOutput : output[a] = report.id]_vars

\* A failure that was reported is not passed over: after a validation, or a fallback test, that
\* replaced its report and ended in failure nothing passes until that test passes, whatever is
\* killed, refused or cannot be written in between. Tests that end before they write leave
\* the earlier report as it is, and a gate may pass on that.
ReportedFailureBlocks == [][Passes => failed = {}]_vars

\* The fallback test does not leave the service down, whichever of its steps fails, unless a
\* start fails or the script is killed.
OutageEnds == At("idle") /\ service = None /\ faults = 0 => outage = "hand"

\* docs/RELEASE_GATE.md: the fallback test used the package of the physical run. Gates
\* compare its name.
FallbackOfThisPackage == [][Passes => fallback.id = report.id]_vars
=============================================================================
