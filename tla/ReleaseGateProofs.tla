-------------------------- MODULE ReleaseGateProofs --------------------------
(***************************************************************************)
(* Theorems about ReleaseGate, for every set of commits and names, every   *)
(* order of commands and every number of interventions beside them.        *)
(***************************************************************************)
EXTENDS ReleaseGate, TLAPS

\* The voices built so far, and none.
Made == DOMAIN made \cup {None}
Outputs == [package : Made, reference : Made, speech : Made]
Reports ==
  [ok : BOOLEAN, complete : BOOLEAN, id : Made, modelrig : BOOLEAN,
   checkout : Identities \cup {None}, service : Processes \cup {None}, crossed : BOOLEAN]
Fallbacks ==
  [ok : BOOLEAN, revision : Revisions \cup {None}, before : SomeName, restored : SomeName,
   id : Made]
Testing == {"before", "stop", "await", "piper", "restart", "verify", "restored"}
Measuring == {"extract", "speak", "probe"}
Steps ==
  {"idle", "identify", "preflight", "build", "download", "augment", "check", "gate"}
    \cup Measuring \cup Testing
Consoles ==
  [pc : Steps, full : BOOLEAN, strict : BOOLEAN, piper : BOOLEAN,
   source : Identities \cup {None}, service : Processes \cup {None}, id : Made,
   sound : BOOLEAN, before : SomeName, crossed : BOOLEAN]

\* The type invariant, with the numbers of voices as names of voices that have been built.
Typed ==
  /\ checkout \in [revision : Revisions, dirty : BOOLEAN]
  /\ service \in Processes \cup {None} /\ starts \in Nat
  /\ made \in Seq(Processes) /\ Len(made) <= MaxBuilds
  /\ library \in [Names -> Made] /\ modelrig \in [Names -> Made] /\ default \in SomeName
  /\ output \in Outputs
  /\ piperWav \in {"piper", "voicerig", None}
  /\ report \in Reports /\ (report.complete => report.id # None)
  /\ fallback \in Fallbacks
  /\ verdict \in {"none", "release-ready", "release-blocked"}
  /\ console \in Consoles
  /\ console.pc \in Testing => console.source # None
  /\ console.pc \in Measuring => console.id # None
  /\ failed \subseteq {"validation", "fallback"} /\ outage \in {"hand", "test"}
  /\ hands \in 0..MaxHands /\ edits \in 0..MaxEdits /\ faults \in 0..MaxFaults

-----------------------------------------------------------------------------
(* Types *)

LEMMA TypedIsEnough == Typed => TypeOK
<1> SUFFICES ASSUME Typed PROVE TypeOK
  OBVIOUS
<1>1. DOMAIN made \subseteq Builds
  BY GateAssumption DEF Typed, Builds
<1>2. Made \subseteq Voices
  BY <1>1 DEF Made, Voices
<1>3. output \in [package : Voices, reference : Voices, speech : Voices]
  BY <1>2 DEF Typed, Outputs
<1>4. /\ report \in [ok : BOOLEAN, complete : BOOLEAN, id : Voices, modelrig : BOOLEAN,
                     checkout : Identities \cup {None},
                     service : Processes \cup {None}, crossed : BOOLEAN]
      /\ report.complete => report.id \in Builds
  BY <1>1, <1>2 DEF Typed, Reports, Made
<1>5. fallback \in [ok : BOOLEAN, revision : Revisions \cup {None}, before : SomeName,
                    restored : SomeName, id : Voices]
  BY <1>2 DEF Typed, Fallbacks
<1>6. library \in [Names -> Voices] /\ modelrig \in [Names -> Voices]
  BY <1>2 DEF Typed
<1> QED
  BY <1>3, <1>4, <1>5, <1>6 DEF Typed, TypeOK

LEMMA InitTyped == Init => Typed
<1> SUFFICES ASSUME Init PROVE Typed
  OBVIOUS
<1>1. made \in Seq(Processes) /\ Len(made) = 0 /\ None \in Made
  BY DEF Init, Made
<1>2. checkout \in [revision : Revisions, dirty : BOOLEAN] /\ service \in Processes
  BY DEF Init, Processes
<1>3. console \in Consoles /\ report \in Reports /\ fallback \in Fallbacks /\ output \in Outputs
  BY <1>1 DEF Init, Consoles, Idle, Steps, Reports, NoReport, Fallbacks, NoFallback, Outputs,
              NoOutput, SomeName
<1> QED
  BY <1>1, <1>2, <1>3, GateAssumption
     DEF Init, Typed, Idle, NoReport, SomeName, Testing, Measuring

\* A build adds a voice. The names of the others stay.
LEMMA PublishesTyped ==
  ASSUME Typed, NEW n \in Names, NEW installed \in BOOLEAN, Publishes(n, installed)
  PROVE  /\ made' \in Seq(Processes) /\ Len(made') = Len(made) + 1 /\ Len(made') <= MaxBuilds
         /\ \A i \in DOMAIN made : i \in DOMAIN made' /\ made'[i] = made[i]
         /\ made'[Len(made')] = service /\ service # None
         /\ Made \subseteq Made' /\ Len(made') \in Made' /\ Len(made') \notin Made
         /\ library' \in [Names -> Made'] /\ library'[n] = Len(made')
         /\ modelrig' \in [Names -> Made'] /\ (installed => modelrig'[n] = Len(made'))
         /\ default' \in SomeName
<1>1. service \in Processes /\ made' = Append(made, service) /\ made \in Seq(Processes)
  BY DEF Publishes, Typed
<1>2. /\ made' \in Seq(Processes) /\ Len(made') = Len(made) + 1
      /\ \A i \in DOMAIN made : i \in DOMAIN made' /\ made'[i] = made[i]
      /\ made'[Len(made')] = service
  BY <1>1
<1>3. Len(made) \in Nat /\ DOMAIN made = 1..Len(made) /\ DOMAIN made' = 1..(Len(made) + 1)
  BY <1>1, <1>2
<1>4. Made \subseteq Made' /\ Len(made') \in Made' /\ Len(made') \notin Made
  <2>1. Len(made') \in Nat /\ Len(made') \in DOMAIN made' /\ Len(made') \notin DOMAIN made
    BY <1>2, <1>3
  <2>2. Len(made') # None
    BY <2>1, GateAssumption
  <2> QED
    BY <1>2, <2>1, <2>2 DEF Made
<1>5. Len(made') <= MaxBuilds
  BY <1>2, <1>3, GateAssumption DEF Publishes, Builds
<1>6. library' \in [Names -> Made'] /\ library'[n] = Len(made')
  BY <1>2, <1>4 DEF Publishes, Typed
<1>7. /\ modelrig' \in [Names -> Made'] /\ (installed => modelrig'[n] = Len(made'))
      /\ default' \in SomeName
  <2>1. /\ modelrig \in [Names -> Made] /\ modelrig \in [Names -> Made'] /\ default \in SomeName
        /\ Len(made) + 1 \in Made'
    BY <1>2, <1>4 DEF Typed
  <2>2. CASE installed
    <3>1. modelrig' = [modelrig EXCEPT ![n] = Len(made) + 1] /\ default' = n
      BY <2>2 DEF Publishes
    <3> QED BY <2>1, <3>1, <1>2 DEF SomeName
  <2>3. CASE ~installed
    BY <2>1, <2>3 DEF Publishes, SomeName
  <2> QED BY <2>2, <2>3
<1> QED
  BY <1>2, <1>4, <1>5, <1>6, <1>7 DEF Publishes

\* What was measured of the voices that have been built is still that when another is.
LEMMA MadeGrows ==
  ASSUME Typed, Made \subseteq Made'
  PROVE  /\ Outputs \subseteq Outputs' /\ Reports \subseteq Reports'
         /\ Fallbacks \subseteq Fallbacks' /\ Consoles \subseteq Consoles'
BY DEF Outputs, Reports, Fallbacks, Consoles, SomeName, Steps, Testing, Measuring

LEMMA NothingTyped ==
  NoReport \in Reports /\ NoFallback \in Fallbacks /\ Idle \in Consoles
BY DEF Reports, NoReport, Fallbacks, NoFallback, Consoles, Idle, Steps, Made, SomeName

\* The steps that build nothing keep each file and the console within their types.
LEMMA QuietTyped ==
  ASSUME Typed, UNCHANGED made,
         checkout' \in [revision : Revisions, dirty : BOOLEAN],
         service' \in Processes \cup {None}, starts' \in Nat,
         UNCHANGED <<library, modelrig>>, default' \in SomeName,
         output' \in Outputs, piperWav' \in {"piper", "voicerig", None},
         report' \in Reports, report'.complete => report'.id # None,
         fallback' \in Fallbacks,
         verdict' \in {"none", "release-ready", "release-blocked"},
         console' \in Consoles,
         console'.pc \in Testing => console'.source # None,
         console'.pc \in Measuring => console'.id # None,
         failed' \subseteq {"validation", "fallback"}, outage' \in {"hand", "test"},
         hands' \in 0..MaxHands, edits' \in 0..MaxEdits, faults' \in 0..MaxFaults
  PROVE  Typed'
<1>1. Made' = Made
  BY DEF Made
<1>2. Outputs' = Outputs /\ Reports' = Reports /\ Fallbacks' = Fallbacks /\ Consoles' = Consoles
  BY <1>1 DEF Outputs, Reports, Fallbacks, Consoles
<1> QED
  BY <1>1, <1>2 DEF Typed

LEMMA NumbersTyped ==
  ASSUME Typed
  PROVE  /\ Hand => hands' \in 0..MaxHands
         /\ Fault => faults' \in 0..MaxFaults
BY GateAssumption DEF Typed, Hand, Fault

\* A service that is started is a process of its own.
LEMMA StartsTyped ==
  ASSUME Typed, NEW source \in Identities, Starts(source)
  PROVE  /\ service' \in Processes /\ service' # None /\ starts' = starts + 1 /\ starts' \in Nat
         /\ service'.pid = starts'
BY GateAssumption DEF Typed, Starts, Identities, Processes

LEMMA HereIsIdentity == ASSUME Typed PROVE Here(checkout) \in Identities
BY DEF Typed, Here, Identities

LEMMA BuildingTyped ==
  ASSUME Typed,
         \/ \E n \in Names : BuildInBrowser(n)
         \/ Build
  PROVE  Typed'
<1>1. ASSUME NEW n \in Names, BuildInBrowser(n) PROVE Typed'
  <2>1. Publishes(n, TRUE) /\ Hand
    BY <1>1 DEF BuildInBrowser
  <2>2. /\ made' \in Seq(Processes) /\ Len(made') <= MaxBuilds /\ Made \subseteq Made'
        /\ library' \in [Names -> Made'] /\ modelrig' \in [Names -> Made']
        /\ default' \in SomeName
    BY <2>1, PublishesTyped
  <2>3. /\ output' \in Outputs' /\ report' \in Reports' /\ fallback' \in Fallbacks'
        /\ console \in Consoles'
    BY <1>1, <2>2, MadeGrows DEF BuildInBrowser, evidence, Typed
  <2>4. console' = [console EXCEPT !.crossed = @ \/ n = Name]
    BY <1>1 DEF BuildInBrowser
  <2>5. /\ console' \in Consoles' /\ console'.pc = console.pc /\ console'.source = console.source
        /\ console'.id = console.id
    BY <2>3, <2>4 DEF Consoles
  <2>6. hands' \in 0..MaxHands
    BY <2>1, NumbersTyped
  <2> QED
    BY <1>1, <2>2, <2>3, <2>5, <2>6 DEF BuildInBrowser, evidence, Typed
<1>2. ASSUME Build PROVE Typed'
  <2>1. PICK installed \in BOOLEAN, fine \in BOOLEAN :
          /\ Publishes(Name, installed)
          /\ console' = [console EXCEPT !.pc = "download", !.sound = installed /\ fine]
    BY <1>2 DEF Build
  <2>2. /\ made' \in Seq(Processes) /\ Len(made') <= MaxBuilds /\ Made \subseteq Made'
        /\ library' \in [Names -> Made'] /\ modelrig' \in [Names -> Made']
        /\ default' \in SomeName
    BY <2>1, PublishesTyped, GateAssumption
  <2>3. /\ output' \in Outputs' /\ report' \in Reports' /\ fallback' \in Fallbacks'
        /\ console \in Consoles'
    BY <1>2, <2>2, MadeGrows DEF Build, evidence, Typed
  <2>4. console' \in Consoles' /\ console'.pc = "download"
    BY <2>1, <2>3 DEF Consoles, Steps
  <2> QED
    BY <1>2, <2>2, <2>3, <2>4 DEF Build, evidence, bounds, Typed, Testing, Measuring
<1> QED
  BY <1>1, <1>2

LEMMA OthersTyped ==
  ASSUME Typed,
         \/ Edit \/ StartByHand \/ StopByHand \/ LoseArtifact \/ Kill
         \/ \E n \in Names : SetDefault(n)
  PROVE  Typed'
<1>1. CASE Edit
  BY <1>1, QuietTyped, GateAssumption DEF Edit, Typed, voices, evidence
<1>2. CASE StartByHand
  <2>1. PICK source \in Identities : Starts(source)
    BY <1>2, HereIsIdentity DEF StartByHand, Identities
  <2> QED
    BY <1>2, <2>1, StartsTyped, QuietTyped, NumbersTyped
       DEF StartByHand, Typed, voices, evidence
<1>3. CASE StopByHand
  BY <1>3, QuietTyped, NumbersTyped DEF StopByHand, Typed, voices, evidence
<1>4. CASE LoseArtifact
  <2>1. output' \in Outputs
    <3>1. DOMAIN NoOutput = {"package", "reference", "speech"} /\ None \in Made
      BY DEF NoOutput, Made
    <3>2. \/ output' = [output EXCEPT !["package"] = None]
          \/ output' = [output EXCEPT !["reference"] = None]
          \/ output' = [output EXCEPT !["speech"] = None]
          \/ output' = output
      BY <1>4, <3>1 DEF LoseArtifact
    <3> QED
      BY <3>1, <3>2 DEF Outputs, Typed
  <2>2. piperWav' \in {piperWav, None}
    BY <1>4 DEF LoseArtifact
  <2> QED
    BY <1>4, <2>1, <2>2, QuietTyped, NumbersTyped DEF LoseArtifact, Typed, voices
<1>5. CASE Kill
  <2>1. console' = Idle /\ report' \in {report, NoReport} /\ fallback' \in {fallback, NoFallback}
    BY <1>5 DEF Kill
  <2>2. /\ report' \in Reports /\ (report'.complete => report'.id # None)
        /\ fallback' \in Fallbacks /\ console' \in Consoles
    <3>1. ~NoReport.complete
      BY DEF NoReport
    <3> QED
      BY <2>1, <3>1, NothingTyped DEF Typed
  <2> QED
    BY <1>5, <2>1, <2>2, QuietTyped, NumbersTyped
       DEF Kill, Typed, voices, Idle, Testing, Measuring
<1>6. ASSUME NEW n \in Names, SetDefault(n) PROVE Typed'
  BY <1>6, QuietTyped, NumbersTyped DEF SetDefault, Typed, evidence, SomeName
<1> QED
  BY <1>1, <1>2, <1>3, <1>4, <1>5, <1>6

\* A validation that ends leaves the console idle or goes on to the fallback test.
LEMMA EndsTyped ==
  ASSUME Typed, NEW ok \in BOOLEAN, Ends(ok)
  PROVE  /\ console' \in Consoles /\ console'.pc \in {"idle", "check"}
         /\ failed' \subseteq {"validation", "fallback"}
BY NothingTyped DEF Typed, Ends, Consoles, Steps, Idle

LEMMA GoesTyped ==
  ASSUME Typed, NEW pc \in Steps, Goes(pc)
  PROVE  /\ console' \in Consoles /\ console'.pc = pc /\ console'.id = console.id
         /\ console'.source = console.source
BY DEF Typed, Goes, Consoles

\* A report is written, or the script ends with the old one or an empty file.
LEMMA WriteFailsTyped ==
  ASSUME Typed, WriteFails
  PROVE  /\ report' \in Reports /\ (report'.complete => report'.id # None)
         /\ console' = Idle /\ console' \in Consoles /\ console'.pc = "idle"
         /\ UNCHANGED failed /\ faults' \in 0..MaxFaults
<1>1. ~NoReport.complete
  BY DEF NoReport
<1> QED
  BY <1>1, NothingTyped, NumbersTyped DEF WriteFails, Typed, Idle

LEMMA WritesTyped ==
  ASSUME Typed, NEW r \in Reports, r.complete => r.id # None, Writes(r)
  PROVE  /\ report' \in Reports /\ (report'.complete => report'.id # None)
         /\ console' \in Consoles /\ console'.pc \in {"augment", "idle"}
         /\ UNCHANGED failed /\ faults' \in 0..MaxFaults
<1>1. CASE WriteFails
  BY <1>1, WriteFailsTyped
<1>2. CASE report' = r /\ Goes("augment") /\ UNCHANGED <<failed, faults>>
  BY <1>2, GoesTyped DEF Steps, Typed
<1> QED
  BY <1>1, <1>2 DEF Writes

LEMMA ValidatingTyped == ASSUME Typed, Validating, ~Build PROVE Typed'
<1> USE DEF Testing, Measuring, At
<1>1. ASSUME NEW full \in BOOLEAN, NEW strict \in BOOLEAN, NEW piper \in BOOLEAN,
             BeginValidation(full, strict, piper)
      PROVE  Typed'
  <2>1. (strict /\ full) \in BOOLEAN
    OBVIOUS
  <2>2. console' \in Consoles /\ console'.pc = "identify"
    BY <1>1, <2>1, HereIsIdentity, NothingTyped DEF BeginValidation, Consoles, Steps, Idle
  <2> QED
    BY <1>1, <2>2, QuietTyped DEF BeginValidation, Typed, voices, evidence, bounds
<1>2. CASE IdentityFailure
  <2>1. ~NoReport.complete
    BY DEF NoReport
  <2>2. CASE report' = NoReport /\ Ends(FALSE) /\ UNCHANGED faults
    BY <1>2, <2>1, <2>2, EndsTyped, NothingTyped, QuietTyped DEF IdentityFailure, Typed, voices
  <2>3. CASE WriteFails
    BY <1>2, <2>3, WriteFailsTyped, QuietTyped DEF IdentityFailure, Typed, voices
  <2> QED
    BY <1>2, <2>2, <2>3 DEF IdentityFailure
<1>12. CASE Refused
  BY <1>12, NothingTyped, QuietTyped DEF Refused, Typed, voices, evidence, bounds, Idle
<1>3. CASE Identify
  <2>1. console' \in Consoles /\ console'.pc \in {"build", "preflight"}
    BY <1>3 DEF Identify, Typed, Consoles, Steps
  <2> QED
    BY <1>3, <2>1, QuietTyped DEF Identify, Typed, voices, evidence, bounds
<1>4. CASE Preflight
  <2>1. PICK ok \in BOOLEAN : Writes([NoReport EXCEPT !.ok = ok])
    BY <1>4 DEF Preflight
  <2>2. [NoReport EXCEPT !.ok = ok] \in Reports /\ ~[NoReport EXCEPT !.ok = ok].complete
    BY NothingTyped DEF Reports, NoReport
  <2> QED
    BY <1>4, <2>1, <2>2, WritesTyped, QuietTyped DEF Preflight, Typed, voices
<1>5. CASE StageFails
  <2>1. Writes(NoReport) /\ NoReport \in Reports /\ ~NoReport.complete
    BY <1>5, NothingTyped DEF StageFails, NoReport
  <2> QED
    BY <1>5, <2>1, WritesTyped, QuietTyped DEF StageFails, Typed, voices
<1>6. CASE Download
  <2>1. library[Name] \in Made /\ library[Name] # None
    BY <1>6, GateAssumption DEF Download, Typed
  <2>2. output' \in Outputs
    BY <1>6, <2>1 DEF Download, Typed, Outputs
  <2>3. console' \in Consoles /\ console'.pc = "extract" /\ console'.id # None
    BY <1>6, <2>1 DEF Download, Typed, Consoles, Steps
  <2> QED
    BY <1>6, <2>2, <2>3, QuietTyped DEF Download, Typed, voices, bounds
<1>7. CASE ExtractReference
  <2>1. output' \in Outputs
    BY <1>7 DEF ExtractReference, Typed, Outputs
  <2> QED
    BY <1>7, <2>1, GoesTyped, QuietTyped DEF ExtractReference, Typed, voices, bounds, Steps
<1>8. CASE Speak
  <2>1. output' \in Outputs
    BY <1>8, GateAssumption DEF Speak, Typed, Outputs
  <2> QED
    BY <1>8, <2>1, GoesTyped, QuietTyped DEF Speak, Typed, voices, bounds, Steps
<1>9. CASE Probe
  <2>1. PICK reached \in BOOLEAN :
          LET good == reached /\ Provider = "voicerig" /\ default = Name IN
          Writes([NoReport EXCEPT
            !.ok = console.sound /\ (console.strict => good), !.complete = TRUE,
            !.id = console.id, !.modelrig = good, !.crossed = console.crossed])
    BY <1>9 DEF Probe
  <2> DEFINE good == reached /\ Provider = "voicerig" /\ default = Name
             ok == console.sound /\ (console.strict => good)
             r == [NoReport EXCEPT !.ok = ok, !.complete = TRUE, !.id = console.id,
                     !.modelrig = good, !.crossed = console.crossed]
  <2>2. Writes(r)
    BY <2>1
  <2>3. good \in BOOLEAN /\ ok \in BOOLEAN
    BY DEF Typed, Consoles
  <2>4. console.id \in Made /\ console.id # None /\ console.crossed \in BOOLEAN
    BY <1>9 DEF Probe, Typed, Consoles
  <2> HIDE DEF good, ok
  <2>5. r \in Reports /\ r.id # None
    BY <2>3, <2>4, NothingTyped DEF Reports, NoReport
  <2> HIDE DEF r
  <2> QED
    BY <1>9, <2>2, <2>5, WritesTyped, QuietTyped DEF Probe, Typed, voices
<1>10. CASE Augment
  <2>1. report' = [report EXCEPT !.checkout = console.source, !.service = console.service]
    BY <1>10 DEF Augment
  <2>2. /\ report' \in Reports /\ report'.complete = report.complete /\ report'.id = report.id
        /\ report.ok \in BOOLEAN
    BY <2>1 DEF Typed, Reports, Consoles
  <2> QED
    BY <1>10, <2>2, EndsTyped, QuietTyped DEF Augment, Typed, voices, bounds
<1>11. CASE AugmentFails
  <2>1. report' \in {report, NoReport} /\ ~NoReport.complete
    BY <1>11 DEF AugmentFails, NoReport
  <2>2. report' \in Reports /\ (report'.complete => report'.id # None)
    BY <2>1, NothingTyped DEF Typed
  <2> QED
    BY <1>11, <2>2, EndsTyped, QuietTyped, NumbersTyped DEF AugmentFails, Typed, voices
<1> QED
  BY <1>1, <1>2, <1>3, <1>4, <1>5, <1>6, <1>7, <1>8, <1>9, <1>10, <1>11, <1>12 DEF Validating

\* A step of the fallback test succeeds or goes to the finally clause.
LEMMA TestMoves ==
  ASSUME Typed, NEW pc \in Testing, Goes(pc) \/ TestFails
  PROVE  /\ console' \in Consoles /\ console'.pc \in {pc, "restart"}
         /\ console'.source = console.source
<1>1. CASE Goes(pc)
  BY <1>1, GoesTyped DEF Steps
<1>2. CASE TestFails
  BY <1>2 DEF TestFails, Typed, Consoles, Steps, Testing
<1> QED
  BY <1>1, <1>2

\* Whatever becomes of the start, the test goes on to look for the service, or has ended.
LEMMA RestartMoves ==
  Typed /\ RestartService =>
    /\ console' \in Consoles
    /\ console'.pc = "idle" \/ (console'.pc = "verify" /\ console'.source = console.source)
<1> SUFFICES ASSUME Typed, RestartService
             PROVE  /\ console' \in Consoles
                    /\ \/ console'.pc = "idle"
                       \/ console'.pc = "verify" /\ console'.source = console.source
  OBVIOUS
<1>1. Goes("verify") \/ console' = Idle
  BY DEF RestartService
<1>2. CASE Goes("verify")
  <2>1. "verify" \in Steps
    BY DEF Steps, Testing, Measuring
  <2> QED
    BY <1>2, <2>1, GoesTyped
<1>3. CASE console' = Idle
  BY <1>3, NothingTyped DEF Idle, Consoles, Steps
<1> QED
  BY <1>1, <1>2, <1>3

LEMMA FallingTyped == ASSUME Typed, Falling PROVE Typed'
<1> USE DEF Testing, Measuring, At
<1>1. CASE CheckService
  <2>1. /\ console' \in Consoles
        /\ console'.pc = "idle" \/ (console'.pc = "before" /\ console'.source # None)
    <3>1. Here(checkout) \in Identities /\ Here(checkout) # None
      BY HereIsIdentity, GateAssumption
    <3> QED
      BY <1>1, <3>1, NothingTyped DEF CheckService, Typed, Consoles, Steps, Idle
  <2> QED
    BY <1>1, <2>1, QuietTyped DEF CheckService, Typed, voices, evidence, bounds
<1>2. CASE Before
  <2>1. default # None /\ Provider = "voicerig" => modelrig[default] \in Made
    BY DEF Typed, SomeName
  <2>2. /\ console' \in Consoles
        /\ console'.pc = "idle" \/ (console'.pc = "stop" /\ console'.source # None)
    BY <1>2, <2>1, NothingTyped DEF Before, Provider, Typed, Consoles, Steps, Idle
  <2> QED
    BY <1>2, <2>2, QuietTyped DEF Before, Typed, voices, evidence, bounds
<1>3. CASE StopService
  <2>1. \/ Goes("await") /\ service' = None /\ outage' = "test"
        \/ TestFails /\ UNCHANGED <<service, outage>>
    BY <1>3 DEF StopService
  <2>2. /\ console' \in Consoles /\ console'.pc \in {"await", "restart"}
        /\ console'.source = console.source
    BY <2>1, TestMoves
  <2>3. service' \in Processes \cup {None} /\ outage' \in {"hand", "test"}
    BY <2>1 DEF Typed
  <2>4. /\ console.source # None
        /\ UNCHANGED <<checkout, starts, voices, evidence, verdict, failed, bounds>>
    BY <1>3 DEF StopService, Typed
  <2> HIDE DEF At
  <2> QED
    BY <2>2, <2>3, <2>4, QuietTyped DEF Typed, voices, evidence, bounds
<1>4. CASE AwaitPiper
  <2>1. /\ console' \in Consoles
        /\ console'.pc \in {"piper", "restart"} /\ console'.source = console.source
    BY <1>4, TestMoves DEF AwaitPiper
  <2> QED
    BY <1>4, <2>1, QuietTyped DEF AwaitPiper, Typed, voices, evidence, bounds
<1>5. CASE SpeakWithPiper
  <2>1. console' \in Consoles /\ console'.pc = "restart" /\ console'.source = console.source
    BY <1>5, TestMoves DEF SpeakWithPiper
  <2>2. piperWav' \in {"piper", "voicerig", None}
    BY <1>5 DEF SpeakWithPiper, Provider
  <2> QED
    BY <1>5, <2>1, <2>2, QuietTyped DEF SpeakWithPiper, Typed, voices, bounds
<1>6. CASE RestartService
  <2>1. service' \in Processes \cup {None} /\ starts' \in Nat /\ faults' \in 0..MaxFaults
    BY <1>6, StartsTyped, HereIsIdentity, NumbersTyped DEF RestartService, Typed
  <2>2. console'.pc \in Testing => console'.source # None
    BY <1>6, RestartMoves DEF RestartService, At, Typed, Testing
  <2>3. console' \in Consoles /\ console'.pc \notin Measuring
    BY <1>6, RestartMoves DEF Measuring
  <2>4. UNCHANGED <<checkout, voices, evidence, verdict, failed, outage, hands, edits>>
    BY <1>6 DEF RestartService
  <2> QED
    BY <2>1, <2>2, <2>3, <2>4, QuietTyped DEF Typed, voices, evidence
<1>7. CASE VerifyService
  <2>1. console' \in Consoles /\ console'.pc = "restored" /\ console'.source = console.source
    BY <1>7 DEF VerifyService, Typed, Consoles, Steps
  <2> QED
    BY <1>7, <2>1, QuietTyped DEF VerifyService, Typed, voices, evidence, bounds
<1>8. CASE ReportFallback
  <2> DEFINE ok == console.sound /\ Provider = "voicerig"
             new == [ok |-> ok, revision |-> console.source.revision,
                     before |-> console.before, restored |-> IF ok THEN default ELSE None,
                     id |-> console.id]
  <2>1. /\ console' = Idle
        /\ \/ /\ fallback' = new /\ UNCHANGED faults
              /\ failed' = IF ok THEN failed \ {"fallback"} ELSE failed \cup {"fallback"}
           \/ Fault /\ fallback' \in {fallback, NoFallback} /\ UNCHANGED failed
    BY <1>8 DEF ReportFallback
  <2>2. console.source \in Identities
    BY <1>8 DEF ReportFallback, Typed, Consoles
  <2>3. /\ ok \in BOOLEAN /\ console.source.revision \in Revisions /\ console.before \in SomeName
        /\ console.id \in Made /\ default \in SomeName /\ None \in SomeName
    BY <2>2 DEF Typed, Consoles, Identities, SomeName
  <2>4. new \in Fallbacks
    BY <2>3 DEF Fallbacks
  <2> HIDE DEF new, ok
  <2>5. /\ fallback' \in Fallbacks /\ failed' \subseteq {"validation", "fallback"}
        /\ faults' \in 0..MaxFaults
    BY <2>1, <2>4, NothingTyped, NumbersTyped DEF Typed
  <2> QED
    BY <1>8, <2>1, <2>5, NothingTyped, QuietTyped DEF ReportFallback, Typed, voices, Idle
<1> QED
  BY <1>1, <1>2, <1>3, <1>4, <1>5, <1>6, <1>7, <1>8 DEF Falling

\* The report of a probe names no checkout and no service yet.
LEMMA ProbeWrites == Probe => \E r : Writes(r) /\ r.checkout = None /\ r.service = None
<1> SUFFICES ASSUME Probe PROVE \E r : Writes(r) /\ r.checkout = None /\ r.service = None
  OBVIOUS
<1>1. PICK reached \in BOOLEAN :
        LET good == reached /\ Provider = "voicerig" /\ default = Name IN
        Writes([NoReport EXCEPT
          !.ok = console.sound /\ (console.strict => good), !.complete = TRUE,
          !.id = console.id, !.modelrig = good, !.crossed = console.crossed])
  BY DEF Probe
<1> DEFINE good == reached /\ Provider = "voicerig" /\ default = Name
           ok == console.sound /\ (console.strict => good)
           r == [NoReport EXCEPT !.ok = ok, !.complete = TRUE, !.id = console.id,
                   !.modelrig = good, !.crossed = console.crossed]
<1>2. Writes(r)
  BY <1>1
<1> HIDE DEF good, ok
<1>3. r.checkout = None /\ r.service = None
  BY DEF NoReport
<1> HIDE DEF r
<1> QED
  BY <1>2, <1>3

LEMMA NextTyped == Typed /\ [Next]_vars => Typed'
<1> SUFFICES ASSUME Typed, [Next]_vars PROVE Typed'
  OBVIOUS
<1>1. CASE BeginGate
  <2>1. console' \in Consoles /\ console'.pc = "gate"
    BY <1>1, HereIsIdentity, NothingTyped DEF BeginGate, Consoles, Steps, Idle
  <2> QED
    BY <1>1, <2>1, QuietTyped
       DEF BeginGate, Typed, voices, evidence, bounds, Testing, Measuring
<1>2. CASE EndGate
  BY <1>2, NothingTyped, QuietTyped
     DEF EndGate, Typed, voices, evidence, bounds, Idle, Testing, Measuring
<1>4. CASE GateRefused
  BY <1>4, NothingTyped, QuietTyped
     DEF GateRefused, Typed, voices, evidence, bounds, Idle, Testing, Measuring
<1>3. CASE UNCHANGED vars
  BY <1>3, QuietTyped DEF vars, voices, evidence, bounds, Typed
<1> QED
  BY <1>1, <1>2, <1>3, <1>4, BuildingTyped, OthersTyped, ValidatingTyped, FallingTyped
     DEF Next, Validating, Others

LEMMA AlwaysTyped == Spec => []Typed
BY InitTyped, NextTyped, PTL DEF Spec

\* Every variable keeps to its kind of value; a complete report names a voice that was built.
THEOREM TypeCorrect == Spec => []TypeOK
BY AlwaysTyped, TypedIsEnough, PTL

-----------------------------------------------------------------------------
(* The fallback test and the outage *)

\* While nothing fails, a service the test has stopped is missing only until the test starts it.
OutageInv ==
  faults = 0 /\ service = None /\ outage = "test" => console.pc \in {"await", "piper", "restart"}

LEMMA OutageStep == Typed /\ OutageInv /\ [Next]_vars => OutageInv'
<1> SUFFICES ASSUME Typed, OutageInv, [Next]_vars PROVE OutageInv'
  OBVIOUS
<1> USE DEF OutageInv, At
<1>1. CASE UNCHANGED <<service, outage, faults>> /\ console.pc \notin {"await", "piper", "restart"}
  BY <1>1
<1>2. CASE StartByHand
  <2>1. PICK source \in Identities : Starts(source)
    BY <1>2, HereIsIdentity DEF StartByHand, Identities
  <2> QED
    BY <2>1, StartsTyped
<1>3. CASE StopByHand \/ LoseArtifact \/ Kill
  BY <1>3 DEF StopByHand, LoseArtifact, Kill, Fault, Typed
<1>4. CASE StopService
  <2>1. \/ console'.pc \in {"await", "restart"}
        \/ UNCHANGED <<service, outage>>
    BY <1>4, TestMoves DEF StopService, Testing
  <2>2. UNCHANGED faults /\ console.pc = "stop"
    BY <1>4 DEF StopService, bounds
  <2> QED
    BY <2>1, <2>2
<1>5. CASE AwaitPiper
  <2>1. console'.pc \in {"piper", "restart"}
    BY <1>5, TestMoves DEF AwaitPiper, Testing
  <2> QED
    BY <2>1
<1>6. CASE SpeakWithPiper
  <2>1. console'.pc = "restart"
    BY <1>6, TestMoves DEF SpeakWithPiper, Testing
  <2> QED
    BY <2>1
<1>7. CASE RestartService
  <2>1. CASE service = None /\ Starts(Here(checkout))
    BY <2>1, StartsTyped, HereIsIdentity
  <2>2. CASE service # None /\ UNCHANGED <<service, starts, faults>>
    BY <2>2
  <2>3. CASE Fault
    BY <2>3 DEF Fault, Typed
  <2> QED
    BY <1>7, <2>1, <2>2, <2>3 DEF RestartService
<1>8. CASE Edit \/ \E n \in Names : BuildInBrowser(n) \/ SetDefault(n)
  <2>1. UNCHANGED <<service, outage, faults>> /\ console'.pc = console.pc
    BY <1>8 DEF Edit, BuildInBrowser, SetDefault, Typed, Consoles
  <2> QED
    BY <2>1
<1>9. CASE \/ Validating \/ BeginGate \/ EndGate \/ GateRefused
           \/ CheckService \/ Before \/ VerifyService \/ ReportFallback
  <2>1. UNCHANGED <<service, outage>> /\ console.pc \notin {"await", "piper", "restart"}
    BY <1>9 DEF Validating, BeginValidation, Refused, IdentityFailure, Accepted, Identify,
                Preflight, StageFails, Build, Download, ExtractReference, Speak, Probe, Augment,
                AugmentFails, BeginGate, EndGate, GateRefused, CheckService, Before, VerifyService,
                ReportFallback, Publishes
  <2>2. UNCHANGED faults \/ Fault
    BY <1>9 DEF Validating, BeginValidation, Refused, IdentityFailure, WriteFails, Writes, Identify,
                Preflight, StageFails, Build, Download, ExtractReference, Speak, Probe, Augment,
                AugmentFails, BeginGate, EndGate, GateRefused, CheckService, Before, VerifyService,
                ReportFallback, bounds
  <2> QED
    BY <2>1, <2>2 DEF Fault, Typed
<1>10. CASE UNCHANGED vars
  BY <1>10 DEF vars, bounds
<1> QED
  BY <1>2, <1>3, <1>4, <1>5, <1>6, <1>7, <1>8, <1>9, <1>10 DEF Next, Falling, Others

\* The fallback test does not leave the service down, whichever of its steps fails.
THEOREM OutageEndsAlways == Spec => []OutageEnds
<1>1. Init => OutageInv
  BY DEF Init, OutageInv
<1>2. Typed /\ OutageInv => OutageEnds
  BY DEF OutageInv, OutageEnds, At, Typed
<1> QED
  BY <1>1, <1>2, OutageStep, AlwaysTyped, PTL DEF Spec

-----------------------------------------------------------------------------
(* Failures and the reports they leave *)

\* A test that has reported a failure since it last passed has left a report that does not pass:
\* of a fallback test a failed one, of a validation a failed one or one without the source
\* evidence.
FailedInv ==
  /\ "fallback" \in failed => ~fallback.ok
  /\ "validation" \in failed => ~report.ok \/ report.checkout = None
  /\ console.pc = "augment" => report.checkout = None

LEMMA FailedStep == Typed /\ FailedInv /\ [Next]_vars => FailedInv'
<1> SUFFICES ASSUME Typed, FailedInv, [Next]_vars PROVE FailedInv'
  OBVIOUS
<1> USE DEF FailedInv, At
<1>1. /\ ~NoReport.ok /\ NoReport.checkout = None
      /\ ~NoFallback.ok
  BY DEF NoReport, NoFallback
<1>12. ASSUME WriteFails, UNCHANGED fallback PROVE FailedInv'
  BY <1>1, <1>12 DEF WriteFails, Idle
<1>2. CASE IdentityFailure
  <2>1. CASE report' = NoReport /\ Ends(FALSE)
    BY <1>1, <1>2, <2>1 DEF IdentityFailure, Ends, Idle, Typed
  <2> QED
    BY <1>2, <1>12, <2>1 DEF IdentityFailure
<1>3. CASE Preflight \/ StageFails \/ Probe
  <2>1. PICK r : Writes(r) /\ r.checkout = None
    <3>1. CASE Preflight
      <4>1. PICK ok \in BOOLEAN : Writes([NoReport EXCEPT !.ok = ok])
        BY <3>1 DEF Preflight
      <4>2. [NoReport EXCEPT !.ok = ok].checkout = None
        BY DEF NoReport
      <4> QED BY <4>1, <4>2
    <3>2. CASE StageFails
      BY <3>2, <1>1 DEF StageFails
    <3>3. CASE Probe
      BY <3>3, ProbeWrites
    <3> QED BY <1>3, <3>1, <3>2, <3>3
  <2>2. UNCHANGED fallback
    BY <1>3 DEF Preflight, StageFails, Probe
  <2>3. CASE report' = r /\ UNCHANGED failed
    BY <2>1, <2>2, <2>3
  <2> QED
    BY <1>12, <2>1, <2>2, <2>3 DEF Writes
<1>4. CASE Augment
  <2>1. report'.ok = report.ok /\ Ends(report.ok) /\ UNCHANGED fallback
    BY <1>4 DEF Augment, Typed, Reports
  <2>2. console'.pc \in {"idle", "check"}
    BY <2>1 DEF Ends, Idle
  <2>3. CASE report.ok
    BY <2>1, <2>2, <2>3 DEF Ends
  <2>4. CASE ~report.ok
    BY <2>1, <2>2, <2>4 DEF Ends
  <2> QED
    BY <2>3, <2>4
<1>5. CASE AugmentFails
  BY <1>1, <1>5 DEF AugmentFails, Ends, Idle
<1>6. CASE ReportFallback
  <2> DEFINE ok == console.sound /\ Provider = "voicerig"
  <2>1. /\ console' = Idle /\ UNCHANGED report
        /\ \/ /\ fallback'.ok = ok
              /\ failed' = IF ok THEN failed \ {"fallback"} ELSE failed \cup {"fallback"}
           \/ fallback' \in {fallback, NoFallback} /\ UNCHANGED failed
    BY <1>6 DEF ReportFallback
  <2> HIDE DEF ok
  <2>4. CASE fallback' \in {fallback, NoFallback} /\ UNCHANGED failed
    BY <1>1, <2>1, <2>4 DEF Idle
  <2>2. CASE ok
    BY <2>1, <2>2, <2>4 DEF Idle
  <2>3. CASE ~ok
    BY <2>1, <2>3, <2>4 DEF Idle
  <2> QED
    BY <2>2, <2>3
<1>7. CASE Kill
  BY <1>1, <1>7 DEF Kill, Idle
<1>8. CASE \E n \in Names : BuildInBrowser(n)
  <2>1. UNCHANGED <<report, fallback, failed>> /\ console'.pc = console.pc
    BY <1>8 DEF BuildInBrowser, evidence, Typed, Consoles
  <2> QED
    BY <2>1
<1>9. CASE \/ Edit \/ StartByHand \/ StopByHand \/ LoseArtifact
           \/ \E n \in Names : SetDefault(n)
  <2>1. UNCHANGED <<report, fallback, failed, console>>
    BY <1>9 DEF Edit, StartByHand, StopByHand, LoseArtifact, SetDefault, evidence
  <2> QED
    BY <2>1
<1>10. CASE UNCHANGED vars
  BY <1>10 DEF vars, evidence
<1>11. CASE \/ \E full, strict, piper \in BOOLEAN : BeginValidation(full, strict, piper)
            \/ Refused \/ Identify \/ Build \/ Download \/ ExtractReference \/ Speak
            \/ CheckService \/ Before \/ StopService \/ AwaitPiper \/ SpeakWithPiper
            \/ RestartService \/ VerifyService \/ BeginGate \/ EndGate \/ GateRefused
  <2>1. UNCHANGED <<report, fallback, failed>>
    BY <1>11 DEF BeginValidation, Refused, Identify, Build, Download, ExtractReference, Speak,
                 CheckService, Before, StopService, AwaitPiper, SpeakWithPiper, RestartService,
                 VerifyService, BeginGate, EndGate, GateRefused, evidence
  <2>2. console'.pc # "augment"
    <3>1. CASE \E full, strict, piper \in BOOLEAN : BeginValidation(full, strict, piper)
      BY <3>1 DEF BeginValidation, Idle
    <3>9. CASE Refused \/ GateRefused
      BY <3>9 DEF Refused, GateRefused, Idle
    <3>2. CASE Identify \/ Build \/ Download \/ ExtractReference \/ Speak
      BY <3>2 DEF Identify, Build, Download, ExtractReference, Speak, Goes, Typed, Consoles
    <3>3. CASE CheckService
      BY <3>3 DEF CheckService, Idle, Typed, Consoles
    <3>4. CASE Before
      BY <3>4 DEF Before, Idle, Typed, Consoles
    <3>5. CASE StopService \/ AwaitPiper \/ SpeakWithPiper
      BY <3>5, TestMoves DEF StopService, AwaitPiper, SpeakWithPiper, Testing
    <3>6. CASE RestartService
      BY <3>6, RestartMoves
    <3>10. CASE VerifyService
      BY <3>10 DEF VerifyService, Typed, Consoles
    <3>7. CASE BeginGate
      BY <3>7 DEF BeginGate, Idle
    <3>8. CASE EndGate
      BY <3>8 DEF EndGate, Idle
    <3> QED
      BY <1>11, <3>1, <3>2, <3>3, <3>4, <3>5, <3>6, <3>7, <3>8, <3>9, <3>10
  <2> QED
    BY <2>1, <2>2
<1> QED
  BY <1>2, <1>3, <1>4, <1>5, <1>6, <1>7, <1>8, <1>9, <1>10, <1>11
     DEF Next, Validating, Falling, Others

\* A failure that was reported, by a validation or by a fallback test, is not passed over: until
\* that test passes nothing does, whatever is killed, refused or cannot be written in between.
THEOREM ReportedFailureBlocksAlways == Spec => ReportedFailureBlocks
<1>1. Init => FailedInv
  BY DEF Init, FailedInv, Idle
<1>2. Typed /\ FailedInv => (Passes => failed = {})
  BY DEF Typed, FailedInv, Passes, EndGate, ReleaseReady, ValidationPasses, EvidenceMatches,
         FallbackMatches
<1>3. Spec => []FailedInv
  BY <1>1, FailedStep, AlwaysTyped, PTL DEF Spec
<1>4. Typed /\ FailedInv /\ [Next]_vars => [Passes => failed = {}]_vars
  BY <1>2
<1> QED
  BY <1>3, <1>4, AlwaysTyped, PTL DEF Spec, ReportedFailureBlocks

-----------------------------------------------------------------------------
(* Processes and the code they run *)

\* The processes somebody remembers: who built a voice, who answers now, whose identity the
\* console has taken down, whose the report has.
Known ==
  {made[i] : i \in DOMAIN made} \cup ({service, console.service, report.service} \ {None})

\* A pid is one process, and so one identity, for good.
ProcessInv ==
  /\ \A p \in Known : p.pid \in Nat /\ p.pid <= starts
  /\ \A p, q \in Known : p.pid = q.pid => p = q

\* What a step does to the processes and to the notes of them.
Noted ==
  /\ made' = made \/ \E n \in Names, installed \in BOOLEAN : Publishes(n, installed)
  /\ console'.service \in {console.service, service, None}
  /\ report'.service \in {report.service, console.service, None}
  /\ \/ service' \in {service, None} /\ starts' = starts
     \/ made' = made /\ \E source \in Identities : Starts(source)

LEMMA NotedByOthers == ASSUME Typed, Others PROVE Noted
<1>1. CASE StartByHand
  <2>1. \E source \in Identities : Starts(source)
    BY <1>1, HereIsIdentity DEF StartByHand, Identities
  <2> QED
    BY <1>1, <2>1 DEF StartByHand, Noted, voices, evidence
<1>2. CASE Kill
  <2>1. Idle.service = None /\ NoReport.service = None
    BY DEF Idle, NoReport
  <2> QED
    BY <1>2, <2>1 DEF Kill, Noted, voices
<1>3. ASSUME NEW n \in Names, BuildInBrowser(n) PROVE Noted
  <2>1. console'.service = console.service
    BY <1>3 DEF BuildInBrowser, Typed, Consoles
  <2> QED
    BY <1>3, <2>1 DEF BuildInBrowser, Noted, evidence
<1>4. CASE Edit \/ StopByHand \/ LoseArtifact \/ \E n \in Names : SetDefault(n)
  BY <1>4 DEF Edit, StopByHand, LoseArtifact, SetDefault, Noted, voices, evidence
<1> QED
  BY <1>1, <1>2, <1>3, <1>4 DEF Others

LEMMA NotedByValidation == ASSUME Typed, Validating PROVE Noted
<1>1. Idle.service = None /\ NoReport.service = None
  BY DEF Idle, NoReport
<1>2. ASSUME NEW ok \in BOOLEAN, Ends(ok) PROVE console'.service = None
  BY <1>2 DEF Ends, Idle
<1>3. CASE \E full, strict, piper \in BOOLEAN : BeginValidation(full, strict, piper)
  BY <1>3 DEF BeginValidation, Noted, voices, evidence, Idle
<1>4. CASE IdentityFailure
  BY <1>1, <1>2, <1>4 DEF IdentityFailure, WriteFails, Noted, voices
<1>13. CASE Refused
  BY <1>1, <1>13 DEF Refused, Noted, voices, evidence
<1>14. ASSUME NEW r, Writes(r), r.service = None
       PROVE  /\ report'.service \in {report.service, None}
              /\ console'.service \in {console.service, None}
  BY <1>1, <1>14 DEF Writes, WriteFails, Goes, Typed, Consoles
<1>5. CASE Identify
  <2>1. console'.service \in {service, None}
    BY <1>5 DEF Identify, Typed, Consoles
  <2> QED
    BY <1>5, <2>1 DEF Identify, Noted, voices, evidence
<1>6. CASE Preflight
  <2>1. PICK r : Writes(r) /\ r.service = None
    BY <1>6 DEF Preflight, NoReport
  <2> QED
    BY <1>6, <1>14, <2>1 DEF Preflight, Noted, voices
<1>7. CASE StageFails
  BY <1>1, <1>7, <1>14 DEF StageFails, Noted, voices
<1>8. CASE Build
  <2>1. /\ \E installed \in BOOLEAN : Publishes(Name, installed)
        /\ console'.service = console.service
    BY <1>8 DEF Build, Typed, Consoles
  <2> QED
    BY <1>8, <2>1, GateAssumption DEF Build, Noted, evidence
<1>9. CASE Download \/ ExtractReference \/ Speak
  BY <1>9 DEF Download, ExtractReference, Speak, Goes, Typed, Consoles, Noted, voices
<1>10. CASE Probe
  <2>1. PICK r : Writes(r) /\ r.service = None
    BY <1>10, ProbeWrites
  <2> QED
    BY <1>10, <1>14, <2>1 DEF Probe, Noted, voices
<1>11. CASE Augment
  <2>1. report'.service = console.service /\ report.ok \in BOOLEAN
    BY <1>11 DEF Augment, Typed, Reports
  <2> QED
    BY <1>2, <1>11, <2>1 DEF Augment, Noted, voices
<1>12. CASE AugmentFails
  BY <1>1, <1>2, <1>12 DEF AugmentFails, Noted, voices
<1> QED
  BY <1>3, <1>4, <1>5, <1>6, <1>7, <1>8, <1>9, <1>10, <1>11, <1>12, <1>13 DEF Validating

LEMMA NotedByFallbackTest == ASSUME Typed, Falling PROVE Noted
<1>1. Idle.service = None
  BY DEF Idle
<1>2. ASSUME NEW pc, Goes(pc) \/ TestFails PROVE console'.service = console.service
  BY <1>2 DEF Goes, TestFails, Typed, Consoles
<1>3. CASE CheckService
  BY <1>1, <1>3 DEF CheckService, Typed, Consoles, Noted, voices, evidence
<1>4. CASE Before
  BY <1>1, <1>4 DEF Before, Typed, Consoles, Noted, voices, evidence
<1>5. CASE StopService
  BY <1>2, <1>5 DEF StopService, Noted, voices, evidence
<1>6. CASE AwaitPiper \/ SpeakWithPiper
  BY <1>2, <1>6 DEF AwaitPiper, SpeakWithPiper, Noted, voices, evidence
<1>7. CASE RestartService
  <2>1. \/ service' = service /\ starts' = starts
        \/ \E source \in Identities : Starts(source)
    BY <1>7, HereIsIdentity DEF RestartService
  <2>2. UNCHANGED <<made, report>>
    BY <1>7 DEF RestartService, voices, evidence
  <2> QED
    BY <1>1, <1>2, <1>7, <2>1, <2>2 DEF RestartService, Noted
<1>8. CASE VerifyService
  BY <1>8 DEF VerifyService, Typed, Consoles, Noted, voices, evidence
<1>9. CASE ReportFallback
  BY <1>1, <1>9 DEF ReportFallback, Noted, voices
<1> QED
  BY <1>3, <1>4, <1>5, <1>6, <1>7, <1>8, <1>9 DEF Falling

LEMMA NotedAlways == ASSUME Typed, [Next]_vars PROVE Noted
<1>1. CASE BeginGate \/ EndGate \/ GateRefused
  <2>1. UNCHANGED <<made, service, starts, report>>
    BY <1>1 DEF BeginGate, EndGate, GateRefused, voices, evidence
  <2>2. console'.service = None
    <3>1. CASE BeginGate
      BY <3>1 DEF BeginGate, Idle
    <3>2. CASE EndGate \/ GateRefused
      BY <3>2 DEF EndGate, GateRefused, Idle
    <3> QED
      BY <1>1, <3>1, <3>2
  <2> QED
    BY <2>1, <2>2 DEF Noted
<1>2. CASE UNCHANGED vars
  BY <1>2 DEF vars, voices, evidence, Noted
<1> QED
  BY <1>1, <1>2, NotedByOthers, NotedByValidation, NotedByFallbackTest DEF Next

LEMMA ProcessStep == Typed /\ ProcessInv /\ [Next]_vars => ProcessInv'
<1> SUFFICES ASSUME Typed, ProcessInv, [Next]_vars PROVE ProcessInv'
  OBVIOUS
<1>1. Noted
  BY NotedAlways
<1>2. \A i \in DOMAIN made' : made'[i] \in {made[k] : k \in DOMAIN made} \cup ({service} \ {None})
  <2>1. CASE made' = made
    BY <2>1
  <2>2. ASSUME NEW n \in Names, NEW installed \in BOOLEAN, Publishes(n, installed)
        PROVE  \A i \in DOMAIN made' :
                 made'[i] \in {made[k] : k \in DOMAIN made} \cup ({service} \ {None})
    <3>1. made' = Append(made, service) /\ service # None /\ made \in Seq(Processes)
      BY <2>2 DEF Publishes, Typed
    <3>2. \A i \in DOMAIN made' : i \in DOMAIN made \/ i = Len(made')
      BY <2>2, <3>1, PublishesTyped
    <3> QED
      BY <2>2, <3>1, <3>2, PublishesTyped
  <2> QED
    BY <1>1, <2>1, <2>2 DEF Noted
<1>3. Known' \subseteq Known \cup ({service'} \ {None})
  <2>1. Known' = {made'[i] : i \in DOMAIN made'}
                   \cup ({service', console'.service, report'.service} \ {None})
    BY DEF Known
  <2>2. {made'[i] : i \in DOMAIN made'} \subseteq Known
    BY <1>2 DEF Known
  <2>3. {console'.service, report'.service} \ {None} \subseteq Known
    BY <1>1 DEF Known, Noted
  <2> QED
    BY <2>1, <2>2, <2>3
<1>4. CASE service' \in {service, None} /\ starts' = starts
  <2>1. Known' \subseteq Known
    BY <1>3, <1>4 DEF Known
  <2> QED
    BY <1>4, <2>1 DEF ProcessInv
<1>5. ASSUME NEW source \in Identities, Starts(source) PROVE ProcessInv'
  <2>1. /\ service'.pid = starts + 1 /\ starts' = starts + 1 /\ starts \in Nat
    BY <1>5, StartsTyped DEF Typed
  <2>2. \A p \in Known : p.pid \in Nat /\ p.pid <= starts
    BY DEF ProcessInv
  <2>3. \A p \in Known' : p \in Known \/ p = service'
    BY <1>3
  <2>4. \A p \in Known' : p.pid \in Nat /\ p.pid <= starts'
    BY <2>1, <2>2, <2>3
  <2>5. \A p, q \in Known' : p.pid = q.pid => p = q
    BY <2>1, <2>2, <2>3 DEF ProcessInv
  <2> QED
    BY <2>4, <2>5 DEF ProcessInv
<1> QED
  BY <1>1, <1>4, <1>5 DEF Noted

\* What passes was built by the revision the gate runs on, clean, from this very checkout,
\* provided that the process whose identity was recorded is the one that built it. A pid tells
\* processes apart.
THEOREM VerdictIsOfThisCodeAlways == Spec => VerdictIsOfThisCode
<1> DEFINE Fits ==
      Passes /\ made[report.id].pid = report.service.pid =>
        Source(made[report.id]) = console.source /\ ~console.source.dirty
<1>1. Init => ProcessInv
  <2> SUFFICES ASSUME Init PROVE ProcessInv
    OBVIOUS
  <2>1. Known \subseteq {service} /\ service.pid = 1 /\ starts = 1
    BY DEF Init, Known, Idle, NoReport
  <2> QED
    BY <2>1 DEF ProcessInv
<1>2. Spec => []ProcessInv
  BY <1>1, ProcessStep, AlwaysTyped, PTL DEF Spec
<1>3. Typed /\ ProcessInv => Fits
  <2> SUFFICES ASSUME Typed, ProcessInv, Passes, made[report.id].pid = report.service.pid
               PROVE  Source(made[report.id]) = console.source /\ ~console.source.dirty
    OBVIOUS
  <2>1. /\ ~console.source.dirty /\ report.service # None
        /\ Source(report.service) = console.source
        /\ output.package = report.id /\ output.package # None
    BY DEF Passes, EndGate, ReleaseReady, EvidenceMatches, ArtifactsWhole, NoOutput
  <2>2. report.id \in DOMAIN made
    BY <2>1 DEF Typed, Reports, Made
  <2>3. made[report.id] = report.service
    BY <2>1, <2>2 DEF ProcessInv, Known
  <2> QED
    BY <2>1, <2>3
<1>4. Typed /\ ProcessInv /\ [Next]_vars => [Fits]_vars
  BY <1>3
<1>5. Spec => [][Fits]_vars
  BY <1>2, <1>4, AlwaysTyped, PTL DEF Spec
<1> QED
  BY <1>5 DEF VerdictIsOfThisCode

-----------------------------------------------------------------------------
(* The artifacts of a validation *)

\* The validation at work reads and speaks the voice it has built, if it was installed and
\* nobody has built another of that name since; that voice is younger than the one reported.
MeasuredInv ==
  /\ console.pc = "download" =>
       /\ library[Name] # None /\ (report.complete => library[Name] > report.id)
       /\ console.sound /\ ~console.crossed => modelrig[Name] = library[Name]
  /\ console.pc \in Measuring =>
       /\ report.complete => console.id > report.id
       /\ output.package \in {console.id, None}
       /\ console.sound /\ ~console.crossed => modelrig[Name] = console.id
  /\ console.pc \in {"speak", "probe"} => output.reference \in {console.id, None}
  /\ console.pc = "probe" /\ console.sound /\ ~console.crossed
       => output.speech \in {console.id, None}

\* As long as the reported package is there, what is beside it was made with it.
ArtifactsInv ==
  report.complete /\ report.ok /\ ~report.crossed /\ output.package = report.id =>
    output.reference \in {report.id, None} /\ output.speech \in {report.id, None}

EvidenceInv == MeasuredInv /\ ArtifactsInv

\* Steps that leave the report, its artifacts and the voices alone.
LEMMA EvidenceSame ==
  ASSUME Typed, EvidenceInv, UNCHANGED <<report, output, library, modelrig>>,
         \/ console'.pc \notin {"download"} \cup Measuring
         \/ /\ console'.pc = console.pc /\ console'.id = console.id
            /\ console'.sound = console.sound /\ console'.crossed = console.crossed
  PROVE  EvidenceInv'
BY DEF EvidenceInv, MeasuredInv, ArtifactsInv, Measuring

\* Every voice is younger than the one reported.
LEMMA YoungerVoice ==
  ASSUME Typed, NEW n \in Names, NEW installed \in BOOLEAN, Publishes(n, installed)
  PROVE  Len(made') # None /\ (report.complete => Len(made') > report.id)
<1>1. Len(made') \in Nat /\ Len(made') = Len(made) + 1 /\ Len(made) \in Nat
  BY PublishesTyped DEF Typed
<1>2. report.complete => report.id \in 1..Len(made)
  BY DEF Typed, Reports, Made
<1> QED
  BY <1>1, <1>2, GateAssumption

LEMMA EvidenceByOthers == ASSUME Typed, EvidenceInv, Others PROVE EvidenceInv'
<1>1. CASE Edit \/ StartByHand \/ StopByHand \/ \E n \in Names : SetDefault(n)
  BY <1>1, EvidenceSame
     DEF Edit, StartByHand, StopByHand, SetDefault, voices, evidence
<1>2. CASE Kill
  <2>1. UNCHANGED <<output, library, modelrig>> /\ console'.pc = "idle"
    BY <1>2 DEF Kill, voices, Idle
  <2>2. report' \in {report, NoReport} /\ ~NoReport.complete
    BY <1>2 DEF Kill, NoReport
  <2> QED
    BY <2>1, <2>2 DEF EvidenceInv, MeasuredInv, ArtifactsInv, Measuring
<1>3. CASE LoseArtifact
  <2>1. UNCHANGED <<report, library, modelrig, console>>
    BY <1>3 DEF LoseArtifact, voices
  <2>2. /\ output'.package \in {output.package, None}
        /\ output'.reference \in {output.reference, None}
        /\ output'.speech \in {output.speech, None}
    <3>1. \/ output' = output
          \/ \E a \in {"package", "reference", "speech"} : output' = [output EXCEPT ![a] = None]
      BY <1>3 DEF LoseArtifact, NoOutput
    <3> QED
      BY <3>1 DEF Typed, Outputs
  <2>3. report.complete => report.id # None
    BY DEF Typed
  <2> QED
    BY <2>1, <2>2, <2>3 DEF EvidenceInv, MeasuredInv, ArtifactsInv
<1>4. ASSUME NEW n \in Names, BuildInBrowser(n) PROVE EvidenceInv'
  <2>1. /\ Publishes(n, TRUE) /\ UNCHANGED <<output, report>>
        /\ console'.pc = console.pc /\ console'.id = console.id /\ console'.sound = console.sound
        /\ console'.crossed = (console.crossed \/ n = Name)
    BY <1>4 DEF BuildInBrowser, evidence, Typed, Consoles
  <2>2. CASE n = Name
    <3>1. library'[Name] # None /\ (report.complete => library'[Name] > report.id)
      BY <2>1, <2>2, YoungerVoice, PublishesTyped
    <3> QED
      BY <2>1, <2>2, <3>1 DEF EvidenceInv, MeasuredInv, ArtifactsInv
  <2>3. CASE n # Name
    <3>1. library'[Name] = library[Name] /\ modelrig'[Name] = modelrig[Name]
      BY <2>1, <2>3, GateAssumption DEF Publishes, Typed
    <3> QED
      BY <2>1, <2>3, <3>1 DEF EvidenceInv, MeasuredInv, ArtifactsInv
  <2> QED
    BY <2>2, <2>3
<1> QED
  BY <1>1, <1>2, <1>3, <1>4 DEF Others

LEMMA EvidenceByValidation == ASSUME Typed, EvidenceInv, Validating PROVE EvidenceInv'
<1> USE DEF At, Measuring
<1>1. ~NoReport.complete
  BY DEF NoReport
<1>2. CASE \E full, strict, piper \in BOOLEAN : BeginValidation(full, strict, piper)
  BY <1>2, EvidenceSame DEF BeginValidation, voices, evidence, Idle
<1>3. CASE Identify
  <2>1. console'.pc \in {"build", "preflight"}
    BY <1>3 DEF Identify, Typed, Consoles
  <2> QED
    BY <1>3, <2>1, EvidenceSame DEF Identify, voices, evidence
<1>11. ASSUME UNCHANGED <<output, library, modelrig>>, report' = report \/ ~report'.complete,
              console'.pc \in {"idle", "check", "augment"}
       PROVE  EvidenceInv'
  BY <1>11 DEF EvidenceInv, MeasuredInv, ArtifactsInv
<1>12. ASSUME UNCHANGED <<output, library, modelrig>>, WriteFails
       PROVE  EvidenceInv'
  BY <1>1, <1>11, <1>12 DEF WriteFails, Idle
<1>4. CASE IdentityFailure \/ Preflight \/ StageFails
  <2>1. UNCHANGED <<output, library, modelrig>>
    BY <1>4 DEF IdentityFailure, Preflight, StageFails, voices
  <2>2. CASE WriteFails
    BY <1>12, <2>1, <2>2
  <2>3. CASE ~WriteFails
    <3>1. console'.pc \in {"idle", "check", "augment"}
      BY <1>4, <2>3
         DEF IdentityFailure, Preflight, StageFails, Writes, Goes, Ends, Idle, Typed, Consoles
    <3>2. ~report'.complete
      BY <1>4, <1>1, <2>3 DEF IdentityFailure, Preflight, StageFails, Writes, NoReport
    <3> QED
      BY <1>11, <2>1, <3>1, <3>2
  <2> QED
    BY <2>2, <2>3
<1>13. CASE Refused
  BY <1>13, EvidenceSame DEF Refused, voices, evidence, Idle
<1>5. CASE Build
  <2>1. PICK installed \in BOOLEAN, fine \in BOOLEAN :
          /\ Publishes(Name, installed)
          /\ console' = [console EXCEPT !.pc = "download", !.sound = installed /\ fine]
    BY <1>5 DEF Build
  <2>2. console'.pc = "download" /\ (console'.sound => installed)
    BY <2>1 DEF Typed, Consoles
  <2>3. /\ library'[Name] # None /\ (report.complete => library'[Name] > report.id)
        /\ installed => modelrig'[Name] = library'[Name]
    BY <2>1, YoungerVoice, PublishesTyped, GateAssumption
  <2>4. UNCHANGED <<output, report>>
    BY <1>5 DEF Build, evidence
  <2> QED
    BY <2>2, <2>3, <2>4 DEF EvidenceInv, MeasuredInv, ArtifactsInv
<1>6. CASE Download
  <2>1. /\ console'.pc = "extract" /\ console'.id = library[Name]
        /\ console'.sound = console.sound /\ console'.crossed = console.crossed
        /\ output'.package = library[Name] /\ console.pc = "download"
    BY <1>6 DEF Download, Typed, Consoles, Outputs
  <2>2. UNCHANGED <<report, library, modelrig>>
    BY <1>6 DEF Download, voices
  <2>3. report.complete => library[Name] > report.id /\ library[Name] \in Nat /\ report.id \in Nat
    BY <2>1, GateAssumption DEF EvidenceInv, MeasuredInv, Typed, Made, Reports
  <2> QED
    BY <2>1, <2>2, <2>3 DEF EvidenceInv, MeasuredInv, ArtifactsInv
<1>7. CASE ExtractReference \/ Speak
  <2>1. /\ UNCHANGED <<report, library, modelrig>> /\ output'.package = output.package
        /\ console'.id = console.id
        /\ console'.sound = console.sound /\ console'.crossed = console.crossed
    BY <1>7 DEF ExtractReference, Speak, voices, Goes, Typed, Consoles, Outputs
  <2>2. report.complete => output.package # report.id
    <3>1. report.complete => console.id > report.id /\ console.id \in Nat /\ report.id \in Nat
      BY <1>7, GateAssumption
         DEF ExtractReference, Speak, EvidenceInv, MeasuredInv, Typed, Consoles, Made, Reports
    <3>2. output.package \in {console.id, None}
      BY <1>7 DEF ExtractReference, Speak, EvidenceInv, MeasuredInv
    <3> QED
      BY <3>1, <3>2, GateAssumption
  <2>3. \/ console.pc = "extract" /\ console'.pc = "speak" /\ output'.reference = output.package
        \/ /\ console.pc = "speak" /\ console'.pc = "probe" /\ output'.speech = modelrig[Name]
           /\ output'.reference = output.reference
    BY <1>7 DEF ExtractReference, Speak, Goes, Typed, Consoles, Outputs
  <2> QED
    BY <2>1, <2>2, <2>3 DEF EvidenceInv, MeasuredInv, ArtifactsInv
<1>8. CASE Probe
  <2>1. UNCHANGED <<output, library, modelrig>> /\ console.pc = "probe"
    BY <1>8 DEF Probe, voices
  <2>2. CASE WriteFails
    BY <1>12, <2>1, <2>2
  <2>3. CASE ~WriteFails
    <3>1. /\ console'.pc = "augment" /\ (report'.ok => console.sound)
          /\ report'.id = console.id /\ report'.crossed = console.crossed
      BY <1>8, <2>3 DEF Probe, Writes, Goes, NoReport, Typed, Consoles
    <3> QED
      BY <2>1, <3>1 DEF EvidenceInv, MeasuredInv, ArtifactsInv
  <2> QED
    BY <2>2, <2>3
<1>9. CASE Augment
  <2>1. /\ UNCHANGED <<output, library, modelrig>>
        /\ report'.complete = report.complete /\ report'.ok = report.ok
        /\ report'.id = report.id /\ report'.crossed = report.crossed
        /\ console'.pc \in {"idle", "check"}
    BY <1>9, EndsTyped DEF Augment, Typed, Reports, voices
  <2> QED
    BY <2>1 DEF EvidenceInv, MeasuredInv, ArtifactsInv
<1>10. CASE AugmentFails
  BY <1>1, <1>10, <1>11, EndsTyped DEF AugmentFails, voices
<1> QED
  BY <1>2, <1>3, <1>4, <1>5, <1>6, <1>7, <1>8, <1>9, <1>10, <1>13 DEF Validating

LEMMA EvidenceStep == Typed /\ EvidenceInv /\ [Next]_vars => EvidenceInv'
<1> SUFFICES ASSUME Typed, EvidenceInv, [Next]_vars PROVE EvidenceInv'
  OBVIOUS
<1>1. CASE Falling
  <2>1. UNCHANGED <<report, output, library, modelrig>>
    BY <1>1 DEF Falling, CheckService, Before, StopService, AwaitPiper, SpeakWithPiper,
                RestartService, VerifyService, ReportFallback, voices, evidence
  <2>2. console'.pc \in {"idle"} \cup Testing
    <3>1. CASE CheckService
      BY <3>1 DEF CheckService, Idle, Typed, Consoles, Testing
    <3>2. CASE Before
      BY <3>2 DEF Before, Idle, Typed, Consoles, Testing
    <3>3. CASE StopService \/ AwaitPiper \/ SpeakWithPiper
      BY <3>3, TestMoves DEF StopService, AwaitPiper, SpeakWithPiper, Testing
    <3>4. CASE RestartService
      BY <3>4, RestartMoves DEF Testing
    <3>6. CASE VerifyService
      BY <3>6 DEF VerifyService, Typed, Consoles, Testing
    <3>5. CASE ReportFallback
      BY <3>5 DEF ReportFallback, Idle
    <3> QED
      BY <1>1, <3>1, <3>2, <3>3, <3>4, <3>5, <3>6 DEF Falling
  <2> QED
    BY <2>1, <2>2, EvidenceSame DEF Testing, Measuring
<1>2. CASE BeginGate \/ EndGate \/ GateRefused
  <2>1. console'.pc \in {"idle", "gate"}
    <3>1. CASE BeginGate
      BY <3>1 DEF BeginGate, Idle
    <3>2. CASE EndGate \/ GateRefused
      BY <3>2 DEF EndGate, GateRefused, Idle
    <3> QED
      BY <1>2, <3>1, <3>2
  <2> QED
    BY <1>2, <2>1, EvidenceSame DEF BeginGate, EndGate, GateRefused, voices, evidence, Measuring
<1>3. CASE UNCHANGED vars
  BY <1>3, EvidenceSame DEF vars, voices, evidence
<1> QED
  BY <1>1, <1>2, <1>3, EvidenceByOthers, EvidenceByValidation DEF Next

\* The package, the reference and the speech that pass come from one voice, the reported one,
\* however many validations were cut short, unless a build of that name came in between.
THEOREM EvidenceIsOneRunAlways == Spec => EvidenceIsOneRun
<1> DEFINE OneRun == Passes /\ ~report.crossed => \A a \in DOMAIN NoOutput : output[a] = report.id
<1>1. Init => EvidenceInv
  BY DEF Init, EvidenceInv, MeasuredInv, ArtifactsInv, Idle, NoReport, Measuring
<1>2. Typed /\ EvidenceInv => OneRun
  <2> SUFFICES ASSUME Typed, EvidenceInv, Passes, ~report.crossed
               PROVE  \A a \in DOMAIN NoOutput : output[a] = report.id
    OBVIOUS
  <2>1. report.ok /\ report.complete /\ output.package = report.id
    BY DEF Passes, EndGate, ReleaseReady, ValidationPasses, ArtifactsWhole
  <2>2. \A a \in {"package", "reference", "speech"} : output[a] # None
    BY DEF Passes, EndGate, ReleaseReady, ArtifactsWhole, NoOutput
  <2>3. /\ output["package"] = report.id
        /\ output["reference"] = report.id /\ output["speech"] = report.id
    BY <2>1, <2>2 DEF EvidenceInv, ArtifactsInv
  <2> QED
    BY <2>3 DEF NoOutput
<1>3. Spec => []EvidenceInv
  BY <1>1, EvidenceStep, AlwaysTyped, PTL DEF Spec
<1>4. Typed /\ EvidenceInv /\ [Next]_vars => [OneRun]_vars
  BY <1>2
<1>5. Spec => [][OneRun]_vars
  BY <1>3, <1>4, AlwaysTyped, PTL DEF Spec
<1> QED
  BY <1>5 DEF EvidenceIsOneRun
=============================================================================
