--------------------------- MODULE BuildQuestions ---------------------------
(***************************************************************************)
(* From clips to the speech a voice is made of: create_voice in            *)
(* app/pipeline.py and the two questions it may put through app/jobs.py.   *)
(*                                                                         *)
(* A build that needs an answer ends, and begins again from the clips when *)
(* it has it. All it keeps is a moment at which the chosen speaker talks,  *)
(* and the number of the chosen reference. Everything else is found anew,  *)
(* by an analysis that may read the same clips differently: the service    *)
(* may have been restarted or updated in between. Cancellation, crashes    *)
(* and the queue are in VoiceJobs.                                         *)
(***************************************************************************)
EXTENDS References

CONSTANTS
  Scenes,      \* what may be uploaded: sequences of clips
  Fallback,    \* VOICERIG_ALLOW_UNDIARIZED
  None,
  Unavailable  \* the outcome of an analysis that failed

ASSUME SceneAssumption ==
  /\ Fallback \in BOOLEAN
  /\ Scenes \subseteq Seq(Clips)

Outcomes == Readings \cup {Unavailable}

\* A moment of an upload, a candidate, and what a voice is built from.
Moments == [clip : Nat, time : Nat]
Candidates == [kind : {"turn", "pooled", "window"},
               parts : Seq([clip : Nat, start : Nat, length : Nat]), score : Int]
Packages == [reading : Outcomes, primary : Candidates, backups : Seq(Candidates)]

\* No answer is not an answer, no package not a package.
ASSUME NoneAssumption == None \notin 1..MaxChoices /\ None \notin Moments /\ None \notin Packages

VARIABLES
  scene,     \* the uploaded clips
  state,     \* the job's state
  anchor,    \* its speaker_anchor
  reference, \* its reference_choice
  question,  \* what is put to the user, and the reading it comes from
  package,   \* the speech the voice was built from, None before
  heard,     \* history: the voices in the preview of the chosen speaker
  audition,  \* history: the question the reference was chosen in
  asked      \* history: how often each question was put

answers == <<anchor, reference>>
history == <<heard, audition>>
vars == <<scene, state, answers, question, package, history, asked>>

NoQuestion == [reading |-> None, choices |-> <<>>]

TypeOK ==
  /\ scene \in Scenes
  /\ state \in {"queued", "needs_speaker", "needs_reference", "succeeded", "failed"}
  /\ anchor = None \/ anchor \in Moments
  /\ reference = None \/ reference \in 1..MaxChoices
  /\ state \in {"needs_speaker", "needs_reference"} <=> question # NoQuestion
  /\ question # NoQuestion => Len(question.choices) \in 2..MaxChoices
  /\ state = "succeeded" <=> package # None
  /\ package = None \/ package \in Packages
  /\ package # None => Len(package.backups) < MaxChoices
  /\ heard \subseteq Voices

Init ==
  /\ scene \in Scenes
  /\ state = "queued" /\ anchor = None /\ reference = None
  /\ question = NoQuestion /\ package = None
  /\ heard = {} /\ audition = NoQuestion
  /\ asked = [needs_speaker |-> 0, needs_reference |-> 0]

-----------------------------------------------------------------------------
(* A run of create_voice. *)

\* The turns the references are taken from, by clip; None if the run ends for want of them.
Turns(analysis, clusters) ==
  LET chosen == IF anchor # None THEN ClusterFromAnchor(analysis, clusters, anchor)
                ELSE IF clusters = <<>> \/ Ambiguous(clusters) THEN {} ELSE {1}
  IN IF chosen # {} THEN SegmentsForCluster(analysis, clusters[Max(chosen)])
     ELSE IF Fallback /\ (analysis = Unavailable \/ (clusters = <<>> /\ anchor = None))
          THEN [c \in DOMAIN scene |-> <<>>]
          ELSE None

\* The choices to be put, none if there is no doubt about the speaker.
SpeakersInDoubt(analysis, clusters) ==
  IF anchor = None /\ Ambiguous(clusters) THEN SpeakerChoices(scene, analysis, clusters)
                                          ELSE <<>>

Ranked(turns) == IF turns = None THEN <<>> ELSE RankReferences(scene, turns)

Ask(kind, reading, choices) ==
  /\ state' = kind
  /\ question' = [reading |-> reading, choices |-> choices]
  /\ asked' = [asked EXCEPT ![kind] = @ + 1]

\* Mutant: a question with a single choice.
AskEvenOne(reading, choices) ==
  /\ choices # <<>>
  /\ Ask("needs_speaker", reading, choices) /\ reference' = None
  /\ UNCHANGED <<anchor, package>>

\* SpeakerSelectionRequired: _run forgets the reference.
AskSpeaker(reading, choices) ==
  /\ Len(choices) > 1
  /\ Ask("needs_speaker", reading, choices) /\ reference' = None
  /\ UNCHANGED <<anchor, package>>

\* ReferenceSelectionRequired, after every candidate has been tried with the engine.
AskReference(reading, ranked) ==
  /\ reference = None /\ Len(ranked) > 1
  /\ Ask("needs_reference", reading, ranked)
  /\ UNCHANGED <<answers, package>>

\* Mutant: the number is taken for an index that begins with zero.
NextCandidate(chosen, ranked) == IF chosen = None THEN 1 ELSE Min({chosen + 1, Len(ranked)})

Selected(chosen, ranked) == IF chosen = None THEN 1 ELSE chosen

Build(reading, ranked) ==
  LET i == Selected(reference, ranked) IN
  /\ i \in DOMAIN ranked
  /\ reference = None => Len(ranked) < 2
  /\ package' = [reading |-> reading, primary |-> ranked[i],
                 backups |-> RemoveAt(ranked, i)]
  /\ state' = "succeeded"
  /\ UNCHANGED <<answers, question, asked>>

\* No speaker, no reference, one that cannot be cut, a reference that is no more.
Fail(ranked) ==
  /\ \/ ranked = <<>>
     \/ \E x \in ToSet(ranked) : ~Playable(scene, x)
     \/ reference # None /\ reference > Len(ranked)
  /\ state' = "failed"
  /\ UNCHANGED <<answers, question, package, asked>>

\* The rest of a run, from the references it has ranked.
Extract(outcome, ranked) ==
  \/ /\ \A x \in ToSet(ranked) : Playable(scene, x)
     /\ AskReference(outcome, ranked) \/ Build(outcome, ranked)
  \/ Fail(ranked)

\* Without an analysis there are no clusters.
Clusters(analysis) == IF analysis = Unavailable THEN <<>> ELSE SpeakerClusters(analysis)

Run(outcome) ==
  /\ state = "queued"
  /\ UNCHANGED <<scene, history>>
  /\ \E analysis \in {IF outcome = Unavailable THEN outcome ELSE Analysis(scene, outcome)} :
     \E clusters \in {Clusters(analysis)} :
     \E doubt \in {SpeakersInDoubt(analysis, clusters)} :
       \/ AskSpeaker(outcome, doubt)
       \/ Len(doubt) < 2 /\ Extract(outcome, Ranked(Turns(analysis, clusters)))

-----------------------------------------------------------------------------
(* The answers: choose_speaker and choose_reference of app/jobs.py. *)

PreviewVoices(choice) ==
  UNION {VoicesIn(scene[choice.anchor.clip], p.start, p.end) : p \in choice.parts}

\* Mutant: the anchor is forgotten with the question.
ForgetAnchor(i) ==
  /\ state = "needs_reference" /\ i \in DOMAIN question.choices
  /\ reference' = i /\ audition' = question /\ anchor' = None
  /\ state' = "queued" /\ question' = NoQuestion
  /\ UNCHANGED <<scene, package, heard, asked>>

ChooseSpeaker(i) ==
  /\ state = "needs_speaker" /\ i \in DOMAIN question.choices
  /\ anchor' = question.choices[i].anchor /\ reference' = None
  /\ heard' = PreviewVoices(question.choices[i])
  /\ state' = "queued" /\ question' = NoQuestion
  /\ UNCHANGED <<scene, package, audition, asked>>

ChooseReference(i) ==
  /\ state = "needs_reference" /\ i \in DOMAIN question.choices
  /\ reference' = i /\ audition' = question
  /\ state' = "queued" /\ question' = NoQuestion
  /\ UNCHANGED <<scene, anchor, package, heard, asked>>

Next ==
  \/ \E outcome \in Outcomes : Run(outcome)
  \/ \E i \in 1..MaxChoices : ChooseSpeaker(i) \/ ChooseReference(i)

Spec == Init /\ [][Next]_vars

-----------------------------------------------------------------------------
(* Properties. *)

Voiced(candidate) ==
  UNION {VoicesIn(scene[p.clip], p.start, p.start + p.length) : p \in ToSet(candidate.parts)}
Material == {package.primary} \cup ToSet(package.backups)

\* README: the choice is tied to a concrete turn. Of the clips in which the chosen speaker
\* was found, nothing gets into the voice but the voice that was heard when he was chosen,
\* however the second analysis labels and orders the speakers.
PickedSpeakerIsBuilt ==
  package # None /\ anchor # None =>
    \A x \in Material : x.kind # "window" => Voiced(x) = heard

\* The reference that was auditioned is the one the voice is built from, and the others in
\* their order are its backups, if the clips are read as they were for the audition.
ReferenceAsAuditioned ==
  package # None /\ reference # None /\ package.reading = audition.reading =>
    /\ package.primary = audition.choices[reference]
    /\ package.backups = RemoveAt(audition.choices, reference)

\* Answers are not lost, and readings that differ do not send the user in circles: at most a
\* reference, then the speaker after all, then a reference of his.
QuestionsEnd == asked.needs_speaker <= 1 /\ asked.needs_reference <= 2

\* Every offered preview can be chosen: the same reading finds the very speaker again.
AnchorsFindTheirSpeaker ==
  state = "needs_speaker" =>
    \A analysis \in {Analysis(scene, question.reading)} :
    \A clusters \in {SpeakerClusters(analysis)} :
    \A ch \in ToSet(question.choices) :
      ClusterFromAnchor(analysis, clusters, ch.anchor) = {ch.choice}

\* What is put to the user and into the package is worth it: no second of it is used twice
\* in one candidate, nor more than half of one in another.
CandidatesDiffer ==
  LET offered == IF state = "needs_reference" THEN question.choices
                 ELSE IF package # None THEN <<package.primary>> \o package.backups ELSE <<>>
  IN /\ \A i, k \in DOMAIN offered : i # k =>
          2 * Overlap(offered[i], offered[k]) <= Lasting(offered[i])
     /\ \A x \in ToSet(offered) : Overlap(x, x) = Lasting(x)

\* docs/ARCHITECTURE.md: references are turns of the same speaker.
OneSpeaker ==
  package # None /\ ~Fallback => \A x \in Material : Voiced(x) = Voiced(package.primary)
=============================================================================
