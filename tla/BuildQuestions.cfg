SPECIFICATION Spec
CONSTANTS
  anna = anna
  bent = bent
  carl = carl
  Voices = {anna, bent, carl}
  Timbre <- MCTimbre
  Scenes <- MCScenes
  Fallback = FALSE
  None = None
  Unavailable = Unavailable
INVARIANTS TypeOK PickedSpeakerIsBuilt ReferenceAsAuditioned QuestionsEnd AnchorsFindTheirSpeaker CandidatesDiffer
CHECK_DEADLOCK FALSE
