SPECIFICATION Spec
CONSTANTS
  anna = anna
  bent = bent
  carl = carl
  Voices = {anna, bent, carl}
  Timbre <- MCTimbre
  Scenes <- Guest
  Fallback = FALSE
  None = None
  Unavailable = Unavailable
INVARIANT OneSpeaker
CHECK_DEADLOCK FALSE
