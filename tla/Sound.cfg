CONSTANTS
  Text <- MCText
  Files = {"song"}
  Tones = {"tone"}
  Loops = 3
  Buttons = {"b1", "b2"}
SPECIFICATION SoundSpec
INVARIANTS NewestRequestIsHeard
