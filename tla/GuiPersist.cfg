SPECIFICATION Spec
CONSTANTS
  Hosts = {h1}
  Channels = {c1}
  Buttons = {"capture"}
  Editable = {"valid"}
  Clicked = {1, 2}
  Timed = {3, 4}
  MAX_EDITS = 1
  MAX_RESETS = 1
  MAX_CHAINS = 1
  MAX_HANGS = 1
INVARIANTS CallsPerButton OnePersist
PROPERTIES ButtonComesBack KeepsRelocking
CHECK_DEADLOCK FALSE
