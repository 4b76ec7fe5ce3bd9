SPECIFICATION Spec
CONSTANTS
  Hosts = {h1, h2}
  Channels = {c1, c2}
  Buttons = {"autolock", "io", "pid", "reset", "capture"}
  Editable = {"host", "chan", "dac2", "gains"}
  Clicked = {1, 2}
  Timed = {}
  MAX_EDITS = 1
  MAX_RESETS = 0
  MAX_CHAINS = 0
  MAX_HANGS = 0
INVARIANTS LockIsWhole
PROPERTY PanelsAgree
CHECK_DEADLOCK FALSE
