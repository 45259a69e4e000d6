\* No fault: a change falls between two inotifywaits.
SPECIFICATION Spec
CONSTANTS
  Configs = {g1, g2}
  Invalid = {}
  Clashing = {}
  FirstConfig = g1
  Burst = 5
  MaxFaults = 0
INVARIANT RunsTheFile
