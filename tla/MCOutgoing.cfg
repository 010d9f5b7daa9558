\* A message that may be posted twice, with everything lost or broken once.
CONSTANTS
  r1 = r1  r2 = r2  r3 = r3
  Requests = {r1, r2}
  MaxClicks = 2
  MaxFrames = 2
  MaxTroubles = 1
SPECIFICATION Spec
SYMMETRY Symmetric
CHECK_DEADLOCK FALSE
INVARIANTS PageTruthful CopiesWarned DeletedStaysHidden PageConverges
