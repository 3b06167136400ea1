SPECIFICATION Spec
CONSTANTS
  Vms = {v, w}
  Seeds = {s1, s2}
  Inputs = {i1, i2}
  Versions = {"V1", "V2"}
  Chains = 2
  Modes = {nearest, down, caller}
  CallerMode = caller
  Nearest = nearest
  Platforms = {"linux", "darwin"}
SYMMETRY VmSymmetry
INVARIANTS HashIsReference CodeIsCurrent RoundingContained
