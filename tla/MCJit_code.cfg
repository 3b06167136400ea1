SPECIFICATION MCSpec
CONSTANTS
  Size = 3
  Regs = {r0, r1}
  Width = 3
  ImmWidth = 3
  JumpOffset = 1
  JumpBits = 1
  MaxCond = 1
  Prologue = 2
  BranchWords = 3
  OtherWords = 1
SYMMETRY RegSymmetry
INVARIANTS LoopsClosed BoundedVisits JitFollows CallerUnharmed
PROPERTY LoopImplemented
