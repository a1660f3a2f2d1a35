SPECIFICATION Spec
CONSTANTS
  None = None
  Torn = Torn
  OldKey = OldKey
  OtherKey = OtherKey
  OldSnap = OldSnap
  a = a
  b = b
  c = c
  p = p
  q = q
  x = x
  y = y
  Tasks <- MCTasks
  Procs = {p, q}
  ProcOf <- MCProcOf
  Integrities = {x, y}
  ms1 = ms1
  ms2 = ms2
  Stamps <- MCStamps
  InitialEntries <- MCInitialEntries
SYMMETRY MCSymmetry
INVARIANTS
  GetSound
  NoTornEntry
  EstablishedKeyKept
CHECK_DEADLOCK FALSE
