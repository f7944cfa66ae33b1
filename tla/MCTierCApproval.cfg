SPECIFICATION Spec
CONSTANTS
  Proposals = {p1, p2}
  Keys = {k1, k2}
  Assignments <- AllAssignments
  Ceiling = 2
SYMMETRY Symmetry
INVARIANTS OneUnresolved RowNeverDeniesAct ActOrDefault ClosedOwesDefault
PROPERTIES NoActOverUncertainty NoLateAct
