SPECIFICATION Spec
CONSTANTS
  c1 = c1
  c2 = c2
  i1 = i1
  i2 = i2
  None = None
  Callers = {c1, c2}
  Execs = {"x"}
  Inputs = {i1, i2}
  Times <- MCTimes
SYMMETRY MCSymmetry
INVARIANTS TypeOK EndAgreement EndsAfterStart StartIsStable EndRetryIsSafe
PROPERTY TerminalIsFinal
