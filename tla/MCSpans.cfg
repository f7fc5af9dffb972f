SPECIFICATION Spec
CONSTANTS
  c1 = c1
  c2 = c2
  None = None
  Callers = {c1, c2}
  Requests <- MCRequests
  EventRequests <- MCEvents
  Unpriced = {"tokens"}
  Prices = {1, 2}
  MaxSeq = 4
SYMMETRY MCSymmetry
INVARIANTS CausalOrder HistoryMatches RecordedOnce PricedRetryIsSafe
PROPERTY FinishedIsFinal
