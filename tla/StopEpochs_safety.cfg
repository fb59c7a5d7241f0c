SPECIFICATION Spec
CONSTANTS
  a = a
  b = b
  new = new
  old = old
  Null = Null
  Callers <- TwoCallers
  Operations = {new, old}
  Legacy = {old}
  Peers = {"p1", "p2"}
  Digests = {"d1", "d2"}
  Reasons = {"r"}
  Times = {0, 1}
  MaxInt = 4
  MaxReceipts = 2
SYMMETRY CallerSymmetry
INVARIANTS
  ExecutedInItsEpoch
  StopIsForever
  RevisionNamesState
  RevisionCounts
PROPERTIES
  EvidenceStays
