SPECIFICATION Spec
CONSTANTS
  w1 = w1
  w2 = w2
  c1 = c1
  c2 = c2
  Diffs = {1}
  Clients = {c1, c2}
  Workers = {w1, w2}
  Comments = {1}
  Main = Main
  MaxFaults = 2
INVARIANTS OneWorker PostedOnce PublishedIsWhole
PROPERTIES EndedStaysEnded KeepsPromise ReviewsEnd
CHECK_DEADLOCK FALSE
