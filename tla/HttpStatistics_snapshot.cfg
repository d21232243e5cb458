\* Two sessions on two threads, a reader and a restart.
CONSTANTS
  ThreadNum = 2
  Sessions = {s1, s2}
  MaxRequests = 1
  MaxRuns = 2
  CntMax = 3
SPECIFICATION Spec
SYMMETRY Symmetry
INVARIANTS TypeOK SnapshotOrdered SnapshotWrites SnapshotBusy
