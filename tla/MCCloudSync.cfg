SPECIFICATION FairSpec
CONSTANTS
  Retention = 1
  MaxTime = 2
  MaxEvents = 1
  Asked = {"down"}
INVARIANTS TypeOK
PROPERTIES KeepsThePromise EverySnapshotCopied
