SPECIFICATION MCSpec
CONSTANTS
  Handlers = {h1, h2}
  Nobody = Nobody
  Keys = {"k0", "k1", "k2"}
  Fingerprints = {"vi", "vi0", "en"}
  Identity <- MCIdentity
  Legacy = {"vi0"}
  LegacyPair <- MCLegacyPair
  Requests <- MCRequests
  OldAttempts = {}
  Unkeyed = "none"
  Lease = 1
  LockWait = 1
  MaxTime = 2
  LastServe = 2
  Rollout = FALSE
  Deletions = FALSE
CHECK_DEADLOCK FALSE
SYMMETRY AnyHandler
INVARIANTS
  OnePaidEvaluation
  KeepsWhatItSaid
PROPERTIES
  LiveLeaseIsKept
  KeepsPromise
