\* The watcher's safety and liveness with one commitment content and an
\* event queue of two.  Deadlock is not checked: a run stops only after the
\* watcher has panicked (a phase past DealingExchange hits todo!()) and the
\* bounded environment has nothing left to do.
CONSTANTS
    self = self
    other = other
    c1 = c1
    c2 = c2
    Addr <- MCAddr
    Validators <- MCAddr
    Commitments <- OneCommitment
    Self = self
    BlacklistWindow = 1
    MaxHeight = 0
    MaxEpoch = 0
    MaxEvents = 2
    MaxResets = 1
    LastPhase = "ComplaintSubmission"

SPECIFICATION Spec

INVARIANT WatcherTypeOK
PROPERTY DealerViewConverges
PROPERTY OwnKeyRegistered
PROPERTY OwnCommitmentCommitted
PROPERTY CommitmentViewConverges
CHECK_DEADLOCK FALSE
