\* Commitment updates: two contents, so that after a reset the other
\* dealer may commit different content; an event queue of one.  Deadlock is
\* not checked, as in MCDKGWatcher.cfg.
CONSTANTS
    self = self
    other = other
    c1 = c1
    c2 = c2
    Addr <- MCAddr
    Validators <- MCAddr
    Commitments <- TwoCommitments
    Self = self
    BlacklistWindow = 1
    MaxHeight = 0
    MaxEpoch = 0
    MaxEvents = 1
    MaxResets = 1
    LastPhase = "ComplaintSubmission"

SPECIFICATION Spec

CHECK_DEADLOCK FALSE
PROPERTY CommitmentViewConverges
