CONSTANTS
    self = self
    other = other
    c1 = c1
    c2 = c2
    Addr <- MCAddr
    Validators <- MCAddr
    Commitments <- OneCommitment
    Self = self
    BlacklistWindow = 1
    MaxHeight = 0
    MaxEpoch = 0
    MaxEvents = 2
    MaxResets = 1
    LastPhase = "ComplaintSubmission"

SPECIFICATION Spec

CHECK_DEADLOCK FALSE
PROPERTY ResubmitOnlyAfterExpiry
