CONSTANTS
    v1 = v1
    v2 = v2
    outsider = outsider
    c1 = c1
    Addr <- MCAddr
    Validators <- MCValidators
    Commitments <- MCCommitments
    BlacklistWindow = 1
    MaxHeight = 1
    MaxEpoch = 1

INIT ContractInit
NEXT ContractNext

SYMMETRY MCSymmetry

INVARIANT TypeOK
INVARIANT UniqueNodeIndex
INVARIANT NoCommitmentFromAbandonedEpoch
INVARIANT NoBlacklistingSurvives
PROPERTY ImplementsRegistry
