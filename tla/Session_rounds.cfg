SPECIFICATION Spec
CONSTANTS
    MAX_CODER_ROUNDS = 3
    MAX_ADVERSARY_ROUNDS = 2
    StepLimit = 16
    ArbiterOutputs <- MCOutputs
    PatchGuarded <- MCMixed
INVARIANTS
    TypeOK
    ChainLinear
    ApplyOnlyApproved
    GateFollowsVerdict
    WorktreeRecorded
    EndReason
    JudgedOnOwnEvidence
    OverrunOnlyByRubricFail
    SpecimenCoherent
    SpecimenLagsOneRound
PROPERTY
    ImplementsGatedApply
