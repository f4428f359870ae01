SPECIFICATION DriverSpec
CONSTANTS
    MAX_CODER_ROUNDS = 2
    MAX_ADVERSARY_ROUNDS = 1
    StepLimit = 12
    ArbiterOutputs <- MCOutputs
    PatchGuarded <- MCSafe
    Callers = {"stream_updates"}
INVARIANT
    NothingAppliesSilently
