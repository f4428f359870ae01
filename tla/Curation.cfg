SPECIFICATION CurationSpec
CONSTANTS
    MaxSessions = 2
    Repositories <- AllRepositories
INVARIANTS
    OnlyPermissiveTexts
    CopyleftDistilled
