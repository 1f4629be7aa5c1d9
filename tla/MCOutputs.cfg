CONSTANTS
    Name <- MCName
    Descriptions <- MCDescriptions
SPECIFICATION Spec
INVARIANTS
    ReferencesResolve
    IdsUnique
