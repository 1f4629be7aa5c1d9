CONSTANTS
    NamespaceLines = 2
    NormalTrigger = 1
    TestTrigger = 2
    Macros = {"MACRO", "TEST", "TEST_F"}
    ExitModulus = 2
    Headers <- MCHeaders
    Templates <- MCTemplates
    Jobs <- MCJobs
SPECIFICATION Spec
INVARIANTS
    SuccessMeansClean
    SettingsOfFile
    NolintRespected
    CodeIsWhatIsLinted
    BlocksMatchBraces
    DuplicatesTogether
