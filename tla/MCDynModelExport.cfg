CONSTANTS
    N = 3
    Inputs <- MCInputs
SPECIFICATION Spec
INVARIANTS
    DocumentsAreFaithful
    CompleteModelsExported
    ConnectionsAreExact
    ConnectorsAreWritten
    CountsMatchConnections
    ReferencesMatchConnections
