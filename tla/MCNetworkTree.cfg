CONSTANTS
    N = 3
    NoNode = NoNode
    Descriptions <- MCDescriptions
SPECIFICATION Spec
INVARIANTS
    NodesExist
    NeighboursAreNetwork
    TreeMatchesFile
