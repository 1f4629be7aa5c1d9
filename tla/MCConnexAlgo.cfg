CONSTANTS
    MCN = 4
    N = 4
    Networks <- MCNetworks
SPECIFICATION SearchSpec
INVARIANTS
    GroupIsComponent
    OneCallPerNode
    SearchInv
PROPERTIES
    ImplementsMainConnex
    Termination
