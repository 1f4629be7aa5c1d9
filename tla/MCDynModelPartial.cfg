CONSTANTS
    N = 3
    Inputs <- MCInputs
SPECIFICATION Spec
INVARIANT NoPartialModel
