CONSTANTS
    G = 3
    A = A
    B = B
    C = C
    Bus <- MCBus
    Descriptions <- MCDescriptions
SPECIFICATION Spec
INVARIANTS
    SharedModelsMatch
    OneVoltageController
    EveryUsableGeneratorDefined
