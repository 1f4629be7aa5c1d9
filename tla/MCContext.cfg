CONSTANTS
    N = 4
    NoNode = NoNode
    Networks <- MCNetworks
    Descriptions <- MCDescriptions
    Automaton = {"tapChangers", "shuntControl"}
    Required <- MCRequired
SPECIFICATION Spec
INVARIANTS
    SlackInMainComponent
    SlackIsBest
    VerdictIsRight
PROPERTIES
    FileSlackKept
    MainComponentFound
