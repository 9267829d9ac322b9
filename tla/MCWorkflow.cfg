SPECIFICATION LiveSpec
CONSTANTS
    Nodes <- MCNodes
    Edges <- MCEdges
    MaxCommands = 1
    MaxFaults = 1
INVARIANTS
    FlowSound
PROPERTIES
    EndedStaysQuiet
    NeverSilentlyStuck
CHECK_DEADLOCK FALSE
