SPECIFICATION Spec
CONSTANTS
    Nodes <- MCNodes
    Console <- MCConsole
    BROADCAST = 0
    TxTypes = {"LED"}
    Overwritten <- MCOverwritten
    MaxCommands = 2
INVARIANTS AckEarned LedAgrees
PROPERTIES GoesQuiet
