CONSTANTS
    NoTx = NoTx
    Tx = {"t"}
    Difficulties = {1, 3}
    TriesInMemory = 1
    Worlds <- MCWorlds
SPECIFICATION Spec
CHECK_DEADLOCK FALSE
INVARIANTS ViewsAgree HeadUsable
PROPERTIES StopKeepsHead ImplementsForkChoice
