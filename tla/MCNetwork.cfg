CONSTANTS
    Nobody = Nobody
    GenesisBlock = GenesisBlock
    blockA = blockA
    blockB = blockB
SPECIFICATION Spec
CHECK_DEADLOCK FALSE
INVARIANTS FetcherExact TaskInOnePlace StoredIsComplete NothingForgotten StatesReadable
PROPERTY TakesComplete
