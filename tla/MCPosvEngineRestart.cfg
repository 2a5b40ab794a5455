CONSTANTS
    m1 = m1  m2 = m2  m3 = m3  m4 = m4
    Contract <- MCContract
    GenesisStakes = "genesis"
    NoAddress = NoAddress
    MaxMasternodes = 3
    SliceRoom = 2
    Comeback <- MCComeback
    Idlers <- MCIdlers
    Epoch = 3
    Scenarios <- MCRestart
    MaxBlocks = 5
    MaxVerifiers = 2
    MaxRestarts = 1
SPECIFICATION Spec
CHECK_DEADLOCK FALSE
INVARIANT CheckpointAccepted
