CONSTANTS
    blockA = blockA  blockB = blockB  peer = peer
    None = None  Root = Root
    Peers = {peer}
    Blocks = {blockA, blockB}
    Number <- MCNumber
    Parent <- MCParent
    Worlds <- MCWorldsLive
    Honest = {peer}
    hashLimit = 2
    blockLimit = 2
    maxUncleDist = 0
    maxQueueDist = 2
SPECIFICATION FairSpec
PROPERTY FetcherMoves
