CONSTANTS
  Elections <- MCElections
  Epoch = 5
  MaxDown = 1
  CheckpointWait = 2
SPECIFICATION FairSpec
CHECK_DEADLOCK FALSE
INVARIANTS DifficultyTellsApart PairsSurvive
PROPERTY ChainGrows
