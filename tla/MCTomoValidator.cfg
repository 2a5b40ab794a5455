CONSTANTS
    u = u  v = v  c = c  d = d  Zero = Zero
    Account = {u, v}
    Candidate <- MCCandidate
    FirstOwner = u
    FirstCandidates <- MCFirstCandidates
    MinCandidateCap = 2
    MinVoterCap = 1
    CandidateWithdrawDelay = 2
    VoterWithdrawDelay = 1
    Values = {0, 1, 2}
    MaxBalance = 5
    MaxBlockNumber = 4
    MaxWithdraws = 2
SPECIFICATION Spec
CHECK_DEADLOCK FALSE
INVARIANTS BooksBalance StakesReachable CandidatesListedOnce
