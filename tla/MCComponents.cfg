SPECIFICATION Spec
CHECK_DEADLOCK FALSE
INVARIANTS PenaltyServed SignaturesPaidOnce Derangement OpeningMatches VerifiedInOrder
           CapacityBacked SectionsStored
PROPERTIES QuorumToExecute DeliversOnce
