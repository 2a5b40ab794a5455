---------------------------- MODULE MCComponents ----------------------------
(* Parts of the node and contracts that act one step at a time: what a     *)
(* checkpoint decides (penalties, rewards, the shuffle of the validators,  *)
(* the secrets), how a synchronising node imports around it, and the       *)
(* contracts of the tokens and of the shared wallet.  A behaviour is one   *)
(* of a single component, mode; v1, v2, ...  are that component's          *)
(* variables, and those it has no use for are 0.                           *)
EXTENDS Integers, Sequences, FiniteSets

VARIABLES mode, v1, v2, v3, v4, v5, v6, v7, v8, v9, v10, v11, v12, v13, v14, v15,
          v16, v17, v18

\* Masternode a: its owner and a voter that is listed twice; b is owned by the
\* foundation, and one of its voters has withdrawn.
MCStakes == [a |-> [owner |-> "o", voters |-> <<"o", "v", "v">>, cap |-> [o |-> 2, v |-> 1]],
             b |-> [owner |-> "f", voters |-> <<"v", "w">>, cap |-> [v |-> 1, w |-> 0]]]

Pn == INSTANCE Penalties WITH
    Account <- {"a", "b", "c"}, LimitPenaltyEpoch <- 2, era <- v1,
    window <- v2, made <- v3
Rw == INSTANCE Rewards WITH
    Master <- {"a", "b"}, Lists <- {{"a"}, {"a", "b"}}, Stakes <- MCStakes,
    Foundation <- "f", rCheckpoint <- 2, MergeSignRange <- 2,
    TIP2019Block <- 3, chainReward <- 1001, MaxNumber <- 6, blocks <- v1,
    lists <- v2, counted <- v3
Sh == INSTANCE M2Shuffle WITH
    MaxSigners <- 6, lenSigners <- v1, blockValidator <- v2, randIndexs <- v3,
    i <- v4
Rz == INSTANCE Randomize WITH
    Epoch <- 5, EpocBlockSecret <- 1, EpocBlockOpening <- 3, MaxNumber <- 11,
    MaxKeys <- 4, MaxCrashes <- 2, number <- v1, pool <- v2,
    randomSecret <- v3, randomOpening <- v4, randomizeKey <- v5, call <- v6,
    signed <- v7, keys <- v8, crashes <- v9, lastSecret <- v10, reverted <- v11
Fs == INSTANCE FullSync WITH
    Epoch <- 5, Gap <- 2, MaxResults <- 12, MaxNumber <- 16, head <- v1,
    results <- v2, i <- v3, inserts <- v4, verified <- v5, status <- v6
Tf == INSTANCE TokenFees WITH
    Users <- {"u", "w"}, Issuer <- "u", Miner <- "m", SMC <- "c",
    GasLimit <- 2, GasPrice <- 2, Coins <- 14, Supply <- 2, minCap <- 4,
    minFee <- 1, MaxBlocks <- 2, coin <- v1, balances <- v2, allowed <- v3,
    tokensState <- v4, listed <- v5, balanceFee <- v6, feeUsed <- v7,
    updated <- v8, blocks <- v9, charged <- v10, overwritten <- v11,
    minted <- v12
Ms == INSTANCE MultiSigWallet WITH
    Account <- {"a", "b", "c"}, Null <- "0", Initial <- <<"a", "b">>,
    Required <- 2, MAX_OWNER_COUNT <- 3, MaxTransactions <- 2, MaxDepth <- 2,
    wallet <- v1, transactions <- v2, confirmations <- v3, calls <- v4,
    runs <- v5
Fd == INSTANCE Feed WITH
    Sub <- {1, 2, 3}, Chan <- <<"c", "c", "d">>, Value <- {"v", "w"},
    Capacity <- 1, sub <- v1, inbox <- v2, sendCases <- v3, active <- v4,
    stage <- v5, value <- v6, i <- v7, nsent <- v8, left <- v9, got <- v10,
    read <- v11, must <- v12, may <- v13
Ci == INSTANCE ChainIndexer WITH
    sectionSize <- 2, confirmsReq <- 1, MaxNumber <- 5, MaxReorgs <- 2,
    MaxFailures <- 1, EventBuffer <- 2, head <- v1, canonical <- v2,
    version <- v3, events <- v4, prev <- v5, reorged <- v6, known <- v7,
    stored <- v8, sectionHead <- v9, update <- v10, timer <- v11,
    section <- v12, oldHead <- v13, lastHead <- v14, number <- v15,
    stage <- v16, failures <- v17, raced <- v18

vars == <<mode, v1, v2, v3, v4, v5, v6, v7, v8, v9, v10, v11, v12, v13, v14, v15, v16,
         v17, v18>>

Init ==
    \/ /\ mode = "penalties" /\ Pn!Init
       /\ v4 = 0 /\ v5 = 0 /\ v6 = 0 /\ v7 = 0 /\ v8 = 0 /\ v9 = 0 /\ v10 = 0
       /\ v11 = 0 /\ v12 = 0 /\ v13 = 0 /\ v14 = 0 /\ v15 = 0 /\ v16 = 0 /\ v17 = 0
       /\ v18 = 0
    \/ /\ mode = "rewards" /\ Rw!Init
       /\ v4 = 0 /\ v5 = 0 /\ v6 = 0 /\ v7 = 0 /\ v8 = 0 /\ v9 = 0 /\ v10 = 0
       /\ v11 = 0 /\ v12 = 0 /\ v13 = 0 /\ v14 = 0 /\ v15 = 0 /\ v16 = 0 /\ v17 = 0
       /\ v18 = 0
    \/ /\ mode = "shuffle" /\ Sh!Init
       /\ v5 = 0 /\ v6 = 0 /\ v7 = 0 /\ v8 = 0 /\ v9 = 0 /\ v10 = 0 /\ v11 = 0
       /\ v12 = 0 /\ v13 = 0 /\ v14 = 0 /\ v15 = 0 /\ v16 = 0 /\ v17 = 0 /\ v18 = 0
    \/ /\ mode = "randomize" /\ Rz!Init
       /\ v12 = 0 /\ v13 = 0 /\ v14 = 0 /\ v15 = 0 /\ v16 = 0 /\ v17 = 0 /\ v18 = 0
    \/ /\ mode = "fullsync" /\ Fs!Init
       /\ v7 = 0 /\ v8 = 0 /\ v9 = 0 /\ v10 = 0 /\ v11 = 0 /\ v12 = 0 /\ v13 = 0
       /\ v14 = 0 /\ v15 = 0 /\ v16 = 0 /\ v17 = 0 /\ v18 = 0
    \/ /\ mode = "token" /\ Tf!Init
       /\ v13 = 0 /\ v14 = 0 /\ v15 = 0 /\ v16 = 0 /\ v17 = 0 /\ v18 = 0
    \/ /\ mode = "wallet" /\ Ms!Init
       /\ v6 = 0 /\ v7 = 0 /\ v8 = 0 /\ v9 = 0 /\ v10 = 0 /\ v11 = 0 /\ v12 = 0
       /\ v13 = 0 /\ v14 = 0 /\ v15 = 0 /\ v16 = 0 /\ v17 = 0 /\ v18 = 0
    \/ /\ mode = "feed" /\ Fd!Init
       /\ v14 = 0 /\ v15 = 0 /\ v16 = 0 /\ v17 = 0 /\ v18 = 0
    \/ /\ mode = "indexer" /\ Ci!Init

Next ==
    \/ /\ mode = "penalties" /\ Pn!Next
       /\ UNCHANGED <<mode, v4, v5, v6, v7, v8, v9, v10, v11, v12, v13, v14,
                        v15, v16, v17, v18>>
    \/ /\ mode = "rewards" /\ Rw!Next
       /\ UNCHANGED <<mode, v4, v5, v6, v7, v8, v9, v10, v11, v12, v13, v14,
                        v15, v16, v17, v18>>
    \/ /\ mode = "shuffle" /\ Sh!Next
       /\ UNCHANGED <<mode, v5, v6, v7, v8, v9, v10, v11, v12, v13, v14, v15,
                        v16, v17, v18>>
    \/ /\ mode = "randomize" /\ Rz!Next
       /\ UNCHANGED <<mode, v12, v13, v14, v15, v16, v17, v18>>
    \/ /\ mode = "fullsync" /\ Fs!Next
       /\ UNCHANGED <<mode, v7, v8, v9, v10, v11, v12, v13, v14, v15, v16,
                        v17, v18>>
    \/ /\ mode = "token" /\ Tf!Next
       /\ UNCHANGED <<mode, v13, v14, v15, v16, v17, v18>>
    \/ /\ mode = "wallet" /\ Ms!Next
       /\ UNCHANGED <<mode, v6, v7, v8, v9, v10, v11, v12, v13, v14, v15,
                        v16, v17, v18>>
    \/ /\ mode = "feed" /\ Fd!Next
       /\ UNCHANGED <<mode, v14, v15, v16, v17, v18>>
    \/ /\ mode = "indexer" /\ Ci!Next
       /\ UNCHANGED <<mode>>

Spec == Init /\ [][Next]_vars

-----------------------------------------------------------------------------
\* HookPenaltyTIPSigning: whom a checkpoint penalises is no masternode of its
\* epoch and of the next ones; nobody is penalised for two reasons at once,
\* and whoever created a block stays while a candidate.
PenaltyServed ==
    mode = "penalties" => Pn!PenaltyServed /\ Pn!PenalisedOnce /\ Pn!MinersStay

\* GetRewardForCheckpoint: a signature sent in time is paid for at exactly one
\* checkpoint, and the roundings of CalculateRewardForSigner and
\* CalculateRewardForHolders never pay out more than the reward.
SignaturesPaidOnce ==
    mode = "rewards" => Rw!RewardedOnce /\ Rw!SignaturesPaid /\ Rw!PaidWithinReward

\* GenM2FromRandomize: every masternode is drawn as validator once, and none
\* for itself.
Derangement == mode = "shuffle" => Sh!DrawnOnce /\ Sh!NoneForItself

\* CreateTransactionSign: the key in the database opens the last secret sent,
\* and an opening that is sent opens the secret of its epoch.
OpeningMatches == mode = "randomize" => Rz!KeyIsForLastSecret /\ Rz!OpeningMatches

\* processFullSyncContent: a checkpoint header is verified on the state of its
\* parent, and every header after what it depends on was written.
VerifiedInOrder == mode = "fullsync" => Fs!CheckpointOnParent /\ Fs!DependsOnWritten

\* UpdateTRC21Fee: the issuer contract holds the coins behind the fee
\* capacities; no fee creates or destroys tokens, and coins only appear where
\* the miner is paid at the gas price.
CapacityBacked ==
    mode = "token" =>
        /\ Tf!TypeOK /\ Tf!SupplyKept /\ Tf!CapacityBacked /\ Tf!CapacityExact
        /\ Tf!CoinsAccountedFor

\* executeTransaction: a transaction runs only with the confirmations of a
\* quorum of the present owners and only once, be it re-entered; the owners'
\* list and map agree and can meet the quorum.
QuorumToExecute ==
    [][mode = "wallet" => Ms!QuorumStep /\ (Ms!TypeOK /\ Ms!OwnersAgree /\ Ms!RunsOnce)']_vars

\* Feed.Send: when it returns, every subscription has got the value exactly
\* once; nothing is sent to a channel after Unsubscribe returned, and inbox
\* and cases have an entry for every subscription.
DeliversOnce ==
    [][mode = "feed" => Fd!DeliversOnceStep /\ Fd!SilentWhenOffStep /\ (Fd!TypeOK /\ Fd!CasesExact)']_vars

\* ChainIndexer: the head of a section descends from the head of the one
\* before, and a stored section is canonical unless a reorganisation came
\* while it was stored.
SectionsStored ==
    mode = "indexer" => Ci!TypeOK /\ Ci!SectionsLinked /\ Ci!StoredIsCanonicalUnlessRaced
=============================================================================
