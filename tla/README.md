# TLA+ models of the TomoChain node

The repository is a fork of go-ethereum that replaces proof of work by *proof of
stake voting* (PoSV). Accounts stake coins in a contract. Gap blocks before the
end of an epoch the candidates with most stake become the *masternodes* of the
next epoch, the checkpoint header that opens the epoch lists them, and they take
turns in creating blocks; a second masternode validates each block. This
directory holds TLA+ models of the parts of the node where an order of events
that no test tries can go wrong, TLC configurations that check them on small
instances, and TLAPS proofs for what should hold at any size.

## The system

*Consensus.* Headers carry votes, and every Epoch blocks a checkpoint
(`consensus/posv`). The engine keeps snapshots of signers; the election at the
gap block comes from the staking contract (`contracts/validator`). At a
checkpoint the node penalises idle masternodes, pays rewards for the signatures
that the blocks of an earlier epoch got (`contracts/utils.go`,
`eth/backend.go`), and draws the second validators from random numbers that the
masternodes committed to (`contracts/randomize`).

*Chain.* `core/blockchain.go` verifies, executes and stores blocks, chooses the
heaviest branch, collects old states, and at a checkpoint tells `cmd/tomo` to
start or stop the miner. A block may reach it from the fetcher, the downloader,
the miner and, before its second signature, as a block to prepare. The
transaction pool, the chain indexer and RPC subscribers follow its head events
through `event.Feed`.

*Network.* `eth/fetcher` retrieves announced blocks, `eth/downloader`
synchronises with a peer's chain: headers, then bodies and receipts, and in fast
sync the state trie.

`PROJECT.json` lists every part with its state of modelling, the line ranges each
definition stands for, and the hazards the properties are about.

## Modules

| module | models | properties |
|---|---|---|
| `Snapshot`, `PosvVoting` | votes, tally, recent signers, elections and checkpoints along one chain of headers | `VotesCounted`, `NoConsecutiveBlocks`, `MembershipNeedsMajority` |
| `PosvEngine` | the engine's cache and store of snapshots, elections and checkpoint verification on a block tree with concurrent verifiers, a miner and restarts | `AcceptedUnlessFaulty`, `ElectionFromOwnBranch`, `RefusedOnlyIfBothFail` |
| `PosvRound` | turns, waiting, difficulty, first and second validators over two elections, masternodes that go down | `DifficultyTellsApart`, `PairsSurvive`, `ChainGrows` |
| `M2Shuffle` | the draw of the second validators | `Derangement` |
| `Penalties` | who is penalised at a checkpoint and for how long | `PenaltyServed` |
| `Rewards` | which signatures a checkpoint pays for, and the divisions of the reward | `SignaturesPaidOnce` |
| `Randomize` | the commitment to a secret, its opening, and the key in the database | `OpeningMatches` |
| `TomoValidator` | the staking contract | `BooksBalance`, `StakesReachable`, `CandidatesListedOnce` |
| `MultiSigWallet` | the wallet of several owners | `QuorumToExecute` |
| `TokenFees` | TRC21 tokens whose fees are paid from their issuer's capacity | `CapacityBacked` |
| `BlockChain`, `ForkChoice` | the canonical chain, one database write at a time, and what it promises | `ViewsAgree`, `HeadUsable`, `StopKeepsHead`, `ImplementsForkChoice` |
| `BlockPrep` | one block that several goroutines prepare, insert and download | `InsertedOnce` |
| `Staking` | starting and stopping the miner at checkpoints and around synchronisations | `AgentObeys`, `CheckpointServed` |
| `TxPool` | the transaction pool | `PoolExact`, `PendingExact`, `DropsExplained` |
| `Fetcher` | the block fetcher | `FetcherExact`, `FetcherMoves` |
| `DownloadQueue` | the downloader's queue of bodies and receipts | `TaskInOnePlace`, `TakesComplete` |
| `FullSync` | how downloaded blocks are cut into batches around checkpoints | `VerifiedInOrder` |
| `StateSync` | the download of a state trie | `StoredIsComplete`, `NothingForgotten` |
| `TrieDatabase` | the reference-counting cache of trie nodes | `StatesReadable` |
| `ChainIndexer` | the background index over sections of the chain | `SectionsStored`, `SectionsIndexed` |
| `Feed` | event subscriptions | `DeliversOnce`, `FeedReturns` |

`*Proofs` modules hold the theorems about the module they are named after, `*Lemmas`
modules what they rest on; `ComponentProofs` has those about `PosvRound`, `M2Shuffle`,
`FullSync` and `BlockPrep`. `MC*`
modules give the constants of a run. Definitions marked *Slip* are deliberate
mistakes, each beside the definition it distorts; no specification uses them.
Replacing the definition by its slip breaks the property listed with it in
`PROJECT.json` under `mutants`, which shows that the property depends on that
piece of code.

`MCComponents`, `MCNetwork` and `MCProgress` each check several components that do
not interact. `mode` says which component a behaviour belongs to; it never
changes. The variables `v1`, `v2`, ... are that component's variables, by the
substitutions of its `INSTANCE`. A property `P` of such a run is
`mode = "x" => Xx!P`, so it is about the component alone.

### Voting (`Snapshot`, `PosvVoting`)

`snap` is the `Snapshot` struct at the head of a chain: the vote slice is a set
(a block casts one vote and the votes carry their block), the tally map a
function in which `NoTally` stands for an absent key. `applyHeader` makes the
steps of `apply` in their order: clear at a checkpoint, drop and record recent
signers, take back the creator's previous vote on the account, cast the new one,
resolve the proposal. `InsertBlock`, `InsertGapBlock` and `InsertCheckpoint` are
the three kinds of block; their guards are the checks of `verifyHeader` and
`verifySeal` that depend on the snapshot. An election may install any non-empty
set of accounts, a checkpoint may penalise any. Left out: signatures (a header
names its creator) and timestamps.

### Engine (`PosvEngine`)

A block is a position in `blocks` and carries its number, parent, total
difficulty and the state of the staking contract: who is a candidate, with what
cap. `recents` is the ARC cache
of snapshots, `disk` the snapshots stored for gap blocks; a snapshot is reduced
to its signers. Verifying a header takes two steps, because `snapshot()` looks a
snapshot up and adds it to the cache without a lock: `LoadSnapshot` and
`VerifyHeader`. `WriteBlock` is `insertBlock` under `chainmu`; when it makes a gap
block canonical it keeps the lock through `UpdateM1Elect` (the contract call)
and `UpdateM1Install` (`UpdateMasternodes`). The miner does the same without the
lock. A checkpoint header is checked as `verifyCascadingFields` does it: the
penalties that the snapshot's signers would have are compared with the header's,
and only if they differ `HookGetSignersFromContract` is asked. It takes the
candidates from the state of the gap block but their caps from the latest one, and
cuts to 150 even if there are fewer: the rest of the slice's array are zero addresses,
or, when the array is shorter, the cut panics (`SliceRoom`). `HookPenalty` is the
hook from `TIPSigning` on, before and after `TIPRandomize`; the older `HookPenalty`
does not look at the signers, so with it the contract is never asked. `Restart` forgets everything but the
database, in particular in the middle of `UpdateM1`: a clean `Stop` waits for that of
an import, a crash does not. After a crash a node that is not an archive node rewinds
to a state on disk, which is in `BlockChain` and not here. `Evict` drops a cache entry
that has not been used lately. A scenario says which faults may happen:
`restart`, `evict`, `fork` (a block up to the gap block has a sibling), `race` (a
child of the gap block is verified while `UpdateM1` runs), `mine`; and where the gap
block is. One epoch is modelled: no block follows a checkpoint.

### Rounds (`PosvRound`)

One chain and no network: a validated block is everybody's head at once. Time
counts `waitPeriod`s since the head was created; a masternode `h` hops from its
turn commits work after `h` of them. A checkpoint installs the next list of
`Elections` and its validators, which the blocks after it use; the rotation of
`moveM2` is a shift by the block's distance. What the model shows beside its
properties: after the first epoch, a checkpoint by a creator that its own list
drops finds no validator, newcomers cannot create the checkpoint, `moveM2` may
make a masternode its own validator, and a worker that is stopped and started on
the same head does not commit again.

### Checkpoints (`Penalties`, `Rewards`, `M2Shuffle`, `Randomize`)

A step of `Penalties` is a checkpoint: who is a candidate, who created and signed
blocks is any choice; the penalties are read back from the window of earlier
headers, before, after `TIPSigning` and after `TIPRandomize`. Somebody who is no
candidate at the checkpoint of their comeback returns later without having
signed. Checkpoint blocks themselves never count as created, and
`total < MinimunMinerBlockPerEpoch` is never true.

In `Rewards` signing transactions reach the chain in any later block, twice or
never. Amounts are divided as `big.Int` divides. The entry of the foundation
replaces its share as an owner or voter; a voter listed twice counts twice in
`totalCap` before `TIP2019Block`. `rewardInflation`, a table of years, is left out.

`M2Shuffle` is the loop of `GenM2FromRandomize`, with `rand.Intn` any choice within
its range. In `Randomize` the node may crash between handing a transaction to the
pool and storing its key; its transactions reach a block in order, late, or after
a crash never. A key left over from an epoch in which the opening was not sent
suppresses the next secret.

### Contracts (`TomoValidator`, `MultiSigWallet`, `TokenFees`)

One action per external function; a failed `require` or a `SafeMath` revert
disables it. In `TomoValidator` the `ValidatorState` struct is split into `owner`,
`isCandidate`, `cap` and `stake`; `balance` is what the contract holds, in
particular what the genesis tool gives it for the first candidates.

`MultiSigWallet` keeps a stack of calls: a transaction's call may come back into
the wallet, and a call that fails undoes what it did. `replaceOwner` accepts
address 0, and confirmations survive the removal and return of an owner.

`TokenFees` composes the token, the issuer's contract and the block processor.
Capacities are read once per block and written back at its end, so a charge in
the same block as a token transaction is overwritten; the miner is paid gas times
price while the capacity pays the gas only. `CapacityExact` and
`CoinsAccountedFor` say by how much: the charges that are overwritten are lost, and
nothing else. A charge that survives its block whatever else is in it would be the
better promise, but the code does not keep it.

### Canonical chain (`BlockChain`, `ForkChoice`)

A block is a position in `blocks`. The database is `stored`, `canonical` (the hash
of a number), the two head hashes, `lookup` and `onDisk`; `currentBlock`,
`currentHeader` and `inMemory` are the fields of `BlockChain` that a crash loses.
`InsertChain` decides what `insertChain` does with a block: ignore it, store it
beside a heavier chain whose states are gone, or execute it, after its ancestors
if need be (`importing`). `ImportBlock` and `WriteMinedBlock` run
`WriteBlockWithState`, which fills `writes` with the database writes the code
makes in their order, and `Write` makes the next one; the batch that stores the
block is one write. `Crash` may come between any two. `SetHead` rewinds. `Stop`
commits the recent states, `Start` is `NewHeaderChain` and `loadLastState` with
`repair`. Some ends are final: `status` is `"panic"` when the collection of tries
meets a number without a header, `"lost"` when a walk meets a deleted block,
`"dead"` when the node cannot start, `"locked"` when `SetHead` would call itself.

`ForkChoice` is the chain without its database: a head that moves exactly to
blocks that beat it. `ImplementsForkChoice` is the refinement; until the writes of
a block are done, the head it maps to is the one they lead to.

Left out: `Rollback`, fast and header-only synchronisation, the archive mode,
future blocks, failing validation, and a write error of the database (`log.Crit`
ends the process, which is `Crash`). An import has one block. While a winning branch
is executed `chainmu` is free; the model lets the miner write then, but starts no
other import. When the execution of such a branch meets a block whose parent's state
was collected meanwhile the import ends, where the code would collect its ancestors
once more (`ImportFails`). `Stop` finds the blocks of the numbers it commits; after a
crash a number may have none, and the code then meets a nil pointer.

### Import of one block (`BlockPrep`) and the miner (`Staking`)

`BlockPrep` has a goroutine per holder of the block, with a pc for every point
between two accesses to shared state; the flag `stop` of a `CalculatedBlock` is
written and read without synchronisation, so a read may miss a write. Entries of
`calculatingBlock` are never removed, a preparer may add a result after the
inserter removed it, and the mark in `downloadingBlock` stays after a failed batch.
The miner, which writes blocks of its own only, is not among the goroutines.

In `Staking` a thread's pc is the next lock, channel or atomic operation. Start and
stop by RPC are left out, and so is the case in which the channel is not read
because the node does not stake. The agent's channel is modelled, the goroutines it
hands work to are not: `AgentObeys` is about what the agent is given, and a block that
was being sealed when the miner stopped may still come out. One goroutine runs
`miner.Start` at a time.

### Transaction pool (`TxPool`)

A transaction is its sender, nonce, price and whether it is special (free, to the
signing contracts). Every public operation is one action, since it holds `pool.mu`
throughout; what it calls, down to the eviction of the cheapest, is a function of
the pool. Ties, which maps and heaps decide, are any of the `ties` of the world.
`reset` takes the chain to any head with a common ancestor, which differs by the
transactions of one account. Left out: the journal on disk, gas limits and sizes; the
fees that TRC21 tokens pay for their transfers (`validateTx` and `Filter` then look at
the token's capacity and not at the balance); and resets that return early because a
block of the old or the new chain, or the new state, is missing, which leave the pool
at its old head.

### Network (`Fetcher`, `DownloadQueue`, `FullSync`, `StateSync`)

`Fetcher` is the loop's `select`, one action per channel, and the import
goroutines. Time is abstracted to what has expired. A block is valid, invalid, of the
future, or of a time that never comes; it may lack the signature of the second
validator, who may be this node. `Verify` is the first call of `verifyHeader`; a block
of the future sleeps (`Wake`), one that this node has signed is verified again
(`VerifySigned`). Header answers have one header, since the handler filters no others.
An announcement in `completing` has no timeout; nothing is claimed about how long it
stays there.

`DownloadQueue` has the operations of `queue`, which hold its lock, the goroutine
per kind of content, and peers with their idle flags. An answer to a request that
expired is stale for the newer request of its peer. A peer leaves out of its answer
what it does not have (`Answers`); if that is the first item, the delivery is stale as
well, its request is forgotten, and the peer stays busy, although a comment says that
it "should have already been idled".

`FullSync` models which headers a batch holds and what their verification reads.
A checkpoint on a side chain is verified on the state of the head; the model
follows the head only. The batch after the pivot of a fast sync is left out.

In `StateSync` peers come, go and return, answer with any part of what was asked,
late or never, while the pivot moves. `assignTasks` serves the connections that were
idle when it started, even if the peer has left or has another connection by then.

### Trie cache (`TrieDatabase`), indexer, feed

`TrieDatabase` is `reference`, `dereference`, `insert` and `commit` as blocks are
written on the head or beside it. The genesis state is on disk from the start, and in
the run shares no node with the others. A crash may come after any node that a
commit, of `Stop` or of the next block, has written. `ChainIndexer` has the event loop
and the update loop, which reads the canonical hashes while the chain moves; a
reorganisation may make it shorter, and the hashes above the new head stay. The
backend may fail to reset or to commit. `SectionsIndexed` says that a known section is
indexed unless the chain moves on or the indexer gave up on a section; the update
loop tries again only when it is notified of another head. `ResetFails` sets the sections
to 0 without the lock, which is one step here. `Feed` has `Send` step by step, with subscriptions on shared
buffered channels; unbuffered channels and a `Send` of a wrong type are left out.

## Runs

| run | result | what it shows |
|---|---|---|
| `voting` | pass | tally, votes and recent signers over six blocks of a chain with four accounts and the zero account |
| `engine` | pass | with evictions and mining alone every correct checkpoint is accepted; with restarts and forks, elections stay on their branch; with everything, a refusal needs a wrong snapshot and a contract that is not asked or answers wrongly |
| `engine_restart` | violated | a restart between the gap block and the next block makes the node refuse a correct checkpoint |
| `rounds` | pass | difficulties order the masternodes, enough pairs survive, and the chain grows |
| `validator_contract` | pass | the contract's books over every sequence of calls within the bounds |
| `chain` | pass | the views of the chain agree, its head is usable and survives a stop, and it implements `ForkChoice`, through reorganisations, collected states, rewinds and crashes |
| `txpool` | pass | the pool's lists, lookup, nonces and limits, in four worlds |
| `fetcher_live` | pass | imports end, queued blocks are taken and announcements are served; only a body that never comes, or a time that never does, keeps a hash in the fetcher |
| `components` | pass | nine components of the checkpoint, the contracts, the feed and the indexer |
| `network` | pass | fetcher, download queue, state synchronisation and trie cache |
| `progress` | pass | feed, indexer, staking and block import get done what they must |
| `indexer_race` | violated | a section that is reorganised while it is processed is stored with its old blocks |

Bounds. `MaxNumber = 6` with `Epoch = 5` passes one election, one checkpoint and
one block of the next epoch. `MaxBlocks = 5` in the engine lets a chain reach the
checkpoint, of number 3, with one sibling, and the gap block is number 1 or 2; two verifiers are what a race needs.
Of four accounts three can be masternodes (150 in the code); contract states have four,
two and one candidates, so that the cut is at, above and below its room (`SliceRoom`, 129
in the code), and two of them differ in who comes third. The rounds have
an election of four and one of three masternodes, with changes of membership, and
one masternode down. `MaxBlockNumber`, `MaxBalance` and `MaxWithdraws` in the
staking contract let two delays pass, a candidate be proposed again and two
refunds fall due together. In the canonical chain four or five blocks are genesis
and two branches, `TriesInMemory = 1` (128 in the code) makes states be collected
on them, and difficulties 1 and 3 make a short branch beat a long one; there is
one stop or crash and up to two rewinds. All blocks are created before the first
import, in the order of their parents: a block the node has not seen changes
nothing, so no order of imports is lost. The pool has two accounts, three nonces
and two prices, with limits of two and three, so that every limit is hit; local
accounts also meet a price threshold, reorganisations and evictions.
The fetcher has worlds with two announcements at a time, with a block that
another import brings, with blocks of the future and unsigned ones. Token fees have enough
coins for two charges in a block. The
penalty window is two checkpoints and three accounts; rewards cover three epochs of
two blocks; the shuffle up to six masternodes; the secrets two epochs and two
crashes. The download queue has up to four headers and two peers, one of
which skips items in one world, and a cache of
three; state synchronisation two roots that share a subtrie, with a node that is
referred to twice; the trie cache four blocks with a window of two. These models
stop at their bounds, and a chain whose only signer was voted out really stops, so
the runs do not look for deadlock, except `fetcher_live`.

Fairness. `rounds`: a block that a masternode can create and its validator is up
is created some time, and time passes. `fetcher_live` and `progress`: a goroutine
that can go on is scheduled (weak fairness of its steps); a `select` with several
ready cases takes each in the end; `Main` of `Staking` competes for a lock and needs
strong fairness, which Go's mutexes give by their starvation mode. Weak fairness
of the reader is assumed of every subscription, since each reads in a loop until
it unsubscribes.

More counterexamples are not kept as runs. Each is what TLC reports for one
property of the module when it is added to the configuration:

| property | with | behaviour |
|---|---|---|
| `PosvVoting!TallyIsRecount` | `MCPosvVoting.cfg` | an election replaces the signers under pending votes, and tally and votes drift apart |
| `PosvVoting!RecentsWindow` | `MCPosvVoting.cfg` | an election shrinks the list, and recent signers beyond the smaller window stay, although `snapshot.go:255` says "delete any leftover recent caches" |
| `PosvEngine!CheckpointAccepted` | `MCPosvEngineRestart.cfg` with `Scenarios <- MCFork` or `Scenarios <- MCRace` | a gap block that becomes canonical by a reorganisation, or that is written while a branch below it is heavier, has no election; a verification that loaded the old snapshot adds it to the cache after the election |
| `BlockChain!StartsAgain` | `MCBlockChain.cfg` | a crash in a reorganisation leaves a head hash without a block, and the node panics at every start |
| `BlockChain!TrieToCommitExists` | `MCBlockChain.cfg` | a lighter, longer branch makes the collection of tries use a missing header |
| `TxPool!NoOrphan` | `MCTxPool.cfg` | with special transactions, removing a queued transaction removes the pending one of its nonce, which stays in the lookup |
| `Staking!StartsAfterSync` | instance of `MCProgress` | "Network syncing, will start miner afterwards": the order of two flags loses a start |
| `BlockPrep!SuccessIsImported` | instance of `MCProgress` | an insertion that was stopped returns no error, and the fetcher broadcasts "If import succeeded" |
| `StateSync!AvailableForNext` | instance of `MCNetwork` | a request that finished but was not delivered when the pivot moved leaves its peer busy for the next synchronisation |
| `TrieDatabase!NothingDangles` | instance of `MCNetwork` | a node that was written and inserted again stays in memory: "Dangling trie nodes after full cleanup" |

Also met on the way, and left to the reader of the code: the fetcher's counters of
announcements drift below zero, so `hashLimit` does not bound them; a completion
has no timeout; the first announcement after an expired fetch is ignored; a block
whose import failed stays in `knowns`. In the pool, `AddLocal` returns before
`locals.add` when it replaces a pending transaction or adds a special one; the
"gap in front" that "should never happen" happens when a reinjected transaction is
refused (`DropsExplained` says so); accounts that never had a promoted transaction
are evicted at the first tick. In the chain, after a rewind stale canonical
numbers can leave the head header behind the head block, `SetHead` leaves lookup
entries, and a side branch whose ancestors it deleted ends in a nil pointer.

## Proofs

Each theorem holds for every value of the constants that satisfies the named
assumptions; its inductive invariant is in the module of its proof. The invariants
were checked by TLC on the constants of the runs before they were proved.

The provers have no rule of induction over data that they can instantiate, so the
inductions (over the ancestors of a block, the branch that `reorg` inserts, the
domain of a sum, the draws of the shuffle) take a smallest counterexample: the set of
numbers, or of subsets, that break the claim has a least element, by
well-foundedness. `SmallestNumber` and `SmallestSubset` are these two facts.

What `tlapm` spends on a step grows with the lemmas in scope and with the steps proved
before it, so the long proofs are spread over modules, each below 15 minutes, and a step
that needs no arithmetic names Zenon, which takes such steps up faster than SMT.

### Canonical chain

`BlockChainLemmas` has what the other two modules rest on: that `Path` satisfies its
recursion and is the set of ancestors in any tree; the lists of database writes; what
`insert`, `reorg` and `WriteBlockWithState` write for branches of any length
(`Inserts`, `Reorganises`, `Advances`); and `Shape`, the types.

- `ChainImplementsForkChoice` (`BlockChainProofs`) rests on `Roots`: the ancestors of
  every head, in memory, in the database or about to be written, are stored, and so
  is the head or its block is among the pending writes. Without it a step of
  `repair` or `SetHead` could end outside the blocks that `ForkChoice` holds. There
  is one lemma per action; a single database write is a stuttering step, because the
  head the list of writes leads to was chosen when the list was made.
- `HeadStaysUsable` adds `States`: the head the writes lead to has its state, or a
  block that is held is `TriesInMemory` higher. The proof showed that after a rewind
  this bound is off by one: a block that `reorg` refuses has collected states
  although it is not stored. `HeadHasState` says so.
- `StoppedHeadIsKept` (`BlockChainViewProofs`) rests on `Numbering`: unless the node
  crashed, the pending writes turn the numbers into those of the ancestors of the
  head they lead to, and the stored head and header follow. `Stop` finds the states
  to commit by number, so this is what makes it commit the head's.
- `ViewsAlwaysAgree` adds `Views`: no canonical block beats the head, the last head
  header among the writes is the new head's, and every transaction is found in the
  ancestor that has it or a pending write will move or delete its entry.

The proofs assume `ChainAssumption`: difficulties are positive, at least one trie
stays in memory. Nothing bounds the tree or the number of stops and rewinds.

### Engine

`PosvEngineLemmas` and `PosvEngineProofs`, from `EngineAssumption` (the gap lies inside the epoch,
difficulties are positive, candidates are finite and the room of the slice is at most the
number of masternodes), for any states of the contract, any tree of blocks over one
epoch, any number of verifiers and restarts. `EngineInv` has three layers:

- `Base` holds whatever happens: the shape of the tree, of cache and database, of the
  headers under way and of the two writers; and a correct header is refused only if
  the snapshot is wrong and the contract does not help: its penalties do not differ, the
  caps are others by now, or there are too few candidates.
- `OwnBranch`, without races and own gap blocks. A lookup of a block believes what
  the disk says of its gap block, or, at the gap block itself, what the cache says
  (`CacheBelieves`, `VerifiersBelieve`); once a block on top of a gap block has
  passed, cache and disk agree about it (`SealedBelow`), so a restart or an eviction
  takes nothing back; `UpdateM1` works on the head, and no block is on top of it yet
  (`ElectsHead`). `SnapshotsKeepToTheirBranch` and `RefusalNeedsBothSourcesWrong`
  follow.
- `CalmChain`, without races, restarts and a second branch up to the gap block. The
  written blocks up to the gap block are on the head's branch, so that the gap block
  becomes the head and is elected; the election is in the snapshot of the gap block
  when `UpdateM1` is done, on disk before another block is on top, and in every
  snapshot of a descendant. `CorrectCheckpointAccepted` follows.

The attempt to prove the last theorem showed what the faults have to exclude. With a
gap block of number 2 or more, two branches *below* it are enough for a correct
checkpoint to be refused: a gap block written beside a heavier head is not canonical,
`insertBlock` runs no `UpdateM1` for it, and nothing runs it when the branch wins
later. So the fault `fork` stands for a sibling of any block up to the gap block, the
gap is part of a scenario, and the run has scenarios with the gap block at 1 and at 2.

### Contracts and votes

`TomoValidatorProofs`: `AllStakesReachable` joins `StorageTypes`,
`OwnerKeepsMinimum`, `PendingCanBeWithdrawn` and `StakersAreListed`; each invariant is
inductive together with the types. `BooksAlwaysBalance` is about sums: the first part
of the module shows that `SumFunction` satisfies its recursion on a finite domain and
changes by the difference when one value changes, and then every call moves cap,
stake, refund and balance by the same amount. It needs finitely many accounts and
candidates (`FiniteAssumption`). `CandidatesAlwaysListedOnce` keeps a place in the list
for every candidate and counts them.

`PosvVotingProofs`: `VotesAreCounted` rests on `VotingInv`, which joins the types, one
vote per account, the tally covering the votes, and, unless an election replaced
the signers, tally and recount being equal with every vote meaningful. One vote per
account is needed because `discardVotesBy` takes one vote per account off the
tally; meaningful votes are needed because all votes on an account then point in
the direction of the tally and `uncast` never refuses. Each step of `apply` has a
lemma (`ClearSound`, `DiscardSound`, `CastSound`, `ResolveSound`...) and `ApplySound`
composes them. `MajorityChangesMembership` follows the tally of one account through
those steps: when it exceeds half of the signers, the recount does, and the voters
are those listed before the block and its creator. `NoTwoInARow` and
`HeadCreatorIsRecorded`: `RecentsInv` says that recorded blocks are not above the head
and that the head has exactly one creator on record; `ApplyRecents` shows that
deleting block `n - limit` never deletes block `n`.

### Rounds and small components

All of them are in `ComponentProofs`. For `PosvRound`, with lists without repetition
and validators that permute their indices (`ElectionsOK`): `Placed` keeps the creator of the head in the list.
`DifficultiesDiffer` rests on `Hop` being injective in the position of the
masternode, `ValidatorsAreDistinct` on the rotation `m2Index` being injective.
`PairsAlwaysSurvive` counts: every masternode that is down takes away itself and
the one it validates, at most twice as many as are down, plus the creator of the
head.

Three components are instances in that module.

- `M2Shuffle`: `ShuffleInv` says that the urn and the drawn numbers together are a
  permutation, and that a number in the urn is at its own place or larger than all
  places left; hence `DrawnExactlyOnce` and `NobodyForItself`.
- `FullSync`, for `Gap` between 1 and `Epoch - 1`: `Collected` says how the batch under
  construction relates to the head and to the cuts; `CheckpointsOnParents` and
  `DependenciesWritten` follow.
- `BlockPrep`: `OneOwes` says that writing happens under the lock and only when the
  block is not there; `BlockWrittenOnce` for any number of goroutines.

### Only model-checked

Liveness (`ChainGrows`, `FetcherMoves` and the properties of `progress` other than
`InsertedOnce`): it needs fairness and `ENABLED`, which the provers do not handle.
`TxPool`, `StateSync` and `TrieDatabase`: their walks over lists and tries are
`RECURSIVE` operators, which cost the provers their arithmetic. The other components
of the runs `components` and `network`.

## Not modelled

The EVM and encodings (data, not control), cryptography, the wire protocols and
the peer-to-peer stack, light clients, Swarm, Whisper, the RPC layer and the
command-line tools; see the components of `PROJECT.json` for the reason in each
case. Inside the modelled parts, what is left out is said in the sections above.
