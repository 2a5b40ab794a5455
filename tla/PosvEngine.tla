----------------------------- MODULE PosvEngine -----------------------------
(***************************************************************************)
(* Which signers the PoSV engine believes in when it verifies a checkpoint *)
(* header: the snapshot cache (Posv.recents), the snapshots on disk, the   *)
(* election that BlockChain.UpdateM1 runs after the gap block, and the     *)
(* checkpoint verification with its fallback to the validator contract.    *)
(*                                                                         *)
(* Blocks arrive on a tree: fetcher goroutines verify headers without any  *)
(* lock and write blocks under chainmu, the miner writes its own block     *)
(* without chainmu, and the node may be restarted.  Of a snapshot only the *)
(* signers are kept (votes are the subject of PosvVoting); a block is      *)
(* named by its position in the sequence blocks, as others name it by its  *)
(* hash, and carries the state it leaves the validator contract in.        *)
(***************************************************************************)
EXTENDS Integers, Sequences, FiniteSets

CONSTANTS
    Contract,       \* states of the validator contract: name -> [cands, caps]
    GenesisStakes,  \* name of the one in the genesis block
    NoAddress,      \* the zero address
    MaxMasternodes, \* common.MaxMasternodes, and the 150 of eth/backend.go
    SliceRoom,      \* so many candidates, appended one by one, leave room for
                    \* MaxMasternodes in the slice's array (129 for 150)
    Comeback,       \* accounts penalised LimitPenaltyEpoch + 1 epochs ago
                    \* which have not signed since
    Idlers,         \* masternodes that created no block in the epoch, from
                    \* TIPRandomize on ({} before)
    Epoch,          \* PosvConfig.Epoch
    Scenarios,      \* [faults, elections, difficulties, gap]: what may happen in a
                    \* behaviour, the names of contract states that blocks
                    \* lead to, their difficulties, and PosvConfig.Gap
    MaxBlocks,      \* bound: blocks the node ever sees
    MaxVerifiers,   \* bound: headers under verification at a time
    MaxRestarts     \* bound: restarts of the node

\* "restart": the process is restarted;  "evict": the ARC cache drops an
\* entry not used lately;  "fork": a block up to the gap block has a
\* sibling;  "race": a child of the gap block is verified while UpdateM1 still
\* runs;  "mine": the node writes a gap block of its own.
FaultNames == {"restart", "evict", "fork", "race", "mine"}

ASSUME EngineAssumption ==
    /\ Epoch \in Nat
    /\ \A c \in DOMAIN Contract : Cardinality(Contract[c].cands) \in Nat
    /\ GenesisStakes \in DOMAIN Contract
    /\ \A s \in Scenarios : /\ s.faults \subseteq FaultNames
                           /\ s.elections \subseteq DOMAIN Contract
                           /\ s.difficulties \subseteq Nat \ {0}
                           /\ s.gap \in 1 .. Epoch - 1
    /\ MaxMasternodes \in Nat /\ SliceRoom \in 0 .. MaxMasternodes
    /\ MaxBlocks \in Nat /\ MaxVerifiers \in Nat /\ MaxRestarts \in Nat

VARIABLES
    blocks,     \* every block seen: [number, parent, td, stakes, cand, path]:
                \* stakes name the contract's state, cand is who it elects
    db,         \* blocks written to the database
    head,       \* the current block
    recents,    \* Posv.recents: cached snapshots, block -> signers
    disk,       \* snapshots stored in the database, block -> signers
    verifying,  \* headers under verification: [block, signers, fresh]
    verified,   \* blocks whose header passed, not yet written
    refused,    \* history: correct checkpoints refused: [block, signers, head]
    panicked,   \* a panic ended the process
    updating,   \* UpdateM1 on behalf of the writer that holds chainmu
    mining,     \* UpdateM1 on behalf of the miner
    restarts,
    scenario    \* chosen at the start

vars == <<blocks, db, head, recents, disk, verifying, verified, refused,
          panicked, updating, mining, restarts, scenario>>

faults == scenario.faults
elections == scenario.elections
Gap == scenario.gap

\* The candidates with the largest caps: sort.Slice and the cut after it.
largest(cands, caps) ==
    LET n == IF Cardinality(cands) < MaxMasternodes THEN Cardinality(cands) ELSE MaxMasternodes
    IN  CHOOSE top \in SUBSET cands :
            /\ Cardinality(top) = n
            /\ \A x \in top, y \in cands \ top : caps[x] >= caps[y]

\* UpdateM1: everybody if there are fewer than MaxMasternodes.
Elected == [s \in DOMAIN Contract |-> largest(Contract[s].cands, Contract[s].caps)]

Genesis == Elected[GenesisStakes]

Idle == [stage |-> "idle", elected |-> {}]

Ids == 1 .. Len(blocks)
number(b) == blocks[b].number
parent(b) == blocks[b].parent
candsAt(b) == Contract[blocks[b].stakes].cands
capsAt(b) == Contract[blocks[b].stakes].caps
isCheckpoint(n) == n # 0 /\ n % Epoch = 0
isGapBlock(n) == n % Epoch = Epoch - Gap

\* b and its ancestors.
Ancestors(b) == blocks[b].path

\* The gap block below b, if there is one.
GapAncestors(b) == {x \in Ancestors(b) : isGapBlock(number(x))}

Init ==
    /\ blocks = <<[number |-> 0, parent |-> 0, td |-> 0, stakes |-> GenesisStakes,
                  cand |-> Genesis, path |-> {1}]>>
    /\ db = {1} /\ head = 1
    /\ recents = [b \in {} |-> {}] /\ disk = [b \in {1} |-> Genesis]
    /\ verifying = {} /\ verified = {} /\ refused = {} /\ panicked = FALSE
    /\ updating = Idle /\ mining = Idle /\ restarts = 0
    /\ scenario \in Scenarios

-----------------------------------------------------------------------------
(* Posv.snapshot: the closest ancestor that is cached, or stored if it is a
   gap block or the genesis block; signers are unchanged by the headers
   applied on top (no votes here).  The object is shared with the cache only
   if the block itself is cached; a snapshot of a gap block is stored each
   time it is asked for. *)

\* Slip: the database is not searched.
KnownCachedOnly(x) == x \in DOMAIN recents \/ x = 1

Known(x) == x \in DOMAIN recents \/ (x \in DOMAIN disk /\ (isGapBlock(number(x)) \/ x = 1))

closest(b) ==
    LET ks == {x \in Ancestors(b) : Known(x)}
    IN  CHOOSE x \in ks : \A y \in ks : number(y) <= number(x)

found(x) == IF x \in DOMAIN recents THEN recents[x] ELSE disk[x]

signersAt(b) == found(closest(b))

put(f, b, ss) == [x \in DOMAIN f \cup {b} |-> IF x = b THEN ss ELSE f[x]]

\* The second half of snapshot(b), with the object obtained by the first.
addAndStore(b, ss) ==
    /\ recents' = put(recents, b, ss)
    /\ disk' = IF isGapBlock(number(b)) THEN put(disk, b, ss) ELSE disk

-----------------------------------------------------------------------------
(* Checkpoint verification. *)

\* HookPenaltyTIPSigning: from TIPRandomize on those who created no block, and
\* the returning accounts among the candidates which have not signed.
HookPenalty(signers) == Idlers \cup (signers \cap Comeback)

\* The block Gap below a header on top of p.
startGapBlock(p) == CHOOSE x \in Ancestors(p) : number(x) = number(p) + 1 - Gap

\* What the network's masternodes agreed on for a checkpoint on top of p.
correctHeader(p) ==
    LET elected == blocks[startGapBlock(p)].cand
    IN  [penalties |-> HookPenalty(elected), masternodes |-> elected \ HookPenalty(elected)]

\* HookGetSignersFromContract: the candidates in the state of the gap block,
\* with their caps in the latest state; cut to 150 even if there are fewer,
\* the rest of the slice being zero addresses.
HookGetSignersFromContract(p) ==
    LET cands == candsAt(startGapBlock(p))
    IN  IF Cardinality(cands) < MaxMasternodes THEN cands \cup {NoAddress}
        ELSE largest(cands, capsAt(head))

\* The contract is asked only if the penalties differ; without room in the
\* slice the cut panics.
asksContract(h, ss) == HookPenalty(ss) # h.penalties

cutPanics(p) == Cardinality(candsAt(startGapBlock(p))) < SliceRoom

\* verifyCascadingFields, from the snapshot's signers to compareSignersLists.
validCheckpoint(h, p, ss) ==
    LET signers == IF asksContract(h, ss) THEN HookGetSignersFromContract(p) ELSE ss
    IN  /\ ~(asksContract(h, ss) /\ cutPanics(p))
        /\ HookPenalty(signers) = h.penalties
        /\ signers \ HookPenalty(signers) = h.masternodes

-----------------------------------------------------------------------------
(* Fetcher goroutines: verifyHeader, then insertBlock. *)

\* Writers in the middle of UpdateM1 for a gap block.
InUpdate == updating.stage # "idle" \/ mining.stage # "idle"

\* One epoch is enough: no block follows a checkpoint.
mayArrive(p) ==
    /\ ~isCheckpoint(number(p))
    /\ "race" \notin faults => ~(isGapBlock(number(p)) /\ InUpdate)
    /\ "fork" \notin faults =>
          number(p) >= Epoch - Gap \/ \A b \in Ids : number(b) # number(p) + 1

newBlock(p, d, c) ==
    [number |-> number(p) + 1, parent |-> p, td |-> blocks[p].td + d, stakes |-> c,
     cand |-> Elected[c], path |-> blocks[p].path \cup {Len(blocks) + 1}]

\* Stakes move in any block but the last one looked at.
candidates(p) == IF isCheckpoint(number(p) + 1) THEN {blocks[p].stakes} ELSE elections

\* A goroutine starts on a block whose parent is in the database and looks
\* the parent's snapshot up.
LoadSnapshot(p, d, c) ==
    /\ ~panicked /\ Len(blocks) < MaxBlocks
    /\ Cardinality(verifying) + Cardinality(verified) < MaxVerifiers
    /\ p \in db /\ mayArrive(p)
    /\ blocks' = Append(blocks, newBlock(p, d, c))
    /\ verifying' = verifying \cup
           {[block |-> Len(blocks) + 1, signers |-> signersAt(p),
             fresh |-> p \notin DOMAIN recents]}
    /\ UNCHANGED <<db, head, recents, disk, verified, refused, panicked, updating, mining, restarts, scenario>>

\* ... caches the snapshot (a shared one holds what the cache holds by now),
\* stores it, and checks the header.
VerifyHeader(v) ==
    LET b  == v.block
        p  == parent(b)
        ss == IF v.fresh \/ p \notin DOMAIN recents THEN v.signers ELSE recents[p]
        h  == correctHeader(p)
        ok == isCheckpoint(number(b)) => validCheckpoint(h, p, ss)
    IN  /\ ~panicked
        /\ verifying' = verifying \ {v}
        /\ addAndStore(p, ss)
        /\ verified' = IF ok THEN verified \cup {b} ELSE verified
        /\ refused' = IF ok THEN refused
                      ELSE refused \cup {[block |-> b, signers |-> ss, head |-> head]}
        /\ panicked' = (~ok /\ asksContract(h, ss) /\ cutPanics(p))
        /\ UNCHANGED <<blocks, db, head, updating, mining, restarts, scenario>>

\* WriteBlockWithState: the heavier chain wins, the longer one among equals.
canonical(b) ==
    \/ blocks[b].td > blocks[head].td
    \/ blocks[b].td = blocks[head].td /\ number(b) > number(head)

\* Slip: chainmu is released before UpdateM1.
WriteBlockUnlocked(b) ==
    /\ ~panicked /\ b \in verified
    /\ verified' = verified \ {b}
    /\ db' = db \cup {b}
    /\ head' = IF canonical(b) THEN b ELSE head
    /\ updating' = IF canonical(b) /\ isGapBlock(number(b)) /\ updating.stage = "idle"
                   THEN [updating EXCEPT !.stage = "elect"] ELSE updating
    /\ UNCHANGED <<blocks, recents, disk, verifying, refused, panicked, mining, restarts, scenario>>

\* insertBlock under chainmu; a canonical gap block goes on to UpdateM1
\* before the lock is released.
WriteBlock(b) ==
    /\ ~panicked /\ b \in verified
    /\ updating.stage = "idle"
    /\ verified' = verified \ {b}
    /\ db' = db \cup {b}
    /\ head' = IF canonical(b) THEN b ELSE head
    /\ updating' = IF canonical(b) /\ isGapBlock(number(b))
                   THEN [updating EXCEPT !.stage = "elect"] ELSE updating
    /\ UNCHANGED <<blocks, recents, disk, verifying, refused, panicked, mining, restarts, scenario>>

\* worker.wait: the miner's own gap block is written without chainmu, and
\* UpdateM1 follows whether or not the block became the head.
WriteMinedBlock(p, d, c) ==
    LET b == Len(blocks) + 1
        nb == newBlock(p, d, c)
        canon == \/ nb.td > blocks[head].td
                 \/ nb.td = blocks[head].td /\ nb.number > number(head)
    IN  /\ ~panicked /\ "mine" \in faults /\ Len(blocks) < MaxBlocks
        /\ mining.stage = "idle"
        /\ p \in db /\ isGapBlock(nb.number) /\ mayArrive(p)
        /\ blocks' = Append(blocks, nb)
        /\ db' = db \cup {b}
        /\ head' = IF canon THEN b ELSE head
        /\ addAndStore(p, signersAt(p))
        /\ mining' = [mining EXCEPT !.stage = "elect"]
        /\ UNCHANGED <<verifying, verified, refused, panicked, updating, restarts, scenario>>

-----------------------------------------------------------------------------
(* UpdateM1: GetCandidates on the latest state, then UpdateMasternodes on the
   current header: snapshot stores the old signers, the cached object gets
   the elected ones. *)

elect(u) == [stage |-> "install", elected |-> blocks[head].cand]

\* Slip: the changed copy is not put back into the cache.
UpdateMasternodesLost(elected) ==
    /\ recents' = recents
    /\ disk' = IF isGapBlock(number(head)) THEN put(disk, head, signersAt(head)) ELSE disk

UpdateMasternodes(elected) ==
    /\ recents' = put(recents, head, elected)
    /\ disk' = IF isGapBlock(number(head)) THEN put(disk, head, signersAt(head)) ELSE disk

UpdateM1Elect ==
    /\ ~panicked /\ updating.stage = "elect"
    /\ updating' = elect(updating)
    /\ UNCHANGED <<blocks, db, head, recents, disk, verifying, verified, refused, panicked, mining, restarts, scenario>>

UpdateM1Install ==
    /\ ~panicked /\ updating.stage = "install"
    /\ UpdateMasternodes(updating.elected)
    /\ updating' = Idle
    /\ UNCHANGED <<blocks, db, head, verifying, verified, refused, panicked, mining, restarts, scenario>>

MinerElect ==
    /\ ~panicked /\ mining.stage = "elect"
    /\ mining' = elect(mining)
    /\ UNCHANGED <<blocks, db, head, recents, disk, verifying, verified, refused, panicked, updating, restarts, scenario>>

MinerInstall ==
    /\ ~panicked /\ mining.stage = "install"
    /\ UpdateMasternodes(mining.elected)
    /\ mining' = Idle
    /\ UNCHANGED <<blocks, db, head, verifying, verified, refused, panicked, updating, restarts, scenario>>

-----------------------------------------------------------------------------
\* The cache, the goroutines and what they work on are lost.  A clean Stop
\* waits for an import's UpdateM1 (bc.wg) and for nothing of the miner's; a
\* crash interrupts either, here of an archive node, which keeps its head.
Restart ==
    /\ "restart" \in faults /\ restarts < MaxRestarts
    /\ restarts' = restarts + 1
    /\ recents' = [b \in {} |-> {}] /\ panicked' = FALSE
    /\ verifying' = {} /\ verified' = {}
    /\ updating' = Idle /\ mining' = Idle
    /\ UNCHANGED <<blocks, db, head, disk, refused, scenario>>

Evict(b) ==
    /\ ~panicked /\ "evict" \in faults
    /\ b \in DOMAIN recents
    /\ b # head /\ \A v \in verifying : b # parent(v.block)
    /\ recents' = [x \in DOMAIN recents \ {b} |-> recents[x]]
    /\ UNCHANGED <<blocks, db, head, disk, verifying, verified, refused, panicked, updating, mining, restarts, scenario>>

Next ==
    \/ \E p \in Ids, d \in scenario.difficulties : \E c \in candidates(p) : LoadSnapshot(p, d, c)
    \/ \E p \in Ids, d \in scenario.difficulties : \E c \in candidates(p) : WriteMinedBlock(p, d, c)
    \/ \E v \in verifying : VerifyHeader(v)
    \/ \E b \in Ids : WriteBlock(b)
    \/ UpdateM1Elect \/ UpdateM1Install \/ MinerElect \/ MinerInstall
    \/ Restart
    \/ \E b \in Ids : Evict(b)

Spec == Init /\ [][Next]_vars

-----------------------------------------------------------------------------
electable == {Elected[s] : s \in elections} \cup {Genesis}

TypeOK ==
    /\ db \subseteq Ids /\ head \in db
    /\ \A b \in Ids \ {1} : parent(b) \in db /\ number(b) = number(parent(b)) + 1
    /\ DOMAIN recents \subseteq db /\ DOMAIN disk \subseteq db
    /\ \A b \in DOMAIN recents : recents[b] \in electable
    /\ \A b \in DOMAIN disk : disk[b] \in electable
    /\ {v.block : v \in verifying} \cup verified \subseteq Ids \ db
    /\ panicked \in BOOLEAN /\ restarts \in 0 .. MaxRestarts /\ scenario \in Scenarios

(* "when it happens we get the signers list by requesting smart contract": a
   checkpoint header that lists the masternodes elected at its own gap block
   is never refused by verifyCascadingFields. *)
CheckpointAccepted == refused = {}

(* ... and indeed it never is while there is no restart, no second gap block
   and no verification during UpdateM1: evictions and the miner's own gap
   blocks alone do not make the snapshot wrong. *)
AcceptedUnlessFaulty ==
    faults \subseteq {"evict", "mine"} => CheckpointAccepted

(* A correct checkpoint is refused only if the snapshot's signers are not
   those elected at its gap block, and the fallback does not help: the wrong
   signers have the penalties of the right ones, so that the contract is not
   asked; or stakes have moved between the gap block and the head (the caps
   are the latest ones); or the contract has too few candidates for the cut. *)
RefusedOnlyIfFallbackFails ==
    \A r \in refused :
        LET g == startGapBlock(parent(r.block))
        IN  /\ r.signers # blocks[g].cand
            /\ \/ HookPenalty(r.signers) = HookPenalty(blocks[g].cand)
               \/ capsAt(r.head) # capsAt(g)
               \/ Cardinality(candsAt(g)) < MaxMasternodes

(* A snapshot from the gap block on holds the signers from before the
   election or the ones elected at the gap block it descends from, never
   those elected on another branch, however UpdateM1, verification and
   restarts interleave.  (A miner's election may land on another head.) *)
ElectionFromOwnBranch ==
    faults \subseteq {"restart", "fork", "evict"} => \A b \in DOMAIN recents : \A g \in GapAncestors(b) :
        recents[b] \in {Genesis, blocks[g].cand}

(* Once the snapshot stored for a gap block holds the election (snapshot()
   stores it again when a child of the gap block is verified), no restart,
   eviction or fork takes it back: a correct checkpoint is refused only while
   the stored snapshot still is the one from before the election. *)
RefusedOnlyIfDiskStale ==
    faults \subseteq {"restart", "fork", "evict"} => \A r \in refused : \A g \in GapAncestors(r.block) :
        disk[g] = Genesis /\ blocks[g].cand # Genesis

(* verifyCascadingFields refuses a correct checkpoint only if both of its
   sources fail it: the stored snapshot is the one from before the election,
   and the contract is not asked or cannot answer. *)
RefusedOnlyIfBothFail == TypeOK /\ RefusedOnlyIfDiskStale /\ RefusedOnlyIfFallbackFails
=============================================================================
