----------------------------- MODULE TokenFees -----------------------------
(***************************************************************************)
(* Fees of transactions that call a TRC21 token: the token contract        *)
(* (TRC21.sol), the contract with which its issuer buys fee capacity for   *)
(* it (TRC21Issuer.sol), and the execution of blocks, which takes the fees *)
(* of a listed token from that capacity by writing the contract's storage  *)
(* (core/state_processor.go, core/state_transition.go,                     *)
(* core/state/trc21_reader.go).                                            *)
(*                                                                         *)
(* One token; an amount of gas is small and the gas price of all           *)
(* transactions is that of the token.  The execution of a block reads the  *)
(* capacity once, at its beginning, and writes it once, at its end.        *)
(***************************************************************************)
EXTENDS Integers, Functions

CONSTANTS
    Users, Issuer, Miner,   \* accounts; Issuer, a user, deployed the token
    SMC,                    \* the TRC21Issuer contract, an account as well
    GasLimit, GasPrice,     \* of every transaction
    Coins, Supply,          \* what Issuer has at first, in coins and in tokens
    minCap, minFee,
    MaxBlocks               \* bound

None == -1
Accounts == Users \union {Miner, SMC}

VARIABLES
    coin,           \* balances in coins
    balances, allowed,      \* of the token
    tokensState, listed,    \* of the TRC21Issuer contract
    balanceFee,     \* the capacity as the block's execution sees it, None if there is none
    feeUsed,        \* gas of the block's transactions that the token paid for
    updated,        \* there was one
    blocks,         \* number of blocks; half a block while one is executed
    charged,        \* history: coins paid for capacity in this block,
    overwritten,    \* history: in blocks whose end overwrote them,
    minted          \* history: coins paid to the miner that nobody lost

token == <<balances, allowed>>
contract == <<tokensState, listed>>
execution == <<balanceFee, feeUsed, updated>>
history == <<charged, overwritten, minted>>
vars == <<coin, token, contract, execution, blocks, history>>

Init ==
    /\ coin = [a \in Accounts |-> IF a = Issuer THEN Coins ELSE 0]
    /\ balances = [a \in Users |-> IF a = Issuer THEN Supply ELSE 0]
    /\ allowed = [a \in Users |-> [b \in Users |-> 0]]
    /\ tokensState = 0 /\ listed = FALSE
    /\ balanceFee = None /\ feeUsed = 0 /\ updated = FALSE
    /\ blocks = 0 /\ charged = 0 /\ overwritten = 0 /\ minted = 0

InBlock == blocks % 2 = 1

BeginBlock ==
    /\ ~InBlock /\ blocks < 2 * MaxBlocks /\ blocks' = blocks + 1
    /\ balanceFee' = IF listed THEN tokensState ELSE None
    /\ feeUsed' = 0 /\ updated' = FALSE /\ charged' = 0
    /\ UNCHANGED <<coin, token, contract, overwritten, minted>>

-----------------------------------------------------------------------------
(* The token: each operation fails as a whole. *)

move(bal, from, to, v) ==
    LET b == [bal EXCEPT ![from] = @ - v] IN [b EXCEPT ![to] = @ + v]

\* _transfer(from, to, value) and then _transfer(from, issuer, minFee).
covered(from, to, v) == v <= balances[from] /\ minFee <= move(balances, from, to, v)[from]
withFee(from, to, v) == move(move(balances, from, to, v), from, Issuer, minFee)

transfer(from, to, v) ==
    /\ covered(from, to, v)
    /\ balances' = withFee(from, to, v) /\ UNCHANGED allowed

approve(from, spender, v) ==
    /\ balances[from] >= minFee
    /\ allowed' = [allowed EXCEPT ![from][spender] = v]
    /\ balances' = move(balances, from, Issuer, minFee)

transferFrom(from, owner, to, v) ==
    /\ v + minFee <= allowed[owner][from] /\ covered(owner, to, v)
    /\ allowed' = [allowed EXCEPT ![owner][from] = @ - (v + minFee)]
    /\ balances' = withFee(owner, to, v)

feeOfFailed(from) == IF balances[from] < minFee THEN balances[from] ELSE minFee

PayFeeWithTRC21TxFail(from) ==
    balances' = move(balances, from, Issuer, feeOfFailed(from)) /\ UNCHANGED allowed

-----------------------------------------------------------------------------
(* Transactions. *)

\* buyGas, the refund and the miner's share, for a transaction that uses gas and
\* sends value to the TRC21Issuer contract; byToken if the capacity pays.
afterFees(from, byToken, gas, value) ==
    LET paid == IF byToken THEN coin ELSE [coin EXCEPT ![from] = @ - gas * GasPrice]
        sent == move(paid, from, SMC, value)
    IN  [sent EXCEPT ![Miner] = @ + gas * GasPrice]

canBuyGas(from, byToken) ==
    IF byToken THEN balanceFee >= GasLimit * GasPrice
    ELSE coin[from] >= GasLimit * GasPrice

tokenOperation(from) ==
    \E a, b \in Users, v \in 0 .. Supply :
        transfer(from, a, v) \/ approve(from, a, v) \/ transferFrom(from, a, b, v)

\* A call of the token that the capacity pays for.
TokenTransaction(from, gas) ==
    /\ InBlock /\ balanceFee # None /\ canBuyGas(from, TRUE)
    /\ \/ tokenOperation(from)
       \/ PayFeeWithTRC21TxFail(from)
    /\ coin' = afterFees(from, TRUE, gas, 0)
    /\ balanceFee' = balanceFee - gas /\ feeUsed' = feeUsed + gas /\ updated' = TRUE
    /\ minted' = minted + gas * GasPrice - gas
    /\ UNCHANGED <<contract, blocks, charged, overwritten>>

\* The same before the token is listed, and whatever else only costs gas.
PaidTransaction(from, gas) ==
    /\ InBlock /\ canBuyGas(from, FALSE)
    /\ \/ balanceFee = None /\ tokenOperation(from)
       \/ UNCHANGED token
    /\ coin' = afterFees(from, FALSE, gas, 0)
    /\ UNCHANGED <<contract, execution, blocks, history>>

\* apply (by the token's issuer) or charge (by anyone), with its value.
Charge(from, gas, value, apply) ==
    /\ InBlock /\ canBuyGas(from, FALSE)
    /\ value >= minCap /\ coin[from] - GasLimit * GasPrice >= value
    /\ apply => from = Issuer
    /\ tokensState' = tokensState + value /\ listed' = (listed \/ apply)
    /\ coin' = afterFees(from, FALSE, gas, value)
    /\ charged' = charged + value
    /\ UNCHANGED <<token, execution, blocks, overwritten, minted>>

-----------------------------------------------------------------------------
\* Slip: the capacity is written, the contract's coins stay.
UpdateTRC21FeeKeep ==
    IF updated THEN tokensState' = balanceFee /\ UNCHANGED coin ELSE UNCHANGED <<tokensState, coin>>

UpdateTRC21Fee ==
    IF updated
    THEN tokensState' = balanceFee /\ coin' = [coin EXCEPT ![SMC] = @ - feeUsed]
    ELSE UNCHANGED <<tokensState, coin>>

EndBlock ==
    /\ InBlock /\ blocks' = blocks + 1
    /\ UpdateTRC21Fee
    /\ overwritten' = overwritten + (IF updated THEN charged ELSE 0)
    /\ balanceFee' = None /\ feeUsed' = 0 /\ updated' = FALSE /\ charged' = 0
    /\ UNCHANGED <<token, listed, minted>>

Next ==
    \/ BeginBlock
    \/ \E from \in Users, gas \in 1 .. GasLimit :
        \/ TokenTransaction(from, gas) \/ PaidTransaction(from, gas)
        \/ \E value \in minCap .. Coins, apply \in BOOLEAN : Charge(from, gas, value, apply)
    \/ EndBlock

Spec == Init /\ [][Next]_vars

-----------------------------------------------------------------------------
TypeOK ==
    /\ coin \in [Accounts -> Nat] /\ balances \in [Users -> Nat]
    /\ allowed \in [Users -> [Users -> Nat]]
    /\ tokensState \in Nat /\ listed \in BOOLEAN
    /\ balanceFee \in Nat \union {None} /\ feeUsed \in Nat /\ updated \in BOOLEAN

(* Tokens are neither created nor destroyed, whether fees are taken by the
   contract or by the node that writes the contract's storage. *)
SupplyKept == SumFunction(balances) = Supply

(* The capacity is covered by coins of the contract, also while the fees of a
   block are outstanding: SubBalance never makes the contract's balance negative. *)
CapacityBacked ==
    /\ coin[SMC] >= tokensState
    /\ updated => coin[SMC] >= balanceFee + feeUsed

(* What the contract's coins exceed the capacity by is what was paid for
   capacity in blocks in which the token also paid fees: the end of such a block
   overwrites it.  Nothing else is lost. *)
CapacityExact == ~ InBlock => coin[SMC] = tokensState + overwritten

(* Coins are created by token transactions only, GasPrice - 1 for each unit of
   gas: the miner is paid at the gas price, the capacity is charged the gas. *)
CoinsAccountedFor == SumFunction(coin) = Coins + feeUsed + minted
=============================================================================
