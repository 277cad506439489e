--------------------------- MODULE BatchProcessing ---------------------------
(***************************************************************************)
(* A rollup batch after batch, seen by two databases that process the same *)
(* transactions: the BatchBuilder's, with what the TxSelector gives it,    *)
(* and the Synchronizer's, with what the contract's data say.  Any batch   *)
(* that the contract and the circuit accept may come, not only one of this *)
(* node's TxSelector: other coordinators forge too.                        *)
(*                                                                         *)
(* One step is one transaction in both databases; ProcessTxs is sequential *)
(* and the two of them share nothing.                                      *)
(***************************************************************************)
EXTENDS ForgeData

CONSTANTS
    Tokens, EthAddrs, BJJs,
    Deposits, Amounts,  \* amounts of money that transactions name
    Fees,               \* fee selectors
    FirstDB,            \* the accounts when the first batch begins
    MaxIdx,             \* bound on the accounts
    MaxBatches,         \* bound on the batches
    MaxTotal            \* bound on the transactions of all batches

ASSUME BoundsAssumption ==
    /\ Deposits \subseteq Nat /\ Amounts \subseteq Nat /\ Fees \subseteq Nat
    /\ MaxIdx \in Nat /\ MaxBatches \in Nat /\ MaxTotal \in Nat
    /\ {ExitIdx, MaxIdx} \subseteq 0 .. IdxRange - 1

AccountType ==
    [token : Tokens, nonce : Nat, balance : Nat, eth : EthAddrs \cup {FFAddr}, bjj : BJJs]

\* Accounts are numbered without gaps, and no balance is below zero.
DBTypeOK(db) ==
    /\ db.currentIdx \in UserThreshold - 1 .. MaxIdx
    /\ db.account \in [UserThreshold .. db.currentIdx -> AccountType]
    /\ DOMAIN db = {"account", "currentIdx", "byAddr", "byAddrBJJ"}

ASSUME FirstDBAssumption == DBTypeOK(FirstDB)

VARIABLES
    pc,         \* phase of ProcessTxs in both of them
    sync,       \* the Synchronizer's processor
    builder,    \* the BatchBuilder's
    coordIdxs,  \* FeeIdxCoordinator of the batch
    nL1, nL2,   \* transactions of the batch so far
    batches,    \* batches so far
    total,      \* transactions so far
    before,     \* the accounts when the batch began
    \* History variables: by token, what the contract has taken; what of it was
    \* credited; what left by exits, and the fees that no account got.
    funds, credited, left

vars == <<pc, sync, builder, coordIdxs, nL1, nL2, batches, total, before,
          funds, credited, left>>

\* What of amounts of money by account is of a token.
OfToken(amounts, account, t) ==
    SumFunctionOnSet(amounts, {i \in DOMAIN amounts : account[i].token = t})
Balances(account) == [i \in DOMAIN account |-> account[i].balance]

\* What is on the accounts has been paid in.
FirstFunds == [t \in Tokens |-> OfToken(Balances(FirstDB.account), FirstDB.account, t)]

Init ==
    /\ pc = "Idle"
    /\ sync = NewTxProcessor("Synchronizer", FirstDB)
    /\ builder = NewTxProcessor("BatchBuilder", FirstDB)
    /\ coordIdxs = <<>>
    /\ nL1 = 0 /\ nL2 = 0 /\ batches = 0 /\ total = 0
    /\ before = FirstDB.account
    /\ funds = FirstFunds /\ credited = FirstFunds /\ left = [t \in Tokens |-> 0]

Accounts == DOMAIN sync.db.account
TokenOf(i) == sync.db.account[i].token

(***************************************************************************)
(* What the contract lets a user queue (external): accounts that exist,    *)
(* everything else as the user likes.                                      *)
(***************************************************************************)
L1UserTx(from, to, token, deposit, amount, eth, bjj) ==
    L1UserTxFromBytes([from |-> from, to |-> to, token |-> token, deposit |-> deposit,
                       amount |-> amount, eth |-> eth, bjj |-> bjj])

Zero == NewFloat40(0)
L1Deposits == {NewFloat40(d) : d \in Deposits}
L1Amounts == {NewFloat40(a) : a \in Amounts}

L1UserTxs ==
    {L1UserTx(NoIdx, NoIdx, t, d, Zero, e, b) :
        t \in Tokens, d \in L1Deposits, e \in EthAddrs, b \in BJJs}
    \cup {L1UserTx(NoIdx, to, t, d, a, e, b) :
        to \in Accounts, t \in Tokens, d \in L1Deposits, a \in L1Amounts, e \in EthAddrs, b \in BJJs}
    \cup {L1UserTx(from, NoIdx, t, d, Zero, e, NoBJJ) :
        from \in Accounts, t \in Tokens, d \in L1Deposits, e \in EthAddrs}
    \cup {L1UserTx(from, to, t, d, a, e, NoBJJ) :
        from \in Accounts, to \in Accounts, t \in Tokens, d \in L1Deposits \cup {Zero},
        a \in L1Amounts, e \in EthAddrs}
    \cup {L1UserTx(from, ExitIdx, t, Zero, a, e, NoBJJ) :
        from \in Accounts, t \in Tokens, a \in L1Amounts, e \in EthAddrs}

Room(l1, l2) ==
    /\ nL1 + l1 <= MaxL1Tx /\ nL1 + nL2 + l1 + l2 <= MaxTx
    /\ total < MaxTotal

RoomFor(tx) == tx.type \in CreateTypes => sync.db.currentIdx < MaxIdx

BeginBatch ==
    /\ pc = "Idle" /\ batches < MaxBatches /\ total < MaxTotal
    /\ pc' = "L1User"
    /\ sync' = NewTxProcessor("Synchronizer", sync.db)
    /\ builder' = NewTxProcessor("BatchBuilder", builder.db)
    /\ before' = sync.db.account
    /\ coordIdxs' = <<>> /\ nL1' = 0 /\ nL2' = 0 /\ batches' = batches + 1
    /\ UNCHANGED <<total, funds, credited, left>>

\* As the BatchBuilder has it, and as the Synchronizer.
ProcessL1(tx, forged) ==
    /\ Room(1, 0) /\ RoomFor(tx)
    /\ sync' = ProcessL1InBatch(sync, forged)
    /\ builder' = ProcessL1InBatch(builder, tx)
    /\ nL1' = nL1 + 1 /\ total' = total + 1
    /\ funds' = [funds EXCEPT ![tx.token] = @ + tx.deposit]
    /\ credited' = [credited EXCEPT ![tx.token] = @ + Effective(sync.db, tx).deposit]
    /\ UNCHANGED <<coordIdxs, nL2, batches, before, left>>

ProcessL1User ==
    /\ pc = "L1User"
    /\ \E tx \in L1UserTxs : ProcessL1(tx, tx)
    /\ UNCHANGED pc

\* The coordinator creates accounts for the fees and for the receivers of transfers.
ProcessL1Coordinator ==
    /\ pc \in {"L1User", "L1Coordinator"}
    /\ \E t \in Tokens, e \in EthAddrs \cup {FFAddr}, b \in BJJs :
           LET tx == L1CoordinatorTx(t, e, b)
               auth == IF e = FFAddr THEN EmptyEthSignature ELSE Authorize(e, b)
           IN  ProcessL1(tx, L1CoordinatorTxFromBytes(BytesCoordinatorTx(tx, auth)))
    /\ pc' = "L1Coordinator"

\* Any accounts may be named to receive fees, two of one token as well; their order
\* only decides which of the two is the first.
ChooseCoordIdxs ==
    /\ pc \in {"L1User", "L1Coordinator"}
    /\ \E idxs \in UNION {[1 .. n -> Accounts] : n \in 0 .. MaxFeeTx} :
          /\ \A j, k \in DOMAIN idxs : j < k => idxs[j] < idxs[k]
          /\ sync' = StartFees(sync, idxs)
          /\ builder' = StartFees(builder, idxs)
          /\ coordIdxs' = FilterCoordIdxs(sync.db, idxs)
    /\ pc' = "L2"
    /\ UNCHANGED <<nL1, nL2, batches, total, before, funds, credited, left>>

(***************************************************************************)
(* L2 transactions that the circuit proves (external): both accounts are   *)
(* there, of one token, and the sender can pay.                            *)
(***************************************************************************)
IdxOfToken == GetTokenIDsFromIdxs(sync.db, coordIdxs)

L2Tx(type, from, to, toEth, toBJJ, amount, fee) ==
    [type |-> type, from |-> from, to |-> to, auxTo |-> NoIdx, toEth |-> toEth,
     toBJJ |-> toBJJ, amount |-> amount, fee |-> fee]

L2Txs ==
    {L2Tx("Transfer", from, to, NoAddr, NoBJJ, a, f) :
        from \in Accounts, to \in Accounts, a \in Amounts, f \in Fees}
    \cup {L2Tx("TransferToEthAddr", from, NoIdx, e, NoBJJ, a, f) :
        from \in Accounts, e \in EthAddrs, a \in Amounts, f \in Fees}
    \cup {L2Tx("TransferToBJJ", from, NoIdx, FFAddr, b, a, f) :
        from \in Accounts, b \in BJJs, a \in Amounts, f \in Fees}
    \cup {L2Tx("Exit", from, ExitIdx, NoAddr, NoBJJ, a, f) :
        from \in Accounts, a \in Amounts, f \in Fees}

ReceiverOf(tx) == IF tx.to = NoIdx THEN AuxToIdx(builder, tx) ELSE tx.to

Provable(tx) ==
    /\ NewFloat40(tx.amount) # NotExact
    /\ CheckEnoughBalance(sync.db, tx)
    /\ \/ tx.type = "Exit"
       \/ /\ ReceiverOf(tx) \in Accounts
          /\ TokenOf(ReceiverOf(tx)) = TokenOf(tx.from)

\* From the pool to the contract and back: the data hold the receiver that was found,
\* and not how.
Forged(tx) == L2TxFromData(L2Data([tx EXCEPT !.auxTo = AuxToIdx(builder, tx)]))

ProcessL2 ==
    /\ pc = "L2" /\ Room(0, 1)
    /\ \E tx \in L2Txs :
          LET token == TokenOf(tx.from)
          IN  /\ Provable(tx)
              /\ builder' = ProcessL2InBatch(builder, IdxOfToken, tx)
              /\ sync' = ProcessL2InBatch(sync, IdxOfToken, Forged(tx))
              /\ left' = IF token \in DOMAIN IdxOfToken THEN left
                         ELSE [left EXCEPT ![token] = @ + FeeAmount(tx.amount, tx.fee)]
    /\ nL2' = nL2 + 1 /\ total' = total + 1
    /\ UNCHANGED <<pc, coordIdxs, nL1, batches, before, funds, credited>>

ExitsOf(t) == OfToken(sync.exitTree, sync.db.account, t)

EndBatch ==
    /\ pc = "L2"
    /\ pc' = "Idle"
    /\ sync' = DistributeFees(sync, coordIdxs)
    /\ builder' = DistributeFees(builder, coordIdxs)
    /\ left' = [t \in Tokens |-> left[t] + ExitsOf(t)]
    /\ UNCHANGED <<coordIdxs, nL1, nL2, batches, total, before, funds, credited>>

Next ==
    \/ BeginBatch
    \/ ProcessL1User
    \/ ProcessL1Coordinator
    \/ ChooseCoordIdxs
    \/ ProcessL2
    \/ EndBatch

Spec == Init /\ [][Next]_vars

-----------------------------------------------------------------------------
TypeOK ==
    /\ pc \in {"Idle", "L1User", "L1Coordinator", "L2"}
    /\ DBTypeOK(sync.db) /\ DBTypeOK(builder.db)
    /\ funds \in [Tokens -> Nat] /\ credited \in [Tokens -> Nat] /\ left \in [Tokens -> Nat]

BalancesOf(t) == OfToken(Balances(sync.db.account), sync.db.account, t)

FeesOf(t) == OfToken(sync.accumulatedFees, sync.db.account, t)

\* Money is neither made nor lost: of each token, what is on the accounts, in the
\* exit tree, in fees not yet distributed, and what has left, is what was credited,
\* and the contract has at least that much.  A transaction that is credited to an
\* account of another token, a fee distributed twice, a refused transfer that is
\* credited all the same, all break it many transactions later.
MoneyConserved ==
    \A t \in Tokens :
        LET pending == IF pc = "Idle" THEN 0 ELSE ExitsOf(t) + FeesOf(t)
        IN  /\ BalancesOf(t) + pending + left[t] = credited[t]
            /\ credited[t] <= funds[t]

\* No transaction a user can queue makes ProcessTxs fail: the queue cannot skip
\* it, so no node could process any batch after it.  Whatever computeEffectiveAmounts
\* lets through must be possible for the code that applies it.
NeverStuck == ~sync.failed /\ ~builder.failed

\* Both databases have the same accounts, indices and exits after every transaction,
\* so the root that the BatchBuilder proves is the one the Synchronizer compares
\* with, although one of them looks up the receiver by address or key, and the
\* other is told its number.
SameAccounts == sync.db = builder.db /\ sync.exitTree = builder.exitTree

\* UpdatedAccounts, from which the history database keeps the balances, has the
\* final state of every account that the batch has touched, and no account changes
\* without it (createAccount, updateAccount).
UpdatedAccountsTell ==
    /\ \A i \in Accounts : sync.db.account[i] =
           IF i \in DOMAIN sync.updatedAccounts THEN sync.updatedAccounts[i] ELSE before[i]
    /\ ToSet(sync.createdAccounts) = Accounts \ DOMAIN before

\* The exits that the history database stores are the leaves of the exit tree, one
\* for each account that has left, with all that it has taken out in the batch: a
\* user withdraws with the balance stored here and a proof against that tree.
ExitInfosTell ==
    LET infos == ExitInfos(sync)
    IN  /\ {infos[k].idx : k \in DOMAIN infos} = DOMAIN sync.exitTree
        /\ \A j, k \in DOMAIN infos : infos[j].idx = infos[k].idx => j = k
        /\ \A k \in DOMAIN infos : infos[k].balance = sync.exitTree[infos[k].idx]

\* What the Synchronizer writes to the history database of a batch is what the
\* batch did.
OutputTells == UpdatedAccountsTell /\ ExitInfosTell
=============================================================================
