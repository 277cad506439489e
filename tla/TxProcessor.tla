----------------------------- MODULE TxProcessor -----------------------------
(***************************************************************************)
(* How a batch changes the accounts (txprocessor/txprocessor.go), as       *)
(* operators from a processor to a processor.  Three databases go through  *)
(* the same batch: the one of the TxSelector while it chooses, the one of  *)
(* the BatchBuilder, and the one of the Synchronizer when the batch comes  *)
(* back from the contract.                                                 *)
(*                                                                         *)
(* A processor is the TxProcessor with its StateDB and the locals of       *)
(* ProcessTxs; "failed" means that an error was returned, and what was     *)
(* written before it stays written.  Merkle trees and the inputs of the    *)
(* circuit (zki) are left out: they are functions of the accounts.         *)
(***************************************************************************)
EXTENDS Integers, Sequences, FiniteSets, SequencesExt

CONSTANTS
    NoAddr,     \* ethCommon.Address{}, common.EmptyAddr
    FFAddr,     \* common.FFAddr: the address of accounts that have only a BJJ key
    NoBJJ,      \* common.EmptyBJJComp
    MaxTx,      \* Config.MaxTx
    MaxL1Tx,    \* Config.MaxL1Tx
    MaxFeeTx    \* Config.MaxFeeTx

ASSUME LimitsAssumption == MaxTx \in Nat /\ MaxL1Tx \in Nat /\ MaxFeeTx \in Nat

\* common.Idx: 0 is no account, 1 the exit, and the accounts of users start at
\* the threshold (256 in the code).
NoIdx == 0
ExitIdx == 1
UserThreshold == 2

CreateTypes == {"CreateAccountDeposit", "CreateAccountDepositTransfer"}
L2Types == {"Transfer", "TransferToEthAddr", "TransferToBJJ", "Exit"}
L1Types == CreateTypes \cup {"Deposit", "DepositTransfer", "ForceTransfer", "ForceExit"}

\* f with the value v at k, whether k was there or not.
Put(f, k, v) == [x \in DOMAIN f \cup {k} |-> IF x = k THEN v ELSE f[x]]

(***************************************************************************)
(* The accounts of a StateDB and its indices by address and by key.        *)
(***************************************************************************)
EmptyDB == [account |-> <<>>, currentIdx |-> UserThreshold - 1,
            byAddr |-> <<>>, byAddrBJJ |-> <<>>]

Has(db, i) == i \in DOMAIN db.account

GetIdxByEthAddr(db, addr, token) ==
    IF <<addr, token>> \in DOMAIN db.byAddr THEN db.byAddr[<<addr, token>>] ELSE NoIdx

\* NoIdx stands for every error.
GetIdxByEthAddrBJJ(db, addr, bjj, token) ==
    IF addr = NoAddr THEN NoIdx
    ELSE IF bjj = NoBJJ THEN GetIdxByEthAddr(db, addr, token)
    ELSE IF <<addr, bjj, token>> \in DOMAIN db.byAddrBJJ
         THEN db.byAddrBJJ[<<addr, bjj, token>>]
         ELSE NoIdx

\* The entry of the address is overwritten too, also when it named another key.
SetIdxByEthAddrBJJ(db, i, addr, bjj, token) ==
    IF GetIdxByEthAddrBJJ(db, addr, bjj, token) \in 1 .. i THEN db
    ELSE [db EXCEPT !.byAddrBJJ = Put(@, <<addr, bjj, token>>, i),
                    !.byAddr = Put(@, <<addr, token>>, i)]

(***************************************************************************)
(* The processor.                                                          *)
(***************************************************************************)
\* kind is "Synchronizer", "BatchBuilder" or "TxSelector".
NewTxProcessor(kind, db) ==
    [kind |-> kind, db |-> db, failed |-> FALSE, txIndex |-> 0,
     accumulatedFees |-> <<>>, collectedFees |-> <<>>,
     exitTree |-> <<>>, exits |-> <<>>,
     createdAccounts |-> <<>>, updatedAccounts |-> <<>>]

Failed(tp) == [tp EXCEPT !.failed = TRUE]

HasExitTree(tp) == tp.kind # "TxSelector"

UpdateAccount(tp, i, account) ==
    [tp EXCEPT !.db.account = Put(@, i, account),
               !.updatedAccounts = IF tp.kind = "Synchronizer" THEN Put(@, i, account) ELSE @]

CreateAccount(tp, i, account) ==
    IF Has(tp.db, i) THEN Failed(tp)
    ELSE LET created == UpdateAccount(tp, i, account)
         IN  [created EXCEPT !.db = SetIdxByEthAddrBJJ(@, i, account.eth, account.bjj,
                                                       account.token)]

\* common.CalcFeeAmount: the fee selector chooses a factor, here a number of
\* halves; the product is rounded down.
FeeAmount(amount, fee) == (amount * fee) \div 2

(***************************************************************************)
(* computeEffectiveAmounts: what of the deposit and of the amount of an L1 *)
(* transaction counts.  The contract has taken the deposit already and the *)
(* transaction cannot be left out, so what is wrong with it makes it count *)
(* for nothing.  The transactions of the coordinator move no money.        *)
(***************************************************************************)
CreatesAndTransfers(tx) == tx.from = NoIdx /\ tx.to >= UserThreshold

SenderMatches(db, tx) == Has(db, tx.from) /\ db.account[tx.from].token = tx.token
ReceiverMatches(db, tx) == Has(db, tx.to) /\ db.account[tx.to].token = tx.token

DepositCounts(db, tx) ==
    /\ tx.userOrigin
    /\ \/ tx.type = "CreateAccountDeposit"
       \/ /\ tx.type # "CreateAccountDeposit"
          /\ CreatesAndTransfers(tx)
          /\ tx.deposit < tx.amount \/ Has(db, tx.to)
       \/ /\ ~CreatesAndTransfers(tx)
          /\ SenderMatches(db, tx)
          /\ \/ db.account[tx.from].balance + tx.deposit < tx.amount
             \/ tx.to <= ExitIdx
             \/ Has(db, tx.to)

\* mutant: the token of the receiver is not compared
AmountCounts_AnyToken(db, tx) ==
    /\ tx.userOrigin
    /\ \/ tx.type = "CreateAccountDeposit"
       \/ /\ tx.type # "CreateAccountDeposit"
          /\ CreatesAndTransfers(tx)
          /\ tx.deposit >= tx.amount
          /\ Has(db, tx.to)
       \/ /\ ~CreatesAndTransfers(tx)
          /\ SenderMatches(db, tx)
          /\ db.account[tx.from].balance + tx.deposit >= tx.amount
          /\ db.account[tx.from].eth = tx.eth
          /\ tx.to <= ExitIdx \/ Has(db, tx.to)

\* mutant: the balance of the sender is left to the code that applies the transaction
AmountCounts_AnyBalance(db, tx) ==
    /\ tx.userOrigin
    /\ \/ tx.type = "CreateAccountDeposit"
       \/ /\ tx.type # "CreateAccountDeposit"
          /\ CreatesAndTransfers(tx)
          /\ tx.deposit >= tx.amount
          /\ ReceiverMatches(db, tx)
       \/ /\ ~CreatesAndTransfers(tx)
          /\ SenderMatches(db, tx)
          /\ db.account[tx.from].eth = tx.eth
          /\ tx.to <= ExitIdx \/ ReceiverMatches(db, tx)

AmountCounts(db, tx) ==
    /\ tx.userOrigin
    /\ \/ tx.type = "CreateAccountDeposit"
       \/ /\ tx.type # "CreateAccountDeposit"
          /\ CreatesAndTransfers(tx)
          /\ tx.deposit >= tx.amount
          /\ ReceiverMatches(db, tx)
       \/ /\ ~CreatesAndTransfers(tx)
          /\ SenderMatches(db, tx)
          /\ db.account[tx.from].balance + tx.deposit >= tx.amount
          /\ db.account[tx.from].eth = tx.eth
          /\ tx.to <= ExitIdx \/ ReceiverMatches(db, tx)

Effective(db, tx) ==
    [deposit |-> IF DepositCounts(db, tx) THEN tx.deposit ELSE 0,
     amount |-> IF AmountCounts(db, tx) THEN tx.amount ELSE 0]

(***************************************************************************)
(* The parts of a transaction.  An L1 transaction pays no fee and does not *)
(* use a nonce.                                                            *)
(***************************************************************************)
\* The fee goes to the account of the coordinator for this token; without one
\* nobody gets it.
CollectFee(tp, coordIdxs, token, fee) ==
    IF token \notin DOMAIN coordIdxs THEN tp
    ELSE IF ~Has(tp.db, coordIdxs[token]) THEN Failed(tp)
    ELSE LET i == coordIdxs[token]
             soFar == IF i \in DOMAIN tp.accumulatedFees THEN tp.accumulatedFees[i] ELSE 0
         IN  [tp EXCEPT !.accumulatedFees = Put(@, i, soFar + fee),
                        !.collectedFees = IF HasExitTree(tp)
                                          THEN [@ EXCEPT ![token] = @ + fee] ELSE @]

\* The sender's side of applyTransfer and applyExit.
DebitL1(tp, from, amount) ==
    LET account == tp.db.account[from]
    IN  IF account.balance < amount THEN Failed(tp)
        ELSE UpdateAccount(tp, from, [account EXCEPT !.balance = @ - amount])

DebitL2(tp, coordIdxs, tx) ==
    LET account == tp.db.account[tx.from]
        fee == FeeAmount(tx.amount, tx.fee)
        collected == CollectFee(tp, coordIdxs, account.token, fee)
    IN  IF account.balance < tx.amount + fee THEN Failed(tp)
        ELSE IF collected.failed THEN collected
        ELSE UpdateAccount(collected, tx.from,
                           [account EXCEPT !.balance = @ - tx.amount - fee,
                                           !.nonce = @ + 1])

\* The receiver's side.  The sender may be the receiver: its account is read
\* after the debit.
Credit(tp, to, amount) ==
    IF tp.failed \/ ~Has(tp.db, to) THEN Failed(tp)
    ELSE UpdateAccount(tp, to, [tp.db.account[to] EXCEPT !.balance = @ + amount])

\* An exit of amount 0 has no leaf, one whose amount does not count has a leaf
\* with nothing in it, as the circuit has.  ProcessTxs notes the exit at the
\* index of the transaction.
AddExit(tp, from, originalAmount, amount) ==
    IF tp.failed \/ ~HasExitTree(tp) \/ originalAmount = 0 THEN tp
    ELSE LET old == IF from \in DOMAIN tp.exitTree THEN tp.exitTree[from] ELSE 0
         IN  [tp EXCEPT !.exitTree = Put(@, from, old + amount),
                        !.exits = Put(@, tp.txIndex, [idx |-> from, balance |-> old + amount])]

NewAccount(tx, balance) ==
    [token |-> tx.token, nonce |-> 0, balance |-> balance, eth |-> tx.eth, bjj |-> tx.bjj]

ApplyCreateAccount(tp, tx, effective) ==
    LET i == tp.db.currentIdx + 1
        created == CreateAccount(tp, i, NewAccount(tx, effective.deposit))
    IN  IF created.failed THEN created ELSE [created EXCEPT !.db.currentIdx = i]

ApplyDeposit(tp, tx, effective, transfer) ==
    LET account == tp.db.account[tx.from]
        paid == UpdateAccount(tp, tx.from,
                    [account EXCEPT !.balance = @ + effective.deposit - effective.amount])
    IN  IF ~Has(tp.db, tx.from) THEN Failed(tp)
        ELSE IF account.balance + effective.deposit < effective.amount THEN Failed(tp)
        ELSE IF transfer THEN Credit(paid, tx.to, effective.amount) ELSE paid

\* currentIdx moves last: the new account is not counted if the receiver fails.
ApplyCreateAccountDepositTransfer(tp, tx, effective) ==
    LET i == tp.db.currentIdx + 1
        created == CreateAccount(tp, i, NewAccount(tx, effective.deposit - effective.amount))
        paid == Credit(created, tx.to, effective.amount)
    IN  IF effective.deposit < effective.amount THEN Failed(tp)
        ELSE IF paid.failed THEN paid
        ELSE [paid EXCEPT !.db.currentIdx = i]

(***************************************************************************)
(* One transaction.                                                        *)
(***************************************************************************)
ProcessL1Tx(tp, tx) ==
    LET effective == Effective(tp.db, tx)
        debited == IF Has(tp.db, tx.from) THEN DebitL1(tp, tx.from, effective.amount)
                   ELSE Failed(tp)
    IN  CASE tx.type = "ForceTransfer" -> Credit(debited, tx.to, effective.amount)
          [] tx.type = "ForceExit" -> AddExit(debited, tx.from, tx.amount, effective.amount)
          [] tx.type = "CreateAccountDeposit" -> ApplyCreateAccount(tp, tx, effective)
          [] tx.type = "Deposit" -> ApplyDeposit(tp, tx, effective, FALSE)
          [] tx.type = "DepositTransfer" -> ApplyDeposit(tp, tx, effective, TRUE)
          [] tx.type = "CreateAccountDepositTransfer" ->
                 ApplyCreateAccountDepositTransfer(tp, tx, effective)

\* The receiver of a transaction to an address or to a key, once and for all: the
\* BatchBuilder uses the one that the TxSelector has found.
AuxToIdx(tp, tx) ==
    IF tx.to = NoIdx /\ tx.auxTo = NoIdx /\ Has(tp.db, tx.from)
    THEN GetIdxByEthAddrBJJ(tp.db, tx.toEth, tx.toBJJ, tp.db.account[tx.from].token)
    ELSE tx.auxTo

\* mutant: the key is not looked at
Receiver_ByAddress(tp, tx) ==
    IF tx.to # NoIdx \/ ~Has(tp.db, tx.from) THEN tx.to
    ELSE GetIdxByEthAddr(tp.db, tx.toEth, tp.db.account[tx.from].token)

Receiver(tp, tx) == IF AuxToIdx(tp, tx) = NoIdx THEN tx.to ELSE AuxToIdx(tp, tx)

ProcessL2Tx(tp, coordIdxs, tx) ==
    LET debited == DebitL2(tp, coordIdxs, tx)
    IN  IF \/ ~Has(tp.db, tx.from)
           \/ Receiver(tp, tx) = NoIdx
           \/ tp.kind = "Synchronizer" /\ tx.to = NoIdx /\ tx.auxTo = NoIdx
        THEN Failed(tp)
        ELSE IF tx.type \notin L2Types THEN tp
        ELSE IF tx.type = "Exit" THEN AddExit(debited, tx.from, tx.amount, tx.amount)
        ELSE Credit(debited, Receiver(tp, tx), tx.amount)

CheckEnoughBalance(db, tx) ==
    Has(db, tx.from) /\ db.account[tx.from].balance >= tx.amount + FeeAmount(tx.amount, tx.fee)

(***************************************************************************)
(* ProcessTxs, phase by phase.                                             *)
(***************************************************************************)
Fits(nL1, nL2, nCoordIdxs) ==
    /\ nCoordIdxs <= MaxFeeTx
    /\ nL1 + nL2 <= MaxTx
    /\ nL1 <= MaxL1Tx

\* An L1 transaction of a user, or of the coordinator.  The second kind is not
\* counted by the Synchronizer, that has no inputs of the circuit to fill.
ProcessL1InBatch(tp, tx) ==
    LET done == ProcessL1Tx(tp, tx)
    IN  IF tp.failed \/ done.failed THEN Failed(done)
        ELSE [done EXCEPT
                 !.txIndex = IF tx.userOrigin \/ tp.kind = "BatchBuilder" THEN @ + 1 ELSE @,
                 !.createdAccounts =
                     IF tp.kind = "Synchronizer" /\ tx.type \in CreateTypes
                     THEN Append(@, done.db.currentIdx) ELSE @]

\* The first account of the coordinator for each token.
FilterCoordIdxs(db, coordIdxs) ==
    LET token(i) == db.account[i].token
    IN  FoldLeft(LAMBDA kept, i : IF \E j \in ToSet(kept) : token(j) = token(i)
                                  THEN kept ELSE Append(kept, i),
                 <<>>, coordIdxs)

GetTokenIDsFromIdxs(db, idxs) ==
    [t \in {db.account[i].token : i \in ToSet(idxs)} |->
        CHOOSE i \in ToSet(idxs) : db.account[i].token = t]

\* Between the L1 and the L2 transactions, because a batch may create the account
\* of the coordinator.
StartFees(tp, coordIdxs) ==
    IF tp.failed \/ \E i \in ToSet(coordIdxs) : ~Has(tp.db, i) THEN Failed(tp)
    ELSE LET kept == FilterCoordIdxs(tp.db, coordIdxs)
         IN  [tp EXCEPT
                 !.accumulatedFees = [i \in ToSet(kept) |-> 0],
                 !.collectedFees =
                     IF HasExitTree(tp)
                     THEN [t \in DOMAIN GetTokenIDsFromIdxs(tp.db, kept) |-> 0] ELSE @]

ProcessL2InBatch(tp, coordIdxs, tx) ==
    LET done == ProcessL2Tx(tp, coordIdxs, tx)
    IN  IF tp.failed \/ done.failed THEN Failed(done)
        ELSE [done EXCEPT !.txIndex = IF HasExitTree(tp) THEN @ + 1 ELSE @]

\* mutant: UpdateAccount of the StateDB without the wrapper
DistributeFees_Direct(tp, coordIdxs) ==
    FoldLeft(LAMBDA p, i : [p EXCEPT !.db.account[i].balance = @ + p.accumulatedFees[i]],
             tp, coordIdxs)

DistributeFees(tp, coordIdxs) ==
    FoldLeft(LAMBDA p, i : Credit(p, i, p.accumulatedFees[i]), tp, coordIdxs)

\* mutant: the balance of the first exit of an account
AddExitInfo_First(infos, exit) ==
  IF exit.idx \in DOMAIN infos.byIdx THEN infos
  ELSE [idxs |-> Append(infos.idxs, exit.idx), byIdx |-> Put(infos.byIdx, exit.idx, exit)]

\* exitIdxs in the order of the first exits, exitInfosByIdx with the last ones.
AddExitInfo(infos, exit) ==
  [idxs |-> IF exit.idx \in DOMAIN infos.byIdx THEN infos.idxs
            ELSE Append(infos.idxs, exit.idx),
   byIdx |-> Put(infos.byIdx, exit.idx, exit)]

\* One ExitInfo per account, with the balance that its last exit left.  The loop of the
\* code ends with the batch; nothing is at the places behind it.
ExitInfos(tp) ==
  LET infos == FoldLeft(LAMBDA soFar, k : IF k \in DOMAIN tp.exits
                                          THEN AddExitInfo(soFar, tp.exits[k]) ELSE soFar,
                        [idxs |-> <<>>, byIdx |-> <<>>], [n \in 1 .. MaxTx |-> n - 1])
  IN  [n \in DOMAIN infos.idxs |-> infos.byIdx[infos.idxs[n]]]

\* The whole of it.  The caller's database has what was written even if it fails.
ProcessTxs(kind, db, coordIdxs, l1UserTxs, l1CoordinatorTxs, l2Txs) ==
    LET l1Txs == l1UserTxs \o l1CoordinatorTxs
        afterL1 == FoldLeft(ProcessL1InBatch, NewTxProcessor(kind, db), l1Txs)
        started == StartFees(afterL1, coordIdxs)
        kept == FilterCoordIdxs(started.db, coordIdxs)
        idxOfToken == GetTokenIDsFromIdxs(started.db, kept)
        afterL2 == FoldLeft(LAMBDA p, tx : ProcessL2InBatch(p, idxOfToken, tx), started, l2Txs)
    IN  IF ~Fits(Len(l1Txs), Len(l2Txs), Len(coordIdxs)) THEN Failed(NewTxProcessor(kind, db))
        ELSE IF started.failed THEN started
        ELSE DistributeFees(afterL2, kept)
=============================================================================
