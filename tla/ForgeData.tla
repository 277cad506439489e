------------------------------- MODULE ForgeData -------------------------------
(***************************************************************************)
(* What of a batch goes to the contract and comes back (eth/rollup.go, and *)
(* the encodings of common).  A coordinator sends what the circuit needs:  *)
(* the transactions of the pool lose their receivers' names, nonces,       *)
(* tokens and signatures, and the creations of accounts keep the           *)
(* authorization instead of the address.  Every Synchronizer has to find   *)
(* the rest again in its own accounts.                                     *)
(*                                                                         *)
(* The call is records of the fields that the code writes one behind the   *)
(* other.                                                                  *)
(***************************************************************************)
EXTENDS TxProcessor

CONSTANTS
    Radix, Mantissa, MaxExponent,  \* of Float40: 10, 2^35 and 31 in the code
    IdxRange                       \* 2^NLevels of the verifier

ASSUME FloatAssumption ==
    /\ Radix \in Nat \ {0, 1} /\ Mantissa \in Nat \ {0} /\ MaxExponent \in Nat
    /\ IdxRange \in Nat \ {0}

(***************************************************************************)
(* Float40.                                                                *)
(***************************************************************************)
NotExact == [e |-> 0, m |-> Mantissa]

Power[e \in Nat] == IF e = 0 THEN 1 ELSE Radix * Power[e - 1]

\* A zero at the end goes to the exponent as long as the mantissa is too large.
NewFloat40(amount) ==
    LET m(e) == amount \div Power[e]
        MayShift(e) == m(e) % Radix = 0 /\ m(e) >= Mantissa
        Shifts == {n \in 0 .. MaxExponent : \A k \in 0 .. n : MayShift(k)}
        e == Cardinality(Shifts)
    IN  IF e > MaxExponent \/ m(e) >= Mantissa THEN NotExact ELSE [e |-> e, m |-> m(e)]

BigInt(f40) == f40.m * Power[f40.e]

(***************************************************************************)
(* The transactions (common/l1tx.go, common/l2tx.go).                      *)
(***************************************************************************)
L1TypeOf(from, to, deposit) ==
    IF from = NoIdx
    THEN IF to = NoIdx THEN "CreateAccountDeposit" ELSE "CreateAccountDepositTransfer"
    ELSE CASE to = NoIdx -> "Deposit"
           [] to = ExitIdx -> "ForceExit"
           [] OTHER -> IF deposit = 0 THEN "ForceTransfer" ELSE "DepositTransfer"

\* From the event of the contract, which has encoded amounts (external).
L1UserTxFromBytes(b) ==
    [type |-> L1TypeOf(b.from, b.to, BigInt(b.deposit)), userOrigin |-> TRUE,
     from |-> b.from, to |-> b.to, token |-> b.token, deposit |-> BigInt(b.deposit),
     amount |-> BigInt(b.amount), eth |-> b.eth, bjj |-> b.bjj]

\* The coordinator creates accounts and nothing else.
L1CoordinatorTx(token, eth, bjj) ==
    [type |-> "CreateAccountDeposit", userOrigin |-> FALSE, from |-> NoIdx, to |-> NoIdx,
     token |-> token, deposit |-> 0, amount |-> 0, eth |-> eth, bjj |-> bjj]

EmptyEthSignature == <<>>

\* AccountCreationAuth: the signature of an address under a key (external).
Authorize(eth, bjj) == [by |-> eth, bjj |-> bjj]

BytesCoordinatorTx(tx, auth) == [auth |-> auth, bjj |-> tx.bjj, token |-> tx.token]

\* The address is recovered from the signature; without one there is only the key.
\* Under another key a signature gives some address that nobody has.
L1CoordinatorTxFromBytes(b) ==
    L1CoordinatorTx(b.token,
                    IF b.auth = EmptyEthSignature THEN FFAddr
                    ELSE IF b.auth.bjj = b.bjj THEN b.auth.by ELSE NoAddr,
                    b.bjj)

\* mutant: the receiver as the pool has it
PoolL2Tx_L2Tx_To(tx) == tx

\* PoolL2Tx.L2Tx
PoolL2Tx_L2Tx(tx) == [tx EXCEPT !.to = IF @ = NoIdx THEN tx.auxTo ELSE @]

\* BytesDataAvailability; an L1 transaction has no fee.
DataAvailability(tx, amount, fee) ==
    [from |-> tx.from % IdxRange, to |-> tx.to % IdxRange, amount |-> NewFloat40(amount), fee |-> fee]

L2Data(tx) == DataAvailability(PoolL2Tx_L2Tx(tx), tx.amount, tx.fee)

L2TypeOf(b) == CASE b.to = ExitIdx -> "Exit" [] b.to >= UserThreshold -> "Transfer" [] OTHER -> ""

\* L2TxFromBytesDataAvailability, with the type, as PoolL2Tx.
L2TxFromData(b) ==
    [from |-> b.from, to |-> b.to, auxTo |-> NoIdx, toEth |-> NoAddr, toBJJ |-> NoBJJ,
     amount |-> BigInt(b.amount), fee |-> b.fee, type |-> L2TypeOf(b)]

(***************************************************************************)
(* The call.                                                               *)
(***************************************************************************)
\* The effective amounts that the processor has set on the L1 transactions.
EffectiveAmounts(kind, db, l1Txs) ==
    LET before(n) == FoldLeft(ProcessL1Tx, NewTxProcessor(kind, db), SubSeq(l1Txs, 1, n - 1)).db
    IN  [n \in DOMAIN l1Txs |-> Effective(before(n), l1Txs[n]).amount]

Chunks(l1Txs, amounts) == [n \in DOMAIN l1Txs |-> DataAvailability(l1Txs[n], amounts[n], 0)]

\* mutant: the L1 transactions of the coordinator come last
L1L2TxData_L2First(args) ==
    Chunks(args.l1UserTxs, args.userAmounts)
    \o [n \in DOMAIN args.l2Txs |-> L2Data(args.l2Txs[n])]
    \o Chunks(args.l1CoordinatorTxs, [n \in DOMAIN args.l1CoordinatorTxs |-> 0])

L1L2TxData(args) ==
    Chunks(args.l1UserTxs, args.userAmounts)
    \o Chunks(args.l1CoordinatorTxs, [n \in DOMAIN args.l1CoordinatorTxs |-> 0])
    \o [n \in DOMAIN args.l2Txs |-> L2Data(args.l2Txs[n])]

RollupForgeBatch(args) ==
    [encodedL1CoordinatorTx |-> [n \in DOMAIN args.l1CoordinatorTxs |->
         BytesCoordinatorTx(args.l1CoordinatorTxs[n], args.auths[n])],
     l1L2TxsData |-> L1L2TxData(args),
     feeIdxCoordinator |-> [n \in 1 .. MaxFeeTx |->
         IF n \in DOMAIN args.feeIdxs THEN args.feeIdxs[n] % IdxRange ELSE NoIdx]]

\* The event of the contract says how many of the transactions users have queued.
RollupForgeBatchArgs(call, l1UserTxsLen) ==
    LET nL1 == l1UserTxsLen + Len(call.encodedL1CoordinatorTx)
        l2Data == SubSeq(call.l1L2TxsData, nL1 + 1, Len(call.l1L2TxsData))
    IN  [l1CoordinatorTxs |-> [n \in DOMAIN call.encodedL1CoordinatorTx |->
             L1CoordinatorTxFromBytes(call.encodedL1CoordinatorTx[n])],
         l2Txs |-> [n \in DOMAIN l2Data |-> L2TxFromData(l2Data[n])],
         feeIdxs |-> SelectSeq(call.feeIdxCoordinator, LAMBDA i : i # NoIdx)]

(***************************************************************************)
(* rollupSync: a batch in the Synchronizer, with the transactions of the   *)
(* users that it has from their events.                                    *)
(***************************************************************************)
SyncBatch(db, l1UserTxs, call) ==
    LET args == RollupForgeBatchArgs(call, Len(l1UserTxs))
    IN  ProcessTxs("Synchronizer", db, args.feeIdxs, l1UserTxs, args.l1CoordinatorTxs, args.l2Txs)

\* The L2 transactions of the batch in the history database, with the nonce and the
\* token of the sender at the place of each.
SyncedL2Txs(db, l1UserTxs, call) ==
    LET args == RollupForgeBatchArgs(call, Len(l1UserTxs))
        start == FoldLeft(ProcessL1InBatch, NewTxProcessor("Synchronizer", db),
                          l1UserTxs \o args.l1CoordinatorTxs)
        before(n) == FoldLeft(LAMBDA p, tx : ProcessL2Tx(p, <<>>, tx), start,
                              SubSeq(args.l2Txs, 1, n - 1)).db
        sender(n) == before(n).account[args.l2Txs[n].from]
    IN  [n \in DOMAIN args.l2Txs |->
            args.l2Txs[n] @@ [nonce |-> sender(n).nonce, token |-> sender(n).token]]
=============================================================================
