-------------------------------- MODULE PoolAPI --------------------------------
(***************************************************************************)
(* How transactions enter the pool (api/txspool.go, api/atomicpool.go and  *)
(* the functions of db/l2db they call): a request is checked against the   *)
(* accounts that the history database has, and adds rows, changes one or   *)
(* replaces some.  After this no code looks at a signature again, so the   *)
(* rows must be what their senders have signed whatever requests follow.   *)
(*                                                                         *)
(* The pool is the sequence of its rows, in the order of item_id.          *)
(***************************************************************************)
EXTENDS TxProcessor, Pages

CONSTANTS
    NoGroup,        \* common.EmptyAtomicGroupID
    Ether,          \* the token 0
    MaxTxs,         \* L2DB.maxTxs
    MinFee, MaxFee  \* L2DB.minFeeUSD, maxFeeUSD

NoRq == [from |-> NoIdx, to |-> NoIdx, toEth |-> NoAddr, toBJJ |-> NoBJJ, token |-> Ether,
         amount |-> 0, fee |-> 0, nonce |-> 0]
NoTxID == <<>>
NoType == ""

Wanted(tx) == [from |-> tx.from, to |-> tx.to, toEth |-> tx.toEth, toBJJ |-> tx.toBJJ,
               token |-> tx.token, amount |-> tx.amount, fee |-> tx.fee, nonce |-> tx.nonce]

(***************************************************************************)
(* The transaction (common/pooll2tx.go).                                   *)
(***************************************************************************)
TypeOf(tx) ==
    LET noAddr == tx.toBJJ = NoBJJ /\ tx.toEth = NoAddr
    IN  CASE tx.to >= UserThreshold -> "Transfer"
          [] noAddr /\ tx.to = ExitIdx -> "Exit"
          [] tx.to = NoIdx /\ tx.toBJJ # NoBJJ /\ tx.toEth = FFAddr -> "TransferToBJJ"
          [] tx.to = NoIdx /\ tx.toBJJ = NoBJJ /\ tx.toEth \notin {FFAddr, NoAddr}
                 -> "TransferToEthAddr"
          [] OTHER -> "malformed"

\* Neither the receiver nor the last batch is in it.
TxID(tx) == <<tx.from, tx.token, tx.amount, tx.nonce, tx.fee>>

\* What is given must be right; what is left out is not filled in.
NewPoolL2Tx(tx) ==
    /\ TypeOf(tx) # "malformed" /\ tx.type \in {NoType, TypeOf(tx)}
    /\ tx.id \in {NoTxID, TxID(tx)}

TxCompressedData(tx) == <<tx.fee, tx.nonce, tx.token, tx.to, tx.from>>

\* The request of another transaction of the group, all fields of it.
RqTxCompressedDataV2(tx) == tx.rq

HashToSign(tx) == <<TxCompressedData(tx), tx.maxNumBatch, tx.amount, tx.toEth, tx.toBJJ,
                    RqTxCompressedDataV2(tx)>>

\* A client signs (external).
Signed(tx, bjj) == [tx EXCEPT !.id = TxID(tx), !.type = TypeOf(tx),
                              !.sig = [by |-> bjj, hash |-> HashToSign(tx)]]

VerifySignature(tx, bjj) == tx.sig = [by |-> bjj, hash |-> HashToSign(tx)]

(***************************************************************************)
(* The checks of the API.                                                  *)
(***************************************************************************)
verifyPoolL2Tx(accounts, tx) ==
    /\ NewPoolL2Tx(tx)
    /\ tx.from \in DOMAIN accounts
    /\ LET account == accounts[tx.from]
       IN  /\ tx.token = account.token
           /\ tx.nonce >= account.nonce
           /\ VerifySignature(tx, account.bjj)
    /\ TypeOf(tx) = "Transfer" => tx.to \in DOMAIN accounts /\ accounts[tx.to].token = tx.token
    /\ TypeOf(tx) = "Exit" => tx.amount > 0

isAtomic(tx) == tx.rq # NoRq

\* UnmarshalJSON knows neither of the group nor of the fields Rq.
Parsed(tx) == [tx EXCEPT !.group = NoGroup, !.rq = NoRq]

FeeInRange(fees, n) == MinFee * n <= fees /\ fees <= MaxFee * n

(***************************************************************************)
(* The table.                                                              *)
(***************************************************************************)
Owner(accounts, idx) ==
    IF idx \in DOMAIN accounts THEN [eth |-> accounts[idx].eth, bjj |-> accounts[idx].bjj]
    ELSE [eth |-> NoAddr, bjj |-> NoBJJ]

\* The trigger of an insertion; the fields of a request are NULL without its sender.
Row(accounts, tx) ==
    LET alone == IF tx.rq.from # NoIdx THEN tx
                 ELSE [tx EXCEPT !.rq = NoRq, !.rqOffset = 0, !.group = NoGroup]
    IN  [alone EXCEPT
            !.effectiveFrom = Owner(accounts, tx.from),
            !.effectiveTo = IF tx.to >= UserThreshold THEN Owner(accounts, tx.to)
                            ELSE [eth |-> tx.toEth, bjj |-> tx.toBJJ]]

\* The trigger of every update.
Touched(row) == [row EXCEPT !.effectiveTo = [eth |-> row.toEth, bjj |-> row.toBJJ]]

IsPending(row) == row.state = "pend" /\ ~row.externalDelete

GetPendingTxs(rows) == SelectSeq(rows, IsPending)

Full(rows) == Len(GetPendingTxs(rows)) >= MaxTxs

\* All or none, by one statement.
addTxs(rows, accounts, txs) ==
    LET ids == [i \in DOMAIN txs |-> txs[i].id]
    IN  IF Full(rows) \/ ~IsInjective(ids) \/ \E r \in ToSet(rows) : r.id \in ToSet(ids)
        THEN rows
        ELSE rows \o [i \in DOMAIN txs |-> Row(accounts, txs[i])]

\* mutant: the new limit is stored without the new signature
updateTx_KeepsSignature(rows, tx) ==
    LET Change(row) ==
            IF row.id = tx.id /\ row.group = NoGroup
            THEN Touched([row EXCEPT !.to = tx.to, !.toEth = tx.toEth, !.toBJJ = tx.toBJJ,
                                     !.maxNumBatch = tx.maxNumBatch, !.type = tx.type])
            ELSE row
    IN  [i \in DOMAIN rows |-> Change(rows[i])]

\* Whatever the state of the row.
updateTx(rows, tx) ==
    LET nothing == tx.to = NoIdx /\ tx.toEth = NoAddr /\ tx.toBJJ = NoBJJ /\ tx.maxNumBatch = 0
        Change(row) ==
            IF row.id = tx.id /\ row.group = NoGroup
            THEN Touched([row EXCEPT !.to = tx.to, !.toEth = tx.toEth, !.toBJJ = tx.toBJJ,
                                     !.maxNumBatch = tx.maxNumBatch, !.sig = tx.sig,
                                     !.type = tx.type])
            ELSE row
    IN  IF nothing THEN rows ELSE [i \in DOMAIN rows |-> Change(rows[i])]

\* The rows of the nonce make room for one, in one transaction.
updateTxByIdxAndNonce(rows, accounts, idx, nonce, tx) ==
    LET Stays(row) == \/ row.from # idx \/ row.nonce # nonce
                      \/ row.state \notin {"pend", "invl"} \/ row.externalDelete
                      \/ row.group # NoGroup
        left == SelectSeq(rows, Stays)
    IN  IF left = rows \/ \E r \in ToSet(left) : r.id = tx.id THEN rows
        ELSE Append(left, Row(accounts, [tx EXCEPT !.rqOffset = 0]))

(***************************************************************************)
(* The handlers.  A request that is refused changes nothing.               *)
(***************************************************************************)
postPoolTx(rows, accounts, body) ==
    LET tx == Parsed(body)
    IN  IF ~isAtomic(tx) /\ verifyPoolL2Tx(accounts, tx) /\ FeeInRange(tx.absoluteFee, 1)
        THEN addTxs(rows, accounts, <<tx>>) ELSE rows

\* The range of the fee is not checked: the identifier holds amount and fee.
putPoolTx(rows, accounts, txID, body) ==
    LET tx == [Parsed(body) EXCEPT !.id = txID]
    IN  IF ~isAtomic(tx) /\ verifyPoolL2Tx(accounts, tx) THEN updateTx(rows, tx) ELSE rows

putPoolTxByIdxAndNonce(rows, accounts, idx, nonce, body) ==
    LET tx == Parsed(body)
    IN  IF /\ ~isAtomic(tx)
           /\ tx.state = "pend" /\ tx.from = idx /\ tx.nonce = nonce
           /\ verifyPoolL2Tx(accounts, tx)
           /\ FeeInRange(tx.absoluteFee, 1)
        THEN updateTxByIdxAndNonce(rows, accounts, idx, nonce, tx) ELSE rows

\* RequestOffset2RelativePosition: 4 to 7 count from the end, 0 is none.
RelativePosition(offset) == IF offset >= 4 THEN offset - 8 ELSE offset

Requested(txs, i) == i + RelativePosition(txs[i].rqOffset)

RequestsAreThere(txs) ==
    \A i \in DOMAIN txs : txs[i].rqOffset \in 1 .. 7 /\ Requested(txs, i) \in DOMAIN txs

\* What a transaction needs, and what that needs in turn.
Reaches(txs, i) ==
    FoldLeft(LAMBDA S, n : S \cup {Requested(txs, j) : j \in S}, {Requested(txs, i)}, txs)

\* mutant: it is enough that every transaction has a request
isSingleAtomicGroup_AllRequest(txs) == RequestsAreThere(txs)

\* One strongly connected component.
isSingleAtomicGroup(txs) ==
    RequestsAreThere(txs) /\ \A i \in DOMAIN txs : Reaches(txs, i) = DOMAIN txs

AtomicGroupID(txs) == [i \in DOMAIN txs |-> txs[i].id]

postAtomicPool(rows, accounts, groupID, bodies) ==
    LET group == [i \in DOMAIN bodies |->
                     [Parsed(bodies[i]) EXCEPT
                         !.group = groupID, !.rq = Wanted(bodies[Requested(bodies, i)])]]
        fees == FoldLeft(LAMBDA sum, tx : sum + tx.absoluteFee, 0, bodies)
    IN  IF /\ groupID = AtomicGroupID(bodies) /\ Len(bodies) > 1
           /\ RequestsAreThere(bodies)
           /\ \A i \in DOMAIN bodies : verifyPoolL2Tx(accounts, group[i])
           /\ isSingleAtomicGroup(bodies)
           /\ FeeInRange(fees, Len(bodies))
        THEN addTxs(rows, accounts, group) ELSE rows

\* Another program marks rows to be deleted (external); they go at the next purge.
ExternalDelete(rows, ids) ==
    [i \in DOMAIN rows |->
        IF rows[i].id \in ids THEN Touched([rows[i] EXCEPT !.externalDelete = TRUE]) ELSE rows[i]]

Handle(rows, accounts, r) ==
    CASE r.kind = "post" -> postPoolTx(rows, accounts, r.tx)
      [] r.kind = "put" -> putPoolTx(rows, accounts, r.id, r.tx)
      [] r.kind = "replace" -> putPoolTxByIdxAndNonce(rows, accounts, r.idx, r.nonce, r.tx)
      [] r.kind = "atomic" -> postAtomicPool(rows, accounts, r.group, r.txs)
      [] r.kind = "delete" -> ExternalDelete(rows, r.ids)

(***************************************************************************)
(* The list of the pool.                                                   *)
(***************************************************************************)
Anyone == "any"

NoFilter == [addr |-> Anyone, fromAddr |-> Anyone, toAddr |-> Anyone, bjj |-> Anyone, fromBjj |-> Anyone,
             toBjj |-> Anyone, token |-> Anyone, idx |-> NoIdx, fromIdx |-> NoIdx, toIdx |-> NoIdx,
             state |-> Anyone, type |-> Anyone]

ValidFilters(q) ==
    LET byAddr == {q.addr, q.fromAddr, q.toAddr} # {Anyone}
        byBjj == {q.bjj, q.fromBjj, q.toBjj} # {Anyone}
        byIdx == {q.idx, q.fromIdx, q.toIdx} # {NoIdx}
    IN  ~(byAddr /\ byBjj) /\ ~(byIdx /\ (byAddr \/ byBjj \/ q.token # Anyone))

\* mutant: the receiver is looked for as the sender has named it
PoolWhere_AsNamed(q, row) ==
    /\ ~row.externalDelete
    /\ Sides(row.effectiveFrom.eth, row.toEth, Anyone, q.addr, q.fromAddr, q.toAddr)
    /\ Sides(row.from, row.to, NoIdx, q.idx, q.fromIdx, q.toIdx)

PoolWhere(q, row) ==
    /\ ~row.externalDelete
    /\ Sides(row.effectiveFrom.eth, row.effectiveTo.eth, Anyone, q.addr, q.fromAddr, q.toAddr)
    /\ Sides(row.effectiveFrom.bjj, row.effectiveTo.bjj, Anyone, q.bjj, q.fromBjj, q.toBjj)
    /\ Sides(row.from, row.to, NoIdx, q.idx, q.fromIdx, q.toIdx)
    /\ q.token \in {Anyone, row.token} /\ q.state \in {Anyone, row.state} /\ q.type \in {Anyone, row.type}

\* A request with filters that do not go together is refused.
getPoolTxs(rows, q, p) ==
    IF ValidFilters(q) THEN Page(Items(rows, LAMBDA row : PoolWhere(q, row)), p)
    ELSE [items |-> <<>>, pending |-> 0]
=============================================================================
