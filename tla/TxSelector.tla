------------------------------ MODULE TxSelector ------------------------------
(***************************************************************************)
(* The TxSelector chooses the transactions of the next batch               *)
(* (txselector/txselector.go, getL1L2TxSelection), and the BatchBuilder    *)
(* processes what it has chosen.                                           *)
(*                                                                         *)
(* The selection is greedy and changes a database as it goes: whether a    *)
(* transaction can be taken depends on those taken before.  What is        *)
(* refused is tried again as long as something else was taken.  Nothing    *)
(* can be undone but everything: if a transaction of an atomic group       *)
(* cannot be taken, the selection starts again without the group.          *)
(*                                                                         *)
(* The code is sequential; the API changes the pool while it runs, and the *)
(* pool is read again at every start.                                      *)
(***************************************************************************)
EXTENDS PoolAPI, ForgeData

CONSTANTS
    CoordAddr, CoordBJJ,  \* CoordAccount
    Auths,      \* authorizations to create accounts: the keys by address
    NextBatch,  \* number of the batch to come
    Worlds      \* what the selection may find

VARIABLES
    pc,
    world,      \* db, l1UserTxs, l1UserFutureTxs; the requests for the pool, and the
                \* accounts that the API has checked them against
    handled,    \* requests before the last start
    failedAtomicGroups,
    pending,    \* GetPendingTxs of the last start
    tp,         \* the processor on localAccountsDB
    l2Txs,      \* what this iteration has still to look at
    nonSelectedTxs,
    progressed, \* this iteration has selected something
    selectedTxs, l1CoordinatorTxs,
    coordIdxs,
    builder,    \* the processor of BuildBatch
    synced      \* the processor of the Synchronizer, with the batch from the contract

vars == <<pc, world, handled, failedAtomicGroups, pending, tp, l2Txs, nonSelectedTxs, progressed,
          selectedTxs, l1CoordinatorTxs, coordIdxs, builder, synced>>

Init ==
    /\ pc = "Start"
    /\ world \in Worlds
    /\ handled = 0
    /\ failedAtomicGroups = {}
    /\ pending = <<>>
    /\ tp = NewTxProcessor("TxSelector", world.db)
    /\ l2Txs = <<>> /\ nonSelectedTxs = <<>> /\ progressed = FALSE
    /\ selectedTxs = <<>> /\ l1CoordinatorTxs = <<>> /\ coordIdxs = <<>>
    /\ builder = NewTxProcessor("BatchBuilder", world.db)
    /\ synced = NewTxProcessor("Synchronizer", world.db)

IsAtomic(tx) == tx.group # NoGroup

(***************************************************************************)
(* The order of the selection.                                             *)
(***************************************************************************)
GroupOf(txs, g) == SelectSeq(txs, LAMBDA tx : tx.group = g)

\* The fields Rq of a transaction describe the one at the position RqOffset.
IsAtomicGroupValid(group) ==
    /\ RequestsAreThere(group)
    /\ \A i \in DOMAIN group : group[i].rq = Wanted(group[Requested(group, i)])

Selectable(txs, failed) ==
    {tx \in ToSet(txs) : \/ ~IsAtomic(tx)
                         \/ /\ tx.group \notin failed
                            /\ IsAtomicGroupValid(GroupOf(txs, tx.group))}

\* calculateAtomicGroupsAverageFee, as a sum and a number.
Worth(tx, txs) ==
    IF IsAtomic(tx)
    THEN LET group == GroupOf(txs, tx.group)
         IN  [sum |-> FoldLeft(LAMBDA n, t : n + t.absoluteFee, 0, group), n |-> Len(group)]
    ELSE [sum |-> tx.absoluteFee, n |-> 1]

WorthMore(a, b, txs) == Worth(a, txs).sum * Worth(b, txs).n > Worth(b, txs).sum * Worth(a, txs).n

\* a comes before b.
Precedes(a, b, txs) ==
    \/ WorthMore(a, b, txs)
    \/ /\ ~WorthMore(b, a, txs)
       /\ \/ IsAtomic(a) /\ ~IsAtomic(b)
          \/ /\ ~IsAtomic(a) /\ ~IsAtomic(b)
             /\ \/ a.from < b.from
                \/ a.from = b.from /\ a.nonce < b.nonce
          \/ /\ IsAtomic(a) /\ a.group = b.group
             /\ \E i, j \in DOMAIN txs : txs[i] = a /\ txs[j] = b /\ i < j

\* sortL2Txs: neither groups of equal fee nor equal transactions have an order.
Sorted(order, txs) ==
    /\ \A i, j \in DOMAIN order : i < j => ~Precedes(order[j], order[i], txs)
    /\ \A i, k \in DOMAIN order :
           IsAtomic(order[i]) /\ order[i].group = order[k].group
               => \A j \in i .. k : order[j].group = order[i].group

(***************************************************************************)
(* The slots of the batch.                                                 *)
(***************************************************************************)
NumL1(l1Txs) == Len(world.l1UserTxs) + Len(l1Txs)

CanAddL2Tx(l1Txs) == NumL1(l1Txs) + Len(selectedTxs) < MaxTx

\* mutant: no slot is kept for the L2 transaction itself
CanAddL2TxThatNeedsNewCoordL1Tx_Full(l1Txs) ==
    /\ NumL1(l1Txs) < MaxL1Tx
    /\ NumL1(l1Txs) + Len(selectedTxs) < MaxTx

CanAddL2TxThatNeedsNewCoordL1Tx(l1Txs) ==
    /\ NumL1(l1Txs) < MaxL1Tx
    /\ NumL1(l1Txs) + Len(selectedTxs) + 1 < MaxTx

(***************************************************************************)
(* One transaction.  A step goes from a processor and the L1 transactions  *)
(* of the coordinator so far to the same; what it has made stays, also     *)
(* when the transaction is refused in the end.                             *)
(***************************************************************************)
AddL1(s, l1Tx) == [tp |-> ProcessL1Tx(s.tp, l1Tx), l1Txs |-> Append(s.l1Txs, l1Tx)]

CoordIdx(db, token) == GetIdxByEthAddrBJJ(db, CoordAddr, CoordBJJ, token)

CoordAccountForTokenID(s, token) ==
    IF CoordIdx(s.tp.db, token) # NoIdx THEN s
    ELSE AddL1(s, L1CoordinatorTx(token, CoordAddr, CoordBJJ))

\* mutant: a receiver given by its address only is not found
CheckPendingToCreateFutureTxs_Exact(token, addr, bjj) ==
    \E tx \in world.l1UserFutureTxs : tx.eth = addr /\ tx.token = token /\ tx.bjj = bjj

CheckPendingToCreateFutureTxs(token, addr, bjj) ==
    \E tx \in world.l1UserFutureTxs :
        tx.eth = addr /\ tx.token = token /\ (bjj = NoBJJ \/ tx.bjj = bjj)

ReceiverExists(db, tx, token) ==
    IF tx.to = NoIdx THEN GetIdxByEthAddrBJJ(db, tx.toEth, tx.toBJJ, token) # NoIdx
    ELSE tx.to = ExitIdx \/ Has(db, tx.to)

\* An address needs an authorization, and an account with only a key needs none.
ReceiverCanBeCreated(tx) ==
    /\ tx.to = NoIdx
    /\ \/ tx.toEth = FFAddr
       \/ tx.toEth \in DOMAIN Auths /\ tx.toBJJ \in {NoBJJ, Auths[tx.toEth]}

ReceiverIsReady(s, tx, token) ==
    /\ tx.to = NoIdx => ~CheckPendingToCreateFutureTxs(token, tx.toEth, tx.toBJJ)
    /\ \/ ReceiverExists(s.tp.db, tx, token)
       \/ ReceiverCanBeCreated(tx) /\ CanAddL2TxThatNeedsNewCoordL1Tx(s.l1Txs)

ProcessTxToEthAddrBJJ(s, tx, token) ==
    IF ReceiverExists(s.tp.db, tx, token) THEN s
    ELSE AddL1(s, L1CoordinatorTx(token, tx.toEth,
                                  IF tx.toEth = FFAddr THEN tx.toBJJ ELSE Auths[tx.toEth]))

Unforjable(tx) ==
    \/ tx.maxNumBatch # 0 /\ NextBatch > tx.maxNumBatch
    \/ tx.type = "Exit" /\ tx.amount = 0

\* mutant: any nonce not used yet
SenderIsReady_AnyNonce(db, tx) ==
    CheckEnoughBalance(db, tx) /\ db.account[tx.from].nonce <= tx.nonce

SenderIsReady(db, tx) == CheckEnoughBalance(db, tx) /\ db.account[tx.from].nonce = tx.nonce

\* What becomes of tx, whose sender exists, when there is a slot for it.
Try(tx) ==
    LET token == tp.db.account[tx.from].token
        start == [tp |-> tp, l1Txs |-> l1CoordinatorTxs]
        withCoord == CoordAccountForTokenID(start, token)
        ready == ProcessTxToEthAddrBJJ(withCoord, tx, token)
        done == ProcessL2Tx(ready.tp, [t \in {token} |-> CoordIdx(ready.tp.db, token)], tx)
    IN  IF \/ ~SenderIsReady(tp.db, tx)
           \/ /\ CoordIdx(tp.db, token) = NoIdx
              /\ ~CanAddL2TxThatNeedsNewCoordL1Tx(l1CoordinatorTxs)
        THEN [ok |-> FALSE, tx |-> tx, s |-> start]
        ELSE IF ~ReceiverIsReady(withCoord, tx, token)
        THEN [ok |-> FALSE, tx |-> tx, s |-> withCoord]
        ELSE [ok |-> ~done.failed,
              tx |-> [tx EXCEPT !.token = token, !.auxTo = AuxToIdx(ready.tp, tx)],
              s |-> [ready EXCEPT !.tp = [done EXCEPT !.failed = FALSE]]]

(***************************************************************************)
(* The selection.                                                          *)
(***************************************************************************)
PoolAfter(n) ==
    FoldLeft(LAMBDA rows, r : Handle(rows, world.accounts, r), <<>>,
             SubSeq(world.requests, 1, n))

Start ==
    /\ pc = "Start"
    /\ \E n \in handled .. Len(world.requests) :
          LET txs == GetPendingTxs(PoolAfter(n))
          IN  /\ handled' = n
              /\ pending' = txs
              /\ \E order \in SetToSeqs(Selectable(txs, failedAtomicGroups)) :
                    Sorted(order, txs) /\ l2Txs' = order
    /\ pc' = "Process"
    /\ tp' = FoldLeft(ProcessL1Tx, NewTxProcessor("TxSelector", world.db), world.l1UserTxs)
    /\ nonSelectedTxs' = <<>> /\ progressed' = FALSE
    /\ selectedTxs' = <<>> /\ l1CoordinatorTxs' = <<>>
    /\ UNCHANGED <<world, failedAtomicGroups, coordIdxs, builder, synced>>

Looking == pc = "Process" /\ l2Txs # <<>>
Tx == Head(l2Txs)

\* All the rest is left for the next iteration, which will find no slot either.
NoAvailableSlots ==
    /\ Looking /\ ~IsAtomic(Tx)
    /\ ~CanAddL2Tx(l1CoordinatorTxs)
    /\ nonSelectedTxs' = nonSelectedTxs \o l2Txs
    /\ l2Txs' = <<>>
    /\ UNCHANGED <<pc, world, handled, failedAtomicGroups, pending, tp, progressed, selectedTxs,
                   l1CoordinatorTxs, coordIdxs, builder, synced>>

Discard ==
    /\ Looking /\ ~IsAtomic(Tx)
    /\ CanAddL2Tx(l1CoordinatorTxs)
    /\ Unforjable(Tx)
    /\ l2Txs' = Tail(l2Txs)
    /\ UNCHANGED <<pc, world, handled, failedAtomicGroups, pending, tp, nonSelectedTxs, progressed,
                   selectedTxs, l1CoordinatorTxs, coordIdxs, builder, synced>>

\* One such transaction in the pool makes the whole selection fail.
SenderNotFound ==
    /\ Looking
    /\ CanAddL2Tx(l1CoordinatorTxs) /\ ~Unforjable(Tx)
    /\ ~Has(tp.db, Tx.from)
    /\ pc' = "Error"
    /\ UNCHANGED <<world, handled, failedAtomicGroups, pending, tp, l2Txs, nonSelectedTxs, progressed,
                   selectedTxs, l1CoordinatorTxs, coordIdxs, builder, synced>>

CanTry(tx) == CanAddL2Tx(l1CoordinatorTxs) /\ ~Unforjable(tx) /\ Has(tp.db, tx.from)

Refuse ==
    /\ Looking /\ ~IsAtomic(Tx)
    /\ CanTry(Tx) /\ ~Try(Tx).ok
    /\ tp' = Try(Tx).s.tp
    /\ l1CoordinatorTxs' = Try(Tx).s.l1Txs
    /\ nonSelectedTxs' = Append(nonSelectedTxs, Tx)
    /\ l2Txs' = Tail(l2Txs)
    /\ UNCHANGED <<pc, world, handled, failedAtomicGroups, pending, progressed, selectedTxs, coordIdxs, builder, synced>>

Select ==
    /\ Looking
    /\ CanTry(Tx) /\ Try(Tx).ok
    /\ tp' = Try(Tx).s.tp
    /\ l1CoordinatorTxs' = Try(Tx).s.l1Txs
    /\ selectedTxs' = Append(selectedTxs, Try(Tx).tx)
    /\ progressed' = TRUE
    /\ l2Txs' = Tail(l2Txs)
    /\ UNCHANGED <<pc, world, handled, failedAtomicGroups, pending, nonSelectedTxs, coordIdxs, builder, synced>>

\* mutant: an atomic transaction is refused like any other
FailGroup_Refuses ==
    /\ Looking /\ IsAtomic(Tx)
    /\ \/ ~CanAddL2Tx(l1CoordinatorTxs)
       \/ Unforjable(Tx)
       \/ CanTry(Tx) /\ ~Try(Tx).ok
    /\ nonSelectedTxs' = Append(nonSelectedTxs, Tx)
    /\ l2Txs' = Tail(l2Txs)
    /\ UNCHANGED <<pc, world, handled, failedAtomicGroups, pending, tp, progressed, selectedTxs,
                   l1CoordinatorTxs, coordIdxs, builder, synced>>

\* mutant: the groups that failed at an earlier start are forgotten
FailGroup_Forgets ==
    /\ Looking /\ IsAtomic(Tx)
    /\ \/ ~CanAddL2Tx(l1CoordinatorTxs)
       \/ Unforjable(Tx)
       \/ CanTry(Tx) /\ ~Try(Tx).ok
    /\ failedAtomicGroups' = {Tx.group}
    /\ pc' = "Start"
    /\ UNCHANGED <<world, handled, pending, tp, l2Txs, nonSelectedTxs, progressed, selectedTxs,
                   l1CoordinatorTxs, coordIdxs, builder, synced>>

FailGroup ==
    /\ Looking /\ IsAtomic(Tx)
    /\ \/ ~CanAddL2Tx(l1CoordinatorTxs)
       \/ Unforjable(Tx)
       \/ CanTry(Tx) /\ ~Try(Tx).ok
    /\ failedAtomicGroups' = failedAtomicGroups \cup {Tx.group}
    /\ pc' = "Start"
    /\ UNCHANGED <<world, handled, pending, tp, l2Txs, nonSelectedTxs, progressed, selectedTxs,
                   l1CoordinatorTxs, coordIdxs, builder, synced>>

\* mutant: what was refused is not looked at again
NextIteration_Ends ==
    /\ pc = "Process" /\ l2Txs = <<>> /\ progressed
    /\ nonSelectedTxs' = <<>>
    /\ progressed' = FALSE
    /\ UNCHANGED <<pc, world, handled, failedAtomicGroups, pending, tp, l2Txs, selectedTxs,
                   l1CoordinatorTxs, coordIdxs, builder, synced>>

NextIteration ==
    /\ pc = "Process" /\ l2Txs = <<>> /\ progressed
    /\ l2Txs' = nonSelectedTxs
    /\ nonSelectedTxs' = <<>>
    /\ progressed' = FALSE
    /\ UNCHANGED <<pc, world, handled, failedAtomicGroups, pending, tp, selectedTxs, l1CoordinatorTxs,
                   coordIdxs, builder, synced>>

\* The accounts for the fees, and the fees.
Finish ==
    /\ pc = "Process" /\ l2Txs = <<>> /\ ~progressed
    /\ pc' = "Build"
    /\ coordIdxs' = SetToSortSeq({CoordIdx(tp.db, tp.db.account[tx.from].token) :
                                     tx \in ToSet(selectedTxs)},
                                 LAMBDA i, j : i < j)
    /\ tp' = FoldLeft(LAMBDA p, i : Credit(p, i, p.accumulatedFees[i]), tp,
                      SetToSeq(DOMAIN tp.accumulatedFees))
    /\ UNCHANGED <<world, handled, failedAtomicGroups, pending, l2Txs, nonSelectedTxs, progressed,
                   selectedTxs, l1CoordinatorTxs, builder, synced>>

BuildBatch ==
    /\ pc = "Build"
    /\ pc' = "Built"
    /\ builder' = ProcessTxs("BatchBuilder", world.db, coordIdxs, world.l1UserTxs,
                             l1CoordinatorTxs, selectedTxs)
    /\ UNCHANGED <<world, handled, failedAtomicGroups, pending, tp, l2Txs, nonSelectedTxs, progressed,
                   selectedTxs, l1CoordinatorTxs, coordIdxs, synced>>

\* The signatures that the L1 transactions were made with.
AuthOf(l1Tx) ==
    CASE l1Tx.eth = FFAddr -> EmptyEthSignature
      [] l1Tx.eth = CoordAddr -> Authorize(CoordAddr, CoordBJJ)
      [] OTHER -> Authorize(l1Tx.eth, Auths[l1Tx.eth])

Call ==
    RollupForgeBatch(
        [l1UserTxs |-> world.l1UserTxs,
         userAmounts |-> EffectiveAmounts("BatchBuilder", world.db, world.l1UserTxs),
         l1CoordinatorTxs |-> l1CoordinatorTxs,
         auths |-> [n \in DOMAIN l1CoordinatorTxs |-> AuthOf(l1CoordinatorTxs[n])],
         l2Txs |-> selectedTxs, feeIdxs |-> coordIdxs])

\* The batch is proved and sent, and every Synchronizer sees it in a block.
SyncForged ==
    /\ pc = "Built" /\ ~builder.failed
    /\ pc' = "Done"
    /\ synced' = SyncBatch(world.db, world.l1UserTxs, Call)
    /\ UNCHANGED <<world, handled, failedAtomicGroups, pending, tp, l2Txs, nonSelectedTxs, progressed,
                   selectedTxs, l1CoordinatorTxs, coordIdxs, builder>>

\* The batch is there, or an error was returned.
Returned ==
    /\ \/ pc \in {"Done", "Error"}
       \/ pc = "Built" /\ builder.failed
    /\ UNCHANGED vars

Next ==
    \/ Start
    \/ NoAvailableSlots
    \/ Discard
    \/ SenderNotFound
    \/ Refuse
    \/ Select
    \/ FailGroup
    \/ NextIteration
    \/ Finish
    \/ BuildBatch
    \/ SyncForged
    \/ Returned

Spec == Init /\ [][Next]_vars

-----------------------------------------------------------------------------
\* The number names an account of another key or token than when the API looked at it:
\* a reorg has given it to somebody else.
Reassigned(idx) ==
    /\ idx \in DOMAIN world.accounts /\ Has(tp.db, idx)
    /\ LET then == world.accounts[idx]
           now == tp.db.account[idx]
       IN  <<then.token, then.bjj>> # <<now.token, now.bjj>>

\* The BatchBuilder can process what was selected unless the fees take more accounts
\* than MaxFeeTx ("this constraint is not checked right now", says the package), the
\* one limit of the batch that the selection does not look at.  It comes to the same
\* accounts although it processes all L1 transactions first; so does the Synchronizer
\* of any node, from what the contract's data say, and under the identifiers that the
\* pool knows (with the token of the sender's account, which may be another one than
\* the sender has signed).  The next selection starts from the accounts of the
\* TxSelector, the next proof from those of the BatchBuilder, and the root of the
\* proof is compared with the Synchronizer's.
SelectionIsForgeable ==
    /\ pc \in {"Built", "Done"} =>
           /\ builder.failed <=> Len(coordIdxs) > MaxFeeTx
           /\ ~builder.failed => builder.db = tp.db
    /\ pc = "Done" =>
           /\ ~synced.failed /\ synced.db = tp.db
           /\ LET txs == SyncedL2Txs(world.db, world.l1UserTxs, Call)
              IN  /\ Len(txs) = Len(selectedTxs)
                  /\ \A n \in DOMAIN txs :
                         TxID(txs[n]) = selectedTxs[n].id \/ Reassigned(selectedTxs[n].from)

\* The batch before its n-th L2 transaction.
Before(n) ==
    LET l1Txs == world.l1UserTxs \o l1CoordinatorTxs
        start == FoldLeft(ProcessL1InBatch, NewTxProcessor("BatchBuilder", world.db), l1Txs)
    IN  FoldLeft(LAMBDA p, tx : ProcessL2Tx(p, <<>>, tx), start, SubSeq(selectedTxs, 1, n - 1)).db

\* The circuit accepts each L2 transaction at its place: the nonce is the one of the
\* account (no code after the TxSelector looks at it), the sender can pay and has
\* signed the transaction as it is now (no code after the API looks at it), the
\* receiver is there and has the same token.
\* Where an account was Reassigned no code looks again: the transaction is not signed
\* by the sender that the number names now, and "match the tx.TokenID" (of the
\* receiver, in the comment of the package) is not looked at.
CircuitAccepts ==
    pc = "Build" =>
        \A n \in DOMAIN selectedTxs :
            LET tx == selectedTxs[n]
                db == Before(n)
                to == IF tx.to = NoIdx THEN tx.auxTo ELSE tx.to
            IN  /\ CheckEnoughBalance(db, tx) /\ db.account[tx.from].nonce = tx.nonce
                /\ VerifySignature(tx, db.account[tx.from].bjj) <=> ~Reassigned(tx.from)
                /\ \/ to = ExitIdx
                   \/ /\ Has(db, to)
                      /\ \/ db.account[to].token = db.account[tx.from].token
                         \/ Reassigned(tx.from) \/ Reassigned(to)

\* A group is selected as the API has taken it or not at all, in whatever iteration
\* and also when one of its rows is deleted, and the request of each of its
\* transactions is found at its offset in the batch, as the circuit looks for it
\* (unless the sender was Reassigned: the token of the transaction is then another).
GroupsWhole ==
    pc = "Build" =>
        \A n \in DOMAIN selectedTxs :
            LET tx == selectedTxs[n]
                m == n + RelativePosition(tx.rqOffset)
            IN  IsAtomic(tx) =>
                    /\ AtomicGroupID(GroupOf(selectedTxs, tx.group)) = tx.group
                    /\ m \in DOMAIN selectedTxs
                    /\ tx.rq = Wanted(selectedTxs[m]) \/ Reassigned(selectedTxs[m].from)

\* The coordinator creates no account that exists, nor a receiver's account that a
\* user has already queued (processTxToEthAddrBJJ: "ending with the user having 2
\* different accounts for the same TokenID").
NoAccountTwice ==
    pc = "Build" =>
        /\ \A i, j \in DOMAIN tp.db.account :
               LET a == tp.db.account[i]
                   b == tp.db.account[j]
               IN  i < j /\ j > world.db.currentIdx + Len(world.l1UserTxs)
                       => <<a.eth, a.bjj, a.token>> # <<b.eth, b.bjj, b.token>>
        /\ \A tx \in ToSet(l1CoordinatorTxs), f \in world.l1UserFutureTxs :
               tx.eth # CoordAddr => <<tx.eth, tx.bjj, tx.token>> # <<f.eth, f.bjj, f.token>>

\* "Repeat this process [...] until one iteration doesn't return any selected txs": a
\* transaction that can be forged behind the ones selected is not left in the pool.
NothingLeftBehind ==
    pc = "Process" /\ l2Txs = <<>> /\ ~progressed =>
        \A tx \in ToSet(pending) :
            \/ IsAtomic(tx) \/ ~CanTry(tx) \/ ~Try(tx).ok
            \/ tx.id \in {t.id : t \in ToSet(selectedTxs)}

\* A user finds its transactions in the list of the pool, page after page and in
\* their order: those that it sends, and those that are "sent to an account
\* associated with" its address (swagger.yml:563), the owner of an account being the
\* one when the row was inserted.
\* Nothing is said of rows that were updated since and name the receiver by the number
\* of its account: 0009.sql forgets its owner.
PoolTells ==
    pc = "Start" =>
        LET pool(n) == PoolAfter(n)
            last == Len(world.requests)
            rows == SelectSeq(pool(last), LAMBDA row : ~row.externalDelete)
            updated == {world.requests[n].id : n \in {n \in 1 .. last :
                           world.requests[n].kind = "put" /\ pool(n) # pool(n - 1)}}
            OwnerIsKnown(row) == row.to < UserThreshold \/ row.id \notin updated
            List(q) == Rows(Walk(LAMBDA p : getPoolTxs(pool(last), q, p), TRUE, 1, Len(rows) + 1))
            ReceiverOf(row) == IF row.to >= UserThreshold THEN world.accounts[row.to].eth ELSE row.toEth
        IN  \A o \in {a.eth : a \in Range(world.accounts)} :
                /\ List([NoFilter EXCEPT !.fromAddr = o]) =
                       SelectSeq(rows, LAMBDA row : world.accounts[row.from].eth = o)
                /\ SelectSeq(List([NoFilter EXCEPT !.toAddr = o]), OwnerIsKnown) =
                       SelectSeq(rows, LAMBDA row : OwnerIsKnown(row) /\ ReceiverOf(row) = o)

Phase == CASE pc = "Start" -> 4 [] pc = "Process" -> 3 [] pc = "Build" -> 2
           [] pc = "Built" -> 1 [] OTHER -> 0

\* What is left to do: groups that may fail, transactions to select or to give up,
\* whether they are all looked at once more, and those of this iteration.
LeftToDo ==
    LET groups == {r.group : r \in {r \in ToSet(world.requests) : r.kind = "atomic"}}
                      \ failedAtomicGroups
    IN  <<Cardinality(groups), Phase, Len(l2Txs) + Len(nonSelectedTxs),
          IF progressed THEN 1 ELSE 0, Len(l2Txs)>>

Less(s, t) == \E k \in DOMAIN s : s[k] < t[k] /\ \A j \in 1 .. k - 1 : s[j] = t[j]

\* The selection ends, however groups fail and the pool grows: every step leaves less
\* to do (and a step is possible until the function returns).
Ends == [][Less(LeftToDo', LeftToDo)]_vars
=============================================================================
