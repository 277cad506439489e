------------------------------- MODULE History -------------------------------
(***************************************************************************)
(* The history database, as the Synchronizer fills it block after block:   *)
(* the events of a block become rows (rollupSync, wdelayerSync, Sync), the *)
(* rows go in within one SQL transaction (AddBlockSCData) and a reorg      *)
(* takes the rows of the undone blocks out (Reorg), with what the schema   *)
(* cascades.  The Coordinator reads from it the L1 transactions of the     *)
(* queue that it forges next.                                              *)
(*                                                                         *)
(* The contracts are the environment: the queues of L1 user transactions,  *)
(* the batches that forge them, the exits, and the WithdrawalDelayer where *)
(* an exit that is not instant waits.  Blocks come to the node one at a    *)
(* time, so the block that the node reads next is the one being filled.    *)
(*                                                                         *)
(* Accounts are numbered from 1.  0 is NULL, and the account that an L1    *)
(* transaction creates or does not send to.  The item_id of a row is its   *)
(* place in the sequence of the table.                                     *)
(***************************************************************************)
EXTENDS Integers, Sequences, FiniteSets, SequencesExt, FiniteSetsExt

CONSTANTS
  Owner(_),      \* the owner of an account, with the token that it holds
  Shapes(_),     \* what the batch of a number may be: [l1, coord, exits]
  MaxL1UserTx,   \* RollupConstMaxL1UserTx: the length of a queue
  FinalBlocks,   \* a reorg undoes no block up to this number
  MaxBlocks, MaxBatches, MaxL1, MaxEvents, MaxReorgs   \* bounds

ASSUME HistoryAssumption ==
  /\ MaxL1UserTx \in Nat \ {0}
  /\ {FinalBlocks, MaxBlocks, MaxBatches, MaxL1, MaxEvents, MaxReorgs} \subseteq Nat

NoQueue == -1    \* forge_l1_txs_num of a batch that is not an L1 batch
NoOwner == "no owner"

VARIABLES
  sc,        \* the contracts, after the events of the block being filled
  past,      \* past[n] is what sc was after n - 1 blocks
  block,     \* the events of the block being filled
  db,        \* the tables
  reverted,  \* the L1 transactions whose forging a reorg has undone
  reorgs     \* how many reorgs there were

vars == <<sc, past, block, db, reverted, reorgs>>

BlockNum == Len(past)          \* of the block being filled
Synced == past[Len(past)]      \* the contracts as of the last block in the database

-----------------------------------------------------------------------------
(* The contracts. *)

NoWithdrawal == [instant |-> 0, request |-> 0, withdrawn |-> 0]

NewContracts == [filling |-> 1, toForge |-> 0,
                 queues  |-> [q \in 0..MaxBatches + MaxL1 + 1 |-> <<>>],
                 txs |-> 0, batches |-> 0, lastIdx |-> 0, forged |-> <<>>, exits |-> <<>>]

Event(e, c) == /\ Len(block) < MaxEvents
               /\ block' = Append(block, e)
               /\ sc' = c
               /\ UNCHANGED <<past, db, reverted, reorgs>>

\* The node reads the withdrawals of a block apart from the rest, so nothing is
\* lost when they come last.
EventOfRollup(e, c) == /\ \A i \in DOMAIN block : block[i].kind \in {"l1", "forge"}
                       /\ Event(e, c)

\* a user adds an L1 transaction to the queue that is filled
L1UserTx ==
  /\ sc.txs < MaxL1
  /\ \E from \in {0, sc.lastIdx}, to \in {0, 1} :
       LET q  == IF Len(sc.queues[sc.filling]) = MaxL1UserTx THEN sc.filling + 1 ELSE sc.filling
           tx == [queue |-> q, pos |-> Len(sc.queues[q]), from |-> from, to |-> to]
       IN  /\ from # 0 => to # 0 /\ to # from
           /\ to <= sc.lastIdx
           /\ EventOfRollup([kind |-> "l1", tx |-> tx],
                    [sc EXCEPT !.txs = @ + 1, !.filling = q, !.queues[q] = Append(@, tx)])

\* how many accounts the transactions of a queue create
Creates(txs) == Len(SelectSeq(txs, LAMBDA t : t.from = 0))

\* the account that the i-th one of txs acts from, when n accounts exist before
EffectiveFrom(txs, i, n) ==
  IF txs[i].from = 0 THEN n + Creates(SubSeq(txs, 1, i)) ELSE txs[i].from

\* what the transactions of a batch do, in their order
ForgedUser(txs, failed, num, n) ==
  [i \in 1..Len(txs) |-> [user |-> TRUE, tx |-> txs[i], batch |-> num, pos |-> i - 1,
                          ok |-> i \notin failed, eff |-> EffectiveFrom(txs, i, n)]]
ForgedByCoordinator(shape, num, n, first) ==
  LET froms == [i \in 1..shape.coord |-> n + i] \o shape.exits
  IN  [i \in 1..Len(froms) |-> [user |-> FALSE, tx |-> <<>>, batch |-> num, pos |-> first + i - 1,
                            ok |-> TRUE, eff |-> froms[i]]]

\* somebody forges a batch: the transactions of the next queue when it is an
\* L1 batch, those in failed, which transfer something, without effect; as many
\* accounts as the coordinator creates; L2 transactions, one that exits from
\* each account of exits
ForgeBatch ==
  /\ sc.batches < MaxBatches
  /\ \E shape \in Shapes(sc.batches + 1) :
       LET txs  == IF shape.l1 THEN sc.queues[sc.toForge] ELSE <<>>
           num  == sc.batches + 1
           old  == sc.lastIdx + Creates(txs)
           last == old + shape.coord
           next == sc.toForge + 1
       IN  \E failed \in SUBSET {i \in 1..Len(txs) : txs[i].to # 0} :
             /\ ToSet(shape.exits) \subseteq 1..last
             /\ EventOfRollup(
                  [kind |-> "forge", num |-> num, txs |-> txs, failed |-> failed, shape |-> shape],
                  [sc EXCEPT
                     !.toForge = IF shape.l1 THEN next ELSE @,
                     !.filling = IF shape.l1 /\ next = @ THEN @ + 1 ELSE @,
                     !.batches = num,
                     !.lastIdx = last,
                     !.forged  = @ \o ForgedUser(txs, failed, num, sc.lastIdx)
                                   \o ForgedByCoordinator(shape, num, old, Len(txs)),
                     !.exits   = @ \o [i \in 1..Len(shape.exits) |->
                                   [batch |-> num, idx |-> shape.exits[i], w |-> NoWithdrawal]]])

\* one Ethereum transaction withdraws exits, which need be in the tree only:
\* each at once, or through the WithdrawalDelayer
Withdraw ==
  \E list \in {<<x>> : x \in DOMAIN sc.exits} \cup {<<x, y>> : x, y \in DOMAIN sc.exits},
     instant \in SUBSET DOMAIN sc.exits :
       /\ IsInjective(list) /\ instant \subseteq ToSet(list)
       /\ \A x \in ToSet(list) : sc.exits[x].w = NoWithdrawal
       /\ Event([kind |-> "withdraw",
                 of |-> [i \in 1..Len(list) |-> [batch |-> sc.exits[list[i]].batch,
                                                 idx |-> sc.exits[list[i]].idx,
                                                 instant |-> list[i] \in instant]]],
                [sc EXCEPT !.exits = [x \in DOMAIN @ |->
                   CASE x \in instant -> [@[x] EXCEPT !.w.instant = BlockNum]
                     [] x \in ToSet(list) \ instant -> [@[x] EXCEPT !.w.request = BlockNum]
                     [] OTHER -> @[x]]])

Waiting(c, o) == {x \in DOMAIN c.exits : /\ Owner(c.exits[x].idx) = o
                                         /\ c.exits[x].w.request # 0
                                         /\ c.exits[x].w.withdrawn = 0}

\* an owner takes from the WithdrawalDelayer all that waits there; each deposit
\* starts the delay anew, and the delay is of one block
Collect ==
  \E o \in {Owner(sc.exits[x].idx) : x \in DOMAIN sc.exits} :
    /\ Waiting(sc, o) # {}
    /\ \A x \in Waiting(sc, o) : sc.exits[x].w.request < BlockNum
    /\ Event([kind |-> "collect", owner |-> o],
             [sc EXCEPT !.exits = [x \in DOMAIN @ |->
                IF x \in Waiting(sc, o) THEN [@[x] EXCEPT !.w.withdrawn = BlockNum] ELSE @[x]]])

-----------------------------------------------------------------------------
(* The queries. *)

\* GetLastL1TxsNum, -1 standing for nil
LastL1TxsNum_OfLastBatch(d) ==  \* mutant
  IF d.batches = <<>> THEN NoQueue ELSE Last(d.batches).forgeL1
LastL1TxsNum(d) == LET nums == {d.batches[b].forgeL1 : b \in DOMAIN d.batches}
                   IN  IF nums = {} THEN NoQueue
                       ELSE CHOOSE n \in nums : \A m \in nums : m <= n

IsQueued(row) == row.user /\ row.batch = 0
TxsOf(rows) == [i \in DOMAIN rows |-> rows[i].tx]
ByPosition(rows) == SortSeq(rows, LAMBDA r, s : r.tx.pos < s.tx.pos)

UnforgedL1UserTxs(d, n) ==
  TxsOf(ByPosition(SelectSeq(d.txs, LAMBDA r : IsQueued(r) /\ r.tx.queue = n)))

UnforgedL1UserFutureTxs(d, n) ==
  ToSet(TxsOf(SelectSeq(d.txs, LAMBDA r : IsQueued(r) /\ r.tx.queue > n)))

UnforgedL1UserTxsCount(d) == Len(SelectSeq(d.txs, LAMBDA r : r.batch = 0))

-----------------------------------------------------------------------------
(* From events to rows. *)

\* The events of the block, those of each contract apart and those of each kind
\* apart: of events of two kinds, nobody can tell the order.
OfKind(kind) == SelectSeq(block, LAMBDA e : e.kind = kind)
RollupEventsByBlock == [kind \in {"l1", "forge", "withdraw"} |-> OfKind(kind)]

\* the owners of the deposits of an Ethereum transaction, in their order
DepositsOf(e) == LET delayed == SelectSeq(e.of, LAMBDA w : ~w.instant)
                 IN  [i \in DOMAIN delayed |-> Owner(delayed[i].idx)]
WDelayerEventsByBlock ==
  [deposits |-> [n \in DOMAIN OfKind("withdraw") |-> DepositsOf(OfKind("withdraw")[n])],
   withdrawals |-> {e.owner : e \in ToSet(OfKind("collect"))}]

L1UserTxs == [i \in DOMAIN RollupEventsByBlock["l1"] |-> RollupEventsByBlock["l1"][i].tx]

\* the transactions that the batch of event e forges, when the next queue is n:
\* those in the database, then those in this very block
TxsToForge(e, n) ==
  IF e.shape.l1 THEN UnforgedL1UserTxs(db, n) \o SelectSeq(L1UserTxs, LAMBDA t : t.queue = n) ELSE <<>>

\* UpdatedAccounts: those that a transaction acts from or sends to, with or
\* without effect
ToIdx(f) == IF f.tx = <<>> THEN 0 ELSE f.tx.to
Updated(forged) == UNION {{f.eff, ToIdx(f)} : f \in ToSet(forged)} \ {0}

\* the batches of the block; the state database has acc.accounts accounts and
\* processes what the node believes to be forged
BatchData(acc, e) ==
  LET txs == TxsToForge(e, acc.next)
      old == acc.accounts + Creates(txs)
      user   == ForgedUser(txs, e.failed, e.num, acc.accounts)
      others == ForgedByCoordinator(e.shape, e.num, old, Len(txs))
  IN  [next |-> IF e.shape.l1 THEN acc.next + 1 ELSE acc.next,
       accounts |-> old + e.shape.coord,
       rootsAgree |-> acc.rootsAgree /\ txs = e.txs,
       batches |-> Append(acc.batches,
         [num |-> e.num, forgeL1 |-> IF e.shape.l1 THEN acc.next ELSE NoQueue,
          created |-> Creates(txs) + e.shape.coord,
          updated |-> SetToSeq(Updated(user \o others)),
          user |-> user, others |-> others, exits |-> e.shape.exits])]

RollupSync == FoldLeft(BatchData,
                       [next |-> LastL1TxsNum(db) + 1, accounts |-> Len(db.accounts),
                        rootsAgree |-> TRUE, batches |-> <<>>],
                       RollupEventsByBlock["forge"])

\* the withdrawals of the n-th Ethereum transaction, each delayed one with the
\* next deposit of that transaction
Paired_First(n) ==  \* mutant
  LET of == RollupEventsByBlock["withdraw"][n].of
  IN  [i \in DOMAIN of |-> [of |-> of[i], owner |->
         IF of[i].instant THEN NoOwner ELSE WDelayerEventsByBlock.deposits[n][1]]]
Paired(n) ==
  LET of == RollupEventsByBlock["withdraw"][n].of
      NextDeposit(i) == Len(SelectSeq(SubSeq(of, 1, i), LAMBDA w : ~w.instant))
  IN  [i \in DOMAIN of |-> [of |-> of[i], owner |->
         IF of[i].instant THEN NoOwner ELSE WDelayerEventsByBlock.deposits[n][NextDeposit(i)]]]

Withdrawals == UNION {ToSet(Paired(n)) : n \in DOMAIN RollupEventsByBlock["withdraw"]}

-----------------------------------------------------------------------------
(* AddBlockSCData. *)

\* a row may point to accounts that exist only, and takes its recipient's
\* addresses from the account, if that is there
AddTxs(d, rows) ==
  [d EXCEPT !.fits = @ /\ \A i \in DOMAIN rows : rows[i].eff <= Len(d.accounts),
            !.txs  = @ \o [i \in DOMAIN rows |->
               [rows[i] EXCEPT !.known = rows[i].tx = <<>> \/ rows[i].tx.to <= Len(d.accounts)]]]

UserRows(txs) == [i \in DOMAIN txs |->
  [user |-> TRUE, tx |-> txs[i], block |-> BlockNum, batch |-> 0, pos |-> txs[i].pos,
   ok |-> TRUE, eff |-> txs[i].from, known |-> FALSE]]
OtherRows(forged) == [i \in DOMAIN forged |->
  [user |-> FALSE, tx |-> <<>>, block |-> BlockNum, batch |-> forged[i].batch, pos |-> forged[i].pos,
   ok |-> TRUE, eff |-> forged[i].eff, known |-> FALSE]]

\* the trigger of the table of batches: the transactions of the queue get the
\* number of the batch and new places
ForgeL1UserTxs_InPlace(txs, b) ==  \* mutant
  [i \in DOMAIN txs |-> IF txs[i].user /\ txs[i].tx.queue = b.forgeL1
                         THEN [txs[i] EXCEPT !.batch = b.num] ELSE txs[i]]
ForgeL1UserTxs(txs, b) ==
  LET Mine(r) == r.user /\ r.tx.queue = b.forgeL1
      mine    == ByPosition(SelectSeq(txs, Mine))
  IN  SelectSeq(txs, LAMBDA r : ~Mine(r))
        \o [i \in DOMAIN mine |-> [mine[i] EXCEPT !.batch = b.num]]

\* setExtraInfoForgedL1UserTxs: only what differs from the default is written
ExtraInfo(r, b) ==
  LET mine == {u \in ToSet(b.user) : r.user /\ u.tx = r.tx /\ (~u.ok \/ u.tx.from = 0)}
  IN  IF mine = {} THEN r
      ELSE LET u == CHOOSE u \in mine : TRUE IN [r EXCEPT !.ok = u.ok, !.eff = u.eff]

\* the user transactions that a batch of this block forges go in with the batch
\* before it, the others after all batches: at 0
AddAt(t, batches) ==
  LET its == SelectSeq(batches, LAMBDA b : b.forgeL1 = t.queue)
  IN  IF its = <<>> THEN 0 ELSE its[1].num - 1
TxsAt(n, batches) == UserRows(SelectSeq(L1UserTxs, LAMBDA t : AddAt(t, batches) = n))

BatchRow(b) == [block |-> BlockNum, forgeL1 |-> b.forgeL1, created |-> b.created]
AccountRows(b) == [i \in 1..b.created |-> b.num]
AccountUpdateRows(b) == [i \in DOMAIN b.updated |-> [batch |-> b.num, idx |-> b.updated[i]]]
ExitTree(b) == [i \in DOMAIN b.exits |->
  [batch |-> b.num, idx |-> b.exits[i], w |-> NoWithdrawal, owner |-> NoOwner]]

AddBatch(batches, d, b) ==
  LET withBatch == [d EXCEPT !.batches  = Append(@, BatchRow(b)),
                             !.txs      = ForgeL1UserTxs(@, b),
                             !.accounts = @ \o AccountRows(b),
                             !.updates  = @ \o AccountUpdateRows(b)]
      withInfo  == [withBatch EXCEPT !.txs = [i \in DOMAIN @ |-> ExtraInfo(@[i], b)]]
      withTxs   == AddTxs(AddTxs(withInfo, OtherRows(b.others)), TxsAt(b.num, batches))
  IN  [withTxs EXCEPT !.exits = @ \o ExitTree(b)]

\* the rows of updateExitTree's VALUES that an exit matches; its one UPDATE sees
\* the table as it was, and takes one of them if there are two
ByRollup(x) == {w \in Withdrawals : w.of.batch = x.batch /\ w.of.idx = x.idx}
ByDelayer(x) == {o \in WDelayerEventsByBlock.withdrawals : x.w.withdrawn = 0 /\ x.owner = o}

WithdrawnByRollup(x) ==
  LET w == CHOOSE w \in ByRollup(x) : TRUE
  IN  [x EXCEPT !.w = [instant |-> IF w.of.instant THEN BlockNum ELSE 0,
                       request |-> IF @.request # 0 \/ w.of.instant THEN @.request ELSE BlockNum,
                       withdrawn |-> 0],
                !.owner = w.owner]
WithdrawnByDelayer(x) == [x EXCEPT !.w.instant = 0, !.w.withdrawn = BlockNum]

UpdateExit(x, rollupFirst) ==
  CASE ByRollup(x) # {} /\ (rollupFirst \/ ByDelayer(x) = {}) -> WithdrawnByRollup(x)
    [] ByDelayer(x) # {} /\ (~rollupFirst \/ ByRollup(x) = {}) -> WithdrawnByDelayer(x)
    [] OTHER -> x

AddBlockSCData_UsersFirst(rollupFirst) ==  \* mutant
  LET data    == RollupSync
      users   == AddTxs(db, TxsAt(0, data.batches))
      added   == FoldLeft(LAMBDA d, b : AddBatch(data.batches, d, b), users, data.batches)
      updated == [added EXCEPT !.exits = [i \in DOMAIN @ |-> UpdateExit(@[i], rollupFirst)]]
  IN  IF data.rootsAgree /\ updated.fits THEN updated ELSE [db EXCEPT !.fits = FALSE]
AddBlockSCData(rollupFirst) ==
  LET data    == RollupSync
      added   == FoldLeft(LAMBDA d, b : AddBatch(data.batches, d, b), db, data.batches)
      all     == AddTxs(added, TxsAt(0, data.batches))
      updated == [all EXCEPT !.exits = [i \in DOMAIN @ |-> UpdateExit(@[i], rollupFirst)]]
  IN  IF data.rootsAgree /\ updated.fits THEN updated ELSE [db EXCEPT !.fits = FALSE]

SyncBlock ==
  /\ db.fits /\ Len(past) <= MaxBlocks
  /\ \E rollupFirst \in BOOLEAN : db' = AddBlockSCData(rollupFirst)
  /\ past' = Append(past, sc)
  /\ block' = <<>>
  /\ UNCHANGED <<sc, reverted, reorgs>>

-----------------------------------------------------------------------------
(* Reorg: the blocks above k are deleted, and the schema's ON DELETE rules *)
(* delete what refers to them, or set the reference to NULL.               *)

Kept(n, max) == IF n <= max THEN n ELSE 0

WithoutBlocks(d, k) ==
  LET batches  == Len(SelectSeq(d.batches, LAMBDA b : b.block <= k))
      accounts == Len(SelectSeq(d.accounts, LAMBDA b : b <= batches))
      txs      == SelectSeq(d.txs, LAMBDA r : r.block <= k)
      exits    == SelectSeq(d.exits, LAMBDA x : x.batch <= batches /\ x.idx <= accounts)
  IN  [d EXCEPT
        !.batches  = SubSeq(@, 1, batches),
        !.accounts = SubSeq(@, 1, accounts),
        !.updates  = SelectSeq(@, LAMBDA u : u.batch <= batches /\ u.idx <= accounts),
        !.txs      = [i \in DOMAIN txs |-> [txs[i] EXCEPT !.batch = Kept(@, batches),
                                                           !.eff   = Kept(@, accounts)]],
        !.exits    = [i \in DOMAIN exits |-> [exits[i] EXCEPT
                        !.w = [c \in DOMAIN @ |-> Kept(@[c], k)]]]]

\* another chain takes the place of the one above block k
Reorg ==
  /\ reorgs < MaxReorgs
  /\ \E k \in FinalBlocks..Len(past) - 2 :
       /\ db' = WithoutBlocks(db, k)
       /\ past' = SubSeq(past, 1, k + 1)
       /\ sc' = past[k + 1]
  /\ reverted' = reverted \cup {r.tx : r \in {r \in ToSet(db.txs) : r.user /\ r.batch > Len(db'.batches)}}
  /\ block' = <<>>
  /\ reorgs' = reorgs + 1

-----------------------------------------------------------------------------
Init ==
  /\ sc = NewContracts
  /\ past = <<sc>>
  /\ block = <<>>
  /\ db = [batches |-> <<>>, accounts |-> <<>>, updates |-> <<>>, txs |-> <<>>, exits |-> <<>>,
           fits |-> TRUE]
  /\ reverted = {}
  /\ reorgs = 0

Next == L1UserTx \/ ForgeBatch \/ Withdraw \/ Collect \/ SyncBlock \/ Reorg

Spec == Init /\ [][Next]_vars

-----------------------------------------------------------------------------
(* Properties, of the tables between two blocks. *)

Settled == block = <<>> /\ db.fits

\* The queue that the Coordinator forges next, read from the database, is the
\* one that the contract waits for, and the later ones follow it: else every
\* batch that the node makes is refused (GetUnforgedL1UserTxs,
\* GetUnforgedL1UserFutureTxs and GetUnforgedL1UserTxsCount, after any block
\* and any reorg).
QueueIsContracts ==
  Settled =>
    LET next  == LastL1TxsNum(db) + 1
        later == {q \in DOMAIN Synced.queues : q > next}
    IN  /\ next = Synced.toForge
        /\ UnforgedL1UserTxs(db, next) = Synced.queues[next]
        /\ UnforgedL1UserFutureTxs(db, next) = UNION {ToSet(Synced.queues[q]) : q \in later}
        /\ UnforgedL1UserTxsCount(db) = Len(Synced.queues[next])
             + Cardinality(UnforgedL1UserFutureTxs(db, next))

\* The forged transactions of the database, in the order of their item_id by
\* which the API pages them, are those of the chain in the order in which it
\* forged them, with the batch, the position, the account and the effect that
\* they had there.  The effect may be lost for one whose forging a reorg undid:
\* Reorg leaves amount_success as it was, and the trigger does not set it again.
HistoryIsChains ==
  Settled =>
    LET rows == SelectSeq(db.txs, LAMBDA r : r.batch # 0)
    IN  /\ Len(rows) = Len(Synced.forged)
        /\ \A i \in DOMAIN rows :
             LET r == rows[i]  f == Synced.forged[i]
             IN  /\ <<r.user, r.tx, r.batch, r.pos, r.eff>> = <<f.user, f.tx, f.batch, f.pos, f.eff>>
                 /\ r.ok = f.ok \/ (f.ok /\ r.tx \in reverted)

\* Every block goes in, whatever it holds and whatever came before: no row
\* points to a row that is not there yet, the state that the node computes has
\* the root of the chain, and a transaction finds the account that it is sent
\* to, whose addresses it keeps (the order of inserts of AddBlockSCData).
EveryBlockFits ==
  /\ db.fits
  /\ \A i \in DOMAIN db.txs : db.txs[i].known

\* No block is refused, and what is written of it is what the chain did.
HistoryHolds == EveryBlockFits /\ HistoryIsChains
=============================================================================
