# A TLA+ model of the Hermez node

This directory holds TLA+ modules that model the node of this repository (a
coordinator and synchronizer of a zk-rollup), the configurations that check them
with TLC, and proofs checked with TLAPS. All names of files below are relative to
`src/`.

1. [The system](#the-system)
2. [Modules](#modules)
3. [Runs](#runs)
4. [Proofs](#proofs)
5. [What the code does not do as it says](#what-the-code-does-not-do-as-it-says)
6. [What is not modelled](#what-is-not-modelled)
7. [Plan](#plan)

## The system

Users send L2 transactions to the API. A coordinator, when it has won the auction
of a slot, takes pending transactions, builds a batch, has its proof computed and
sends it to the smart contract. Every node follows the contract block by block.

| Component | State | Operations | Correct when |
|---|---|---|---|
| Pool (`db/l2db`) | table `tx_pool`: state, batch number, limit, marks | insert, replace, update (API); StartForging, DoneForging, InvalidateOldNonces, Reorg, Purge, PurgeByExternalDelete (coordinator) | a transaction is in one batch at most and comes back when its batch is given up |
| Pipeline (`coordinator/pipeline.go`) | batch counter, L1 queue counter, error mark, two goroutines with a channel of one batch, pool of provers | Start, reset, forge, wait for the proof, deliver, Stop | batches leave in order, each on the state of the one before; no prover is lost or shared; a failure stops everything behind it |
| Coordinator (`coordinator/coordinator.go`) | current pipeline, `lastNonFailedBatchNum`, stats of the last block | MsgSyncBlock, MsgSyncReorg, MsgStopPipeline, timer | the next pipeline starts from a state that can still become the state of the contract |
| TxManager (`coordinator/txmanager.go`) | queue of sent batches, two nonces, `minPipelineNum` | send, check receipts, resend, remove bad batches | no batch is forgotten, nonces have no gap, a rejection by the contract is noticed |
| Checkpoints (`db/kvdb`, `db/statedb`) | `current`, numbered checkpoints, `last` on disk | MakeCheckpoint, Reset, ResetFromSynchronizer, deletion in the background, restart | after any reset or crash `current` is the state of the batch it says |
| Synchronizer (`synchronizer/synchronizer.go`) | history database, state database, stats, `resetStateFailed` | Sync of the next block, reorg, reset after an error | both databases and the stats describe the same block of the canonical chain |
| Node (`node/node.go`) | last block | loop that calls Sync and tells coordinator and API | nobody misses a batch or a reorganisation |
| TxSelector (`txselector`) | local accounts | selection of a batch | all selected transactions can be processed in this order, groups whole or not at all |
| TxProcessor (`txprocessor`) | accounts, exit tree | L1 and L2 transactions | money is neither made nor lost |
| Pool API (`api`, `db/l2db/apiqueries.go`) | none but the table | post, put, replace, atomic groups, list | the rows are what their senders signed, and groups are whole |
| BatchBuilder (`batchbuilder`) | local state | BuildBatch | same state as the TxSelector's |
| Prover client (`prover`) | none | start, poll, cancel | one proof at a time per server |
| Contract client (`eth`) | none | RollupForgeBatch, RollupForgeBatchArgs, events | another node finds in the call the batch that was built |
| History database (`db/historydb`) | blocks, batches, accounts, L1 queues, exits, bids, variables | add a block, reorg, the queries | after any reorganisation the queue of L1 transactions is the contract's, and the tables tell what the chain did |
| Auction (`synchronizer`, `db/historydb`, `coordinator.canForge`) | bids, coordinators, variables, current and next slot | auctionSync, the slots, canForge | the node forges when the contract lets it |
| State API updater (`api/stateapiupdater`) | network information | UpdateNetworkInfo, SetSCVars | the next forgers it tells are those of the contract |
| Read API (`api`) | none | lists, page after page | a client that walks through the pages misses and repeats nothing |

They run concurrently and interact in four ways:

- Channels: `Coordinator.msgCh` (from the Node, the Pipeline and the TxManager),
  `batchChSentServerProof` (inside the Pipeline), `TxManager.batchCh`, the channels
  of stats, `discardPipelineCh`, and the provers pool, that is a channel too. All
  are bounded; a sender blocks until there is room or its context is cancelled.
- Shared tables: API, coordinator, purger and an external process change `tx_pool`.
  One mutex (`mutexL2DBUpdateDelete`) separates the forge goroutine from the
  deletion of marked rows, nothing else.
- Shared files: Pipeline and Synchronizer copy checkpoints of the same state
  database; old ones are deleted by a goroutine of their own.
- The chain: what the TxManager sends comes back, late, reordered or not at all,
  through the Synchronizer.

What is hard: both ends of the pipeline fail independently while the other one goes
on; a stop waits for goroutines that wait for channels; batch numbers are used
again for other batches after a failure, and marks in the pool and checkpoints on
disk know only the number; the mined transaction, its receipt and the synchronized
block arrive in any order; the databases are not updated in one transaction. The
list of hazards with their lines is in `PROJECT.json`.

## Modules

| Module | What it is |
|---|---|
| `L2Pool` | the statements on `tx_pool` as operators from a table to a table |
| `L2PoolLife` | specification: all the actors of the pool in any order |
| `Pipeline` | specification: both goroutines, the Coordinator's part in starting and stopping them, the purger, a reduced TxManager and contract; uses `L2Pool` |
| `Coordinator` | specification: the goroutines of the Node, the Coordinator, the pipeline and the TxManager with the channels between them, external batches, reorganisations and `Node.Stop`; uses `L2Pool` |
| `Synchronizer` | specification: Sync, reorg and the resets, the Node's loop around them, and the Ethereum chain that moves meanwhile |
| `TxManager` | specification: the handlers of the TxManager, and around them the Ethereum node with mempool and forks, another coordinator, the pipelines and the Coordinator |
| `CheckpointStore` | abstract specification: what the state database promises to its users |
| `KVDB` | specification: the checkpoints of the state databases, with crashes and deletions in the background; implements `CheckpointStore` |
| `TxProcessor` | a batch on accounts, as operators from a processor to a processor |
| `ForgeData` | what of a batch goes to the contract and comes back; uses `TxProcessor` |
| `BatchProcessing` | specification: batch after batch in the databases of BatchBuilder and Synchronizer; uses `ForgeData` |
| `PoolAPI` | the requests that fill the pool, as operators from a pool to a pool; uses `TxProcessor`, `Pages` |
| `TxSelector` | specification: the selection of a batch from a pool that requests have filled, and the BuildBatch that follows; uses `PoolAPI`, `ForgeData` |
| `History` | specification: the tables of the history database, the contracts, blocks and reorganisations |
| `Pages` | a list of the API page after page |
| `ReadAPI` | the queries of the API on the tables of `History` |
| `Auction` | specification: bids, forgers and slots, in the contract, in the node and in the API |
| `L2PoolLifeProof`, `PipelineProof`, `CoordinatorProof`, `TxManagerProof`, `SynchronizerProof`, `KVDBProof`, `BatchProcessingProof` | the proofs |
| `NumberFacts` | facts about numbers for the proofs |
| `MC...` | small values for TLC |

A definition that a comment calls a *mutant* is a bug put in on purpose, next to the
definition it replaces. Each property of a passing run fails for at least one of
them (`PROJECT.json` lists the pairs), so no property holds whatever the code does.

### L2Pool and L2PoolLife

A table is a function from the ids of its rows to records with the columns that a
WHERE clause looks at. One SQL statement, or one database transaction, is one
operator, named as the Go function. `L2PoolLife` lets the statements meet in any
order: `Add`, `Replace`, `Update` are the API handlers, `ForgeBatch` is the part of
`Pipeline.forgeBatch` that touches the pool (maybe Purge, the selection,
StartForging, InvalidateOldNonces), `Sent` is DoneForging, also when the batch is
sent again, `GiveUp` is every call of Reorg, and `GetOld` and `MarkExternalDelete`
are time and the external process. `batches` remembers what was selected for each
batch number, `top` the highest number there ever was, and `updated` the rows an
update has changed: the properties need them, the code does not have them.

`Add` and `Replace` do not take an id that is in a batch that has not been given up:
its nonce is older than the account's or the row is still in the table. That
corresponds to the check of the nonce in `verifyPoolL2Tx`.

### Pipeline

| Variable | Code |
|---|---|
| `pool` | table `tx_pool` |
| `st`, `statL1`, `errAt` | `Pipeline.state`, `Pipeline.stats.Sync.LastForgeL1TxsNum`, `errAtBatchNum` |
| `batchNum` | the parameter of `Start` that both goroutines capture |
| `pc1`, `prover1`, `batch1` | the forge goroutine: place, prover it holds, batch it works on |
| `pc2`, `batch2` | the goroutine that waits for proofs |
| `ch`, `batchCh`, `msgCh` | the three channels |
| `free` | `ProversPool` |
| `ctx` | no pipeline, running, cancelled |
| `coord`, `stopAt`, `lastNonFailed` | the Coordinator's goroutine; `"tell"`: it sends stats to the TxManager and the pipeline and may wait for room in their channels |
| `selDB`, `bbDB` | local databases of TxSelector and BatchBuilder: `current` and the checkpoints |
| `chain`, `sent` | the contract (and the Synchronizer), batches sent and not mined |
| `out`, `from` | history variables: state after the last batch delivered; the states a pipeline started with, its own and the synced one |
| `built`, `disturbed` | history variables: number and transactions of all batches ever built; rows that the API, or DoneForging of an older batch, has changed under the pipeline |

`InFlight` (a constant) are batches that the node has sent before it was restarted and
that are not mined yet: `sent` begins with them.

A state root is the sequence of batches that lead to it, so two batches of the same
number are told apart, and "the root of batch n" has length n.

`forgeBatch` is two steps, `G1Select` and `G1Build`, because the API and the
external process reach the pool in between; the lock `mutex` spans both. Each step
of a goroutine ends where the code can block or another goroutine can see a
difference: `G1Get` (waits for a prover), `G1Prove` (sends the inputs), `G1Msg`
(waits for room in `msgCh`), `G1Revert`, `G1Send`; `G2Recv`, `G2Wait`, `G2Msg`,
`G2Revert`, `G2Add`, `G2Deliver`. After every call the code looks at `ctx.Err()`
first; `Skip` and `Fail` do the same, so a cancelled pipeline never reports an
error. `G2Revert` uses `batchNum`, as the code does, and not the number of `batch2`.

The Coordinator tells the others of a block in `CoTell` and has done so in `CoTold`; in
between it takes no message. Its `handleStopPipeline` is `CoMsg` (up to `Pipeline.Stop`),
`CoStopped` (after `wg.Wait`, then Reorg of the pool); `CoSlotEnd` is the stop in
`syncStats`, without Reorg. `CoStart` and `CoStartFail` are `syncStats` with
`NewPipeline` and `Pipeline.reset`, including the comparison of the roots and the
database left closed by a reset that fails.

Simplifications: stats of the Coordinator are never behind the chain (the forge
goroutine's own copy, `statL1`, may be); the forge policy may skip any batch; the
TxManager fails when it likes; no other coordinator and no reorganisation, which are
in `Coordinator`.

### Coordinator

| Variable | Code |
|---|---|
| `node` | the goroutine of the Synchronizer in `node.go`: what it is about to send |
| `msgCh`, `batchCh`, `tmStats`, `discards`, `pipeStats` | the channels; of those whose messages do not matter only how many there are |
| `co` | the goroutine of the Coordinator: place and message it handles |
| `stats`, `last` | `Coordinator.stats`, `lastNonFailedBatchNum` |
| `pipe`, `tm` | pipeline and TxManager, as far as they fill and empty channels |
| `up` | how far `Node.Stop` is |
| `pool`, `chain`, `sent` | the table, the batches that the Synchronizer has, those sent to the contract |

`NodeLoop` tells of blocks (with batches of other coordinators) and of reorganisations;
`CoordinatorLoop` is one action per case of the `select` and per place where it can wait;
`PipelineLoop` and `TxManagerLoop` do to the channels and to the pool what the code does.

### Synchronizer

| Variable | Code |
|---|---|
| `chain` | the Ethereum node: the last block; a block contains all before it, as its hash does |
| `hist`, `state` | HistoryDB (blocks in the order of their numbers), StateDB (blocks whose batch it has processed) |
| `stats`, `scVars`, `resetStateFailed` | the fields of `Synchronizer` |
| `lastBlock`, `base`, `ethBlock`, `blockNum` | locals of the loop, of `Sync` and of `reorg` |
| `told` | what the Coordinator got: `MsgSyncBlock`, `MsgSyncReorg` |
| `missed` | history variable: a change of the databases was not followed by a message |

`Sync` is cut where it asks the Ethereum node or writes to a database: `Begin` (with
the reset after a failure), `Fetch`, `Eth` (UpdateEth and the check of the parent),
`Events` (rollupSync with the batch), `Commit`, `Slots` (UpdateSync and the update of
the slots), then `TellBlock` is the loop again. A fork goes to `Search`, one step per
block, `Discard`, `ResetToValid` and `TellReorg`. Every step has a twin that fails
(`Failure`); `FailAfterEvents` is the deferred function of `Sync`, and `ResetFails`
stops after any of the steps of `resetState`. `Crash` empties the memory wherever the
process is; `Boot` is `NewSynchronizer`. The chain grows and forks in between.

Of the events of a block only what the other parts depend on is kept: a batch, an L1
batch, a change of variables. An answer "unknown block" is possible, not certain, once
the block is no longer on the chain: the Ethereum node may still have it.

### TxManager

| Variable | Code |
|---|---|
| `chain`, `mempool`, `dropped` | the Ethereum node: blocks, pending transactions of our account by nonce, nonces it has forgotten (history) |
| `seen` | `TxManager.stats.Eth.LastBlock.Num` |
| `batchCh`, `discardCh`, `minPl`, `queue`, `next`, `nextNonce` | `batchCh`, `discardPipelineCh`, `minPipelineNum`, `queue.list`, `queue.next` (from 1), `accNextNonce` |
| `pc`, `pos`, `why` | where `Run` is: between two cases, before a resend, or in `removeBadBatchInfos` |
| `pl`, `running`, `last`, `reorgCh`, `stops` | the Coordinator: current pipeline, last batch delivered, `MsgSyncReorg` and `MsgStopPipeline` on their way |
| `scanned`, `silent` | history variables: a rejected batch was removed and the Coordinator was not told |

A mined transaction has the status of its receipt (`ok`): the contract refuses a batch that
is not the next one or that the auction does not allow, and so a batch that was sent again
with the next nonce after its first transaction had been mined. The Ethereum node takes it
all the same, and the nonce is used.

An entry of the queue has the batch, its pipeline, `EthTxs`, the nonce of `Auth` (the
attempts of a resend change it) and `Receipt`. `CheckNext` is the timer up to the
place where the next call to the Ethereum node is made; `Resend` and the scan
(`ScanEntry` for each entry, then `ReadNonce`) are steps of their own, so the chain
moves between the receipt and what is done about it. Actions ending in `Fails` and
`SendUnmarked` are the calls that go wrong; a call that fails may still have reached
the node. `Accepted` is the nonce the loop of attempts ends with.

Simplifications: the auction allows or refuses a batch freely; a price is not modelled,
only that a transaction replaces the one of the same nonce; the node answers each
request after the time out of attempts with success or an error.

### CheckpointStore and KVDB

`CheckpointStore` is what the Synchronizer may rely on: a database that is at a sequence
of batches, which a processed batch makes longer and a reset cuts back to what it was
before; readers see it as it was after the last operation; a crash within an operation
may lose everything, but never brings back what was undone. `KVDB` is the code with its
directories, and `Store` the refinement: `Phase` from the place of the owner, `Batches`
from `current` or from the checkpoint the operation goes to, `Readers` from `last`.

| Variable | Code |
|---|---|
| `cks`, `cur` | the directories `BatchNum<n>` and `current` of each database, with the batches in them and the stored batch number |
| `last` | `Last.db`, what `LastRead` gives |
| `op` | where the owner is in `MakeCheckpoint`, `reset`, `ResetFromSynchronizer` or `NewKVDB` |
| `del`, `locked` | goroutines of `DeleteOldCheckpoints`; `mutexCheckpoint` |
| `top` | highest batch number so far, for the assumption on the depth of resets |

Every change of a directory is a step: `SetCurrentBatch`, `Checkpoint`, the deletions
one by one, and a copy in three (`FindSource`, `OpenSource`, `CopySource`, as
`MakeCheckpointFromTo` looks the source up before it takes the lock). A goroutine lists
the old checkpoints (`ListOld`) and then deletes them (`DeleteOld`). `Crash` leaves the
directories as they are, `Restart` is `NewKVDB`; a node whose database does not open
ends again. The batches of two histories are told apart by `Versions`. A list of
checkpoints is the set of them, of which the lowest is deleted first, as in the code.

Assumed of the callers: the synchronizer resets to a batch that it has, never as far
back as `Keep` batches (the default is 128). A deeper reset finds no checkpoint, and a
deletion that is still waiting may delete the one it goes to. A directory is made,
linked or removed in one step.

### TxProcessor, ForgeData and BatchProcessing

A processor is a record with what `TxProcessor` has (kind of database, accounts with
their two indices, `AccumulatedFees`, `updatedAccounts`) and the locals of `ProcessTxs`
(`exits`, `exitTree`, `collectedFees`, `createdAccounts`). The operators are named as the
Go methods; `applyTransfer` and `applyExit` are put together from `DebitL1`, `DebitL2`,
`CollectFee`, `Credit` and `AddExit`. `failed` is an error; what was written before it
stays written. A transaction names its type as `SetType` would find it. The fee selector
is a factor in halves, so that fees are rounded. Account numbers start at 2, where the
code has 256. `ExitInfos` is the loop of `ProcessTxs` over the transactions of the batch
with its two variables, `exitIdxs` and `exitInfosByIdx`. The accounts that the two
databases begin with are a constant (`FirstDB`): any without gaps in their numbers.

In `BatchProcessing` the same batch goes through two processors, one transaction in each
step: `ProcessL1User`, `ProcessL1Coordinator`, `ChooseCoordIdxs` (what is between the L1
and the L2 transactions), `ProcessL2`, `EndBatch` (fees, exits). The Synchronizer gets
what the contract's data have, through `ForgeData`: the call that `RollupForgeBatch` makes
of the batch, and what `RollupForgeBatchArgs` finds in it again, that is the number of the
receiver, not how it was found. Which batches come is up to the contract and the circuit: users may queue any
transaction between accounts that exist, in any token; L2 transactions are `Provable`;
fees may go to any accounts. `funds`, `credited` and `left` are history variables for the
sum of money.

### PoolAPI and TxSelector

A request of `PoolAPI` is a record, and each handler (`postPoolTx`, `putPoolTx`,
`putPoolTxByIdxAndNonce`, `postAtomicPool`) an operator from the pool to the pool; a
request that is refused leaves it as it is. A signature is what was signed and by whom, an
id what it is made of. `getPoolTxs` is the list with its filters.

| Variable | Code |
|---|---|
| `world` | `l1UserTxs`, `l1UserFutureTxs`, the pool in the order of arrival, and the accounts: those the API saw when the requests came, and `localAccountsDB` at the start of the selection, which a reorganisation may have made shorter or have filled with other accounts |
| `pending` | result of `GetPendingTxs`; the pool may be longer at every start |
| `failedAtomicGroups`, `tp`, `selectedTxs`, `l1CoordinatorTxs`, `coordIdxs` | locals of `getL1L2TxSelection` |
| `l2Txs`, `nonSelectedTxs`, `progressed` | what an iteration has still to look at, what it has refused, whether it has selected something |
| `builder` | the BatchBuilder's processor, after `BuildBatch` |

One pass of the loop in `processL2Txs` is a step: `NoAvailableSlots`, `Discard`, `Refuse`,
`Select`, `SenderNotFound`, and `FailGroup`, the `goto START_SELECTION`. `Try` is the part
of the pass that changes the database; what it has made stays when the transaction is
refused behind it, such as an account of the coordinator. The sort is not stable for equal
fees of groups, so `Start` takes any order that `Sorted` allows.

### History and ReadAPI

| Variable | Code |
|---|---|
| `sc`, `past` | the three contracts now, and after each block |
| `block` | the events of the block that is being filled, as `RollupEventsByBlock` and `WDelayerEventsByBlock` give them |
| `db` | the tables: batches, L1 transactions, accounts, account updates, exits; `fits` is false when an insert was refused |
| `reverted` | history variable: L1 transactions whose forging a reorganisation has undone |

`SyncBlock` is `rollupSync`, `wdelayerSync` and `AddBlockSCData` with the order of its
inserts and the triggers of `0001.sql`; `Reorg` deletes the blocks with what the schema cascades. The queries of the
Coordinator (`GetUnforgedL1UserTxs`, ...) and of the API (`ReadAPI`) read the tables
between two blocks.

### Auction

| Variable | Code |
|---|---|
| `chain` | the Ethereum chain: events of each block and the contract after it |
| `hist` | rows of bids, coordinators and variables of each block |
| `scVars`, `stats`, `failed`, `fetched` | `Synchronizer.vars.Auction`, `stats`, `resetStateFailed`, the block `Sync` works on |
| `api` | what `UpdateNetworkInfo` and `SetSCVars` have stored |

`Sync` is cut where it asks the Ethereum node; the slots are worked out as in
`updateCurrentNextSlotIfSync`, and `AuctionCanForge` answers from the latest state.
`CanForge` is the Coordinator's function, `NextForgers` and the lists of slots, bids and
coordinators are those of the API.

## Runs

Bounds are constants; a guard with a bound is the only place where the model does
less than the code. Each specification with a type invariant `TypeOK` has it proved as a
part of its inductive invariant, or uses it to say what the variables hold; no run spends
itself on it.

| Run | Instance | Shows |
|---|---|---|
| `pool_life` | 3 transactions of 2 senders, two of them with the same nonce; limits 0 and 1; 3 batches; safety period 1; pool of 2; one update | `PoolMatchesBatches` (`MarksAgree`, `RevertibleIsKept`), `PoolKeeps` (`GivenUpIsPending`, `UnlimitedIsKept`) |
| `pipeline_pool` | 2 transactions of one sender with the same nonce, 1 prover, 2 batches, a batch sent before the node was restarted, two pipelines one after the other | `InStep`, `TakesWhatIsLeft` (`L1QueueInOrder`, `MarksTell`), `SelectedStays` |
| `pipeline_line` | 2 provers, no transactions, 2 batches, channels of 1, one pipeline | `OneProofEach`, `NoProverLost`, `DeliveredInOrder`, and under fairness `Stops` (`FailureStops`, `StopEnds`) |
| `pipeline_undone` | 2 provers, one transaction, 2 batches, one pipeline | a counterexample to `FailedIsUndone` (see below) |
| `coordinator` | 1 transaction, 2 batches, channels of 1, 3 messages of the Node, one reorganisation, one fault, two pipelines | `NothingForgedBeside`; `StuckIsKnown`: who can wait for whom |
| `sync` | 5 blocks with a batch, an L1 batch or a change of variables (two of these at each place), 2 forks, 2 failures, auction from block 2, slots of 2 blocks | `HistoryIsSource` (`Linked`, `StateMatchesHistory`), `ToldMatchesHistory` (`StatsMatchHistory`, `CommitmentMatchesHistory`, `VarsTold`), and under fairness `Follows` |
| `txmanager` | 2 batches of one pipeline, 1 batch of another coordinator, 2 blocks without ours, one fork, drop or failed call, confirmation after 1 block | `NoGap`, `ForgottenIsFinal`, `RejectionIsKnown`, and under fairness `Leaves` |
| `kvdb` | the synchronizer's database and a local one, 3 batches, 2 kept, 2 resets, a crash | `OneHistory`, `FailsAtGapOnly`, and the refinement `IsStore` |
| `batches` | 2 batches with 3 transactions in all, at most 2 L1 and 2 fee accounts in a batch; 2 tokens, 2 users, 2 keys, 4 accounts | `MoneyConserved`, `NeverStuck`, `SameAccounts`, `OutputTells` |
| `selector` | accounts of 3 users in 2 tokens (3 in one world) with what the API has seen of them, also when a reorganisation has since taken accounts back or given their numbers to others; requests for 3 single transactions, a changed one, a replaced one, groups of 2 or 3, a deletion, and refused ones; 4 slots, 2 of them for L1 | `SelectionIsForgeable`, `CircuitAccepts`, `GroupsWhole`, `NoAccountTwice`, `NothingLeftBehind`, `PoolTells`, `Ends` |
| `history` | 2 owners, 2 blocks of 3 events, 3 batches, 2 L1 transactions, queues of 2, one reorganisation, pages of 2 | `QueueIsContracts`, `HistoryHolds`, `AccountsTell`, `ExitsTell` |
| `auction` | slots of 2 blocks, default bids of 2 sets, 5 blocks with one event each, 3 events, a node at most 2 blocks behind, one fork, failure or restart | `SlotsTellForgers`, `RefusedIfMoved`, `NextForgersTell`, `PagesTell` |

Why the bounds are enough. Pool: one batch to give up, one to keep and one to push
a row past the safety period of 1; two rows that can replace each other and a
third to fill the pool of 2. Pipeline: there are two places behind the forge
goroutine, the channel and the proof goroutine, so with two batches and two provers
one batch waits for its proof while the other one is forged, which is where the
goroutines disturb each other; channels of capacity 1 fill up, which 16
(coordinator/coordinator.go:73) would not in so few steps.
`pipeline_line` leaves out the transactions because its properties do not depend on them.
`pipeline_pool` has what the marks in the pool depend on: two rows that can replace each
other while one of them is selected, a number that two pipelines give to different batches,
and a second pipeline that starts from batches of the first, or of the time before the
restart, ahead of the synchronizer. It looks at pipelines that run, and its constraint
(`WhileRunning`) cuts off what comes after the last one has failed or was stopped, the
time the Coordinator waits for others, in which it changes nothing, and external deletions
that are asked for under the second pipeline.

Coordinator: two batches are one of ours and one of another forger at the same number,
or the one before it; the messages behind the first are two blocks, or a block and the
reorganisation that undoes it; with two pipelines a message of the first can stop the
second, and the next start finds no checkpoint; with channels of 1 each goroutine can be
the one that waits.

Synchronizer: with 5 blocks a fork goes back over three blocks and the end of a slot,
and a second one can make the chain shorter than the part the search has reached;
two failures are one that interrupts and one that hits the reset that repairs it, and
two forks are one that starts a reorganisation and one that comes while it goes on.

TxManager: two batches are the one that is sent again and the one behind it whose nonce
it may take; one trouble at a time, because after two the code promises less (see below).
The proofs have no such bounds.

KVDB: 2 checkpoints are kept, so with 3 batches the deletion in the background has one to
delete; two resets are one of the synchronizer and the copy that meets it. One version of
a batch is enough, as the batches of an undone history are longer than those of the new
one when they are seen. No crash comes once a copy has created the checkpoint it
found removed (`NoneCreatedByCopy`): such a crash breaks `OneHistory` (see below). Resets
are never as deep as `Keep` (`WithinKeep`). `FailsAtGapOnly` is about the step that fails:
after it, two copies that lag behind can make empty checkpoints that fill the gap.

BatchProcessing: three transactions are two that create the state (an account, a second
one with the same address, an exit) and one that meets it, in the same batch or the next
one; the accounts at the start have unequal balances and tokens, one of them only a key.
TxSelector: a batch of 4 with 2 L1 fills up in both ways; three single transactions
are one that enables another and one that takes its slot, two groups are one that
fails and one selected before or behind it. Accounts that only the API has seen are those
that a reorganisation has taken back; in other worlds it has given their numbers to accounts
of another owner and token (`Reassigned`), and one situation has three tokens where the batch
has room for the fees of two (`MaxFeeTx`): there the code does not do what it says, and the
properties say exactly where (see below).
Amounts are floats of radix 2 with a mantissa below 2, so that some cannot be written.

History: two blocks are the one that is undone and the one before it that it refers to;
three batches are one that makes accounts, one that forges the queue, and the next of
the queue. Auction: with slots of 2 blocks and a deadline of 1 the chain of 5 goes through
three slots, each with a block in time and one too late; the events are of every kind but a
change of the deadline within a slot, after which a restarted node tells another
commitment (see below).

Deadlock is checked for the pipeline: the Coordinator can always start, stop or
wait for somebody who can move; and for `selector`, where `Returned` stands for the end of
the function. `pool_life` stops when nothing is left to do, `batches`, `kvdb`, `history`
and `auction` when their bounds are reached, `sync` and `txmanager` when the chain has its
last block and all is done, and `coordinator` after `Node.Stop`, so they turn the check
off; `StuckIsKnown` says for `coordinator` in which states nothing can move.

Fairness (`Fairness` of `Pipeline`): each of the two goroutines goes on with what it can
do. Nothing is assumed of the provers, so a proof may take for ever, nor of the TxManager,
so `batchCh` may stay full. The two returns of the goroutines (`ctx.Done` in their
`select`) are strongly fair: they compete with other ready cases of the same `select`, and
Go picks among them at random. Weak fairness covers the rest because nothing else disables
those steps once they can happen. Nothing is assumed of how long the Coordinator waits when
it tells the TxManager of a block (`CoTell`; coordinator/coordinator.go:483, 485, 541): the
channels there can be full for ever (`Circle` of module `Coordinator`), so `FailureStops`
says that a failure stops the pipeline unless the Coordinator waits there for good. When it
comes back again and again, its `select` takes the message at last, so `CoMsg` is strongly
fair. The end of a stop (`CoStopped`) is not fair at all: `Pipeline.Stop` calls the provers
(coordinator/pipeline.go:394), and they need not answer.

`FairSpec` of `Synchronizer`: the loop goes on and an operator starts a process that
has ended (`Step`), and the chain grows up to the bound. A fork happens only before the
chain has its full length, as the fork that wins gets longer than those it replaces:
`Sync` looks at the chain only when there is a next block. Failures are not fair, and
their number is bounded.

`TxSelector` needs no fairness: `Ends` says that every step leaves less to do, in a
lexicographic order, so the selection cannot go on for ever.

`FairSpec` of `TxManager`: it goes on with what it has begun and with what is in its
channels, and what can be mined is mined. `EthTxResendTimeout` passes for every entry;
this is strong fairness because an entry is the next one only at every n-th tick.

## Proofs

Each theorem is for all values of the constants under the named assumptions of the
modules: any number of transactions, provers, batches, pipelines, blocks, forks and
failures, any capacity of the channels, any contents of blocks, any length of a slot, any
accounts and amounts. The assumptions say that numbers are natural, that a queue has room
for something, that a slot has a block and its deadline is within it, that names are
different, and that the accounts at the start have the form that the code gives them.

### The pool: `L2PoolLifeProof`

First comes a lemma for each statement on `tx_pool`: it gives a table again, which
rows it leaves alone, and what it makes of the others. `PipelineProof` and
`CoordinatorProof` begin with those of them that they need.

- `PoolStaysMatched`: `Spec => []PoolMatchesBatches`
- `PoolKeepsPromises`: `Spec => PoolKeeps`

`RevertibleIsKept` is not inductive: `Purge` also deletes rows whose limit has passed, so
a transaction of a batch that can be given up is only safe when its limit has not. The
invariant (`PoolInductive`) adds `LimitsHold`, that a row's limit reaches to its batch, and
that the current batch is no higher than any there was.

### The pipeline: `PipelineProof`

- `TypeCorrect`: `Spec => []TypeOK`
- `ProversSafe`: `Spec => []OneProofEach`
- `CountersInStep`: `Spec => []InStep`
- `InOrder`: `Spec => DeliveredInOrder`
- `NoneLost`: `Spec => NoProverLost`
- `SelectedAreKept`: `Spec => SelectedStays`
- `QueuesAndMarks`: `Spec => []TakesWhatIsLeft`

None of these is inductive. The invariant `IInv` (theorem `Inductive`) adds what each
of them rests on:

- `Holding`: at which places the forge goroutine holds a prover, and that the batch
  it works on has that prover;
- `ProversApart`: the provers of the forge goroutine, of the batch in `ch`, of the
  batch that waits, and of the pool are pairwise different;
- `InStepAt`: how far TxSelector and BatchBuilder are ahead of the counter at each
  place of the forge goroutine, not only at the one `InStep` speaks of (it says nothing
  once a batch has failed or the pipeline is cancelled);
- `Stored`: the state TxSelector is at is one of its checkpoints, so that its reset
  after a skipped batch finds the one before;
- `Line`: while nothing has failed, the batches from the last one delivered through
  `batch2`, `ch` and `batch1` to the BatchBuilder continue one another. This is the
  whole pipeline as one chain; `InOrder` is its first link;
- `Stopping`: without a pipeline both goroutines have ended, and when the Coordinator
  waits for them the pipeline is cancelled.

`SelectedAreKept` rests on one more, `Locked`: between selection and StartForging the
forge goroutine has the mutex.

`QueuesAndMarks` compares the queues of the contract and the marks in the pool with the
states of the two local databases, for any number of pipelines and of transactions with one
nonce. Its invariant `TakeInv`, inductive together with `IInv`, has six parts:

- `Known`: each state on its way (in a database, a channel, sent or mined) is made of
  batches on record in `built`, each with the number of its place;
- `Places`: what batch the forge goroutine has at each of its places, on which state;
- `Queues`: the L1 queues the pipeline has counted and those of the state it started ahead
  with (`Ahead`) are those that the state of its BatchBuilder has taken, and these are at
  most one more than the contract has closed;
- `MarksMean`: a mark stands for a batch on record with this transaction, or for one that
  has just failed and is about to be taken back;
- `StillPending`: the rows of the batch that is being built are pending;
- `MarksFit`: the marks nobody else has touched are of numbers up to that of the state, and
  what was taken since the pipeline started is marked.

What the code does not keep is in the statement and not among the assumptions: a pipeline
that starts ahead of the synchronizer counts wrong by exactly `Ahead`; rows that the API put
back or an older batch has marked are `disturbed`; and of a number that was given to two batches with different transactions (`Reused`) a mark
does not tell which. The safety period of `Purge` is not needed.

### The Coordinator: `CoordinatorProof`

- `TypeCorrect`: `Spec => []TypeOK`
- `NoPhantoms`: `Spec => []NothingForgedBeside`

`NothingForgedBeside` speaks of one place of the Coordinator; how it came there is in
`Handled` and `Ended`: it stops a pipeline for a block only when that has a batch of
another forger, with the number that the batch gives; and from then on, until the
block is handled, it has no pipeline, whose goroutine has then ended, so that all
the TxManager can do to the pool is to take from what is being forged. `Fits` adds that no
channel has more than it has room for. `TypeCorrect` needs to know in `CoStart` that the
checkpoint is there (`HasCheckpoint`): a message of a pipeline that was stopped
may have set `lastNonFailedBatchNum` since.

### The TxManager: `TxManagerProof`

- `NoncesHaveNoGap`: `Spec => []NoGap`
- `RejectionIsNotMissed`: `Spec => []RejectionIsKnown`
- `ForgottenOnlyWhenFinal`: `Spec => ForgottenIsFinal`

The invariant (`TxManagerInductive`) has three parts that carry the argument. `NoncesInOrder`: the
n-th of our transactions on the chain has nonce n - 1, so a fork gives back to the
mempool exactly the nonces that the account loses. `NothingSkipped`: below each nonce in
the mempool, in the queue, and below `accNextNonce`, every nonce is used, pending or
forgotten by the mempool; it is what a resend with another nonce, the reset of the nonce
after a scan and a fork must each keep. `Watched`: each transaction of the current
pipeline, pending or mined, is one of an entry in the queue, or of a batch that is
confirmed, unless something has happened of which the Coordinator is told. The last
theorem looks at what each step removes: only `handleReceipt` removes anything in the
loop, and only for a receipt that is deep enough.

### The Synchronizer: `SynchronizerProof`

- `HistoryIsTheSource`: `Spec => []HistoryIsSource`
- `WhatIsToldHolds`: `Spec => []ToldMatchesHistory`

The invariant (`SynchronizerInductive`) says for each place of the loop how far memory
and databases are ahead of the saved blocks: `StateFits` (the state database is never
behind them, wherever a failure or a crash comes, and is ahead only between rollupSync
and AddBlockSCData, in a reset, or while a reset is owed), `StatsFit`, `VarsFit` and
`ToldFits` (the same of the statistics, the variables and the message), `InLoop` (the
block the loop hands to `Sync` is the last saved one). The statistics are kept up to date
block by block and are read from the database after an error; that both give the same
commitment of the slot needs some arithmetic of slots (`SlotNumGrows`, `FirstBatchDecides`,
`CommitmentGoesOn`): the first batch of a slot decides, because a later one is not in time
when the first is not.

### The checkpoints: `KVDBProof`

- `IsCheckpointStore`: `Spec => IsStore`, the refinement of `CheckpointStore`
- `OneHistoryKept`: `Spec => []OneHistory`
- `FailsOnlyAtGaps`: `Spec => FailsAtGapOnly`

All are about the synchronizer's database, with any number of local ones around it. The
invariant (`KVDBInductive`) speaks of the number the database is at, or is being reset or
started to (`At`), and of the batches up to there (`History`). `BelowFits`: each checkpoint
up to `At` has the batches of this history, and none that is kept is missing; `AboveFits`:
what is above `At` is about to be deleted, or is an empty checkpoint that a copy has made;
`DeletionsFit`: what waits for deletion in the background is older than anything a reset
goes back to, because at least `Keep` numbers are between it and the highest one
(`OldIsOld`); `OwnerFits`: what `current`, `last` and the copy hold at each place. A start
after a crash is special: the number in `current` may have no checkpoint (`Whole`), and
then the start fails or begins with the first batch, which `CheckpointStore` allows. A
step of a local database (`LocalStep`) ends the process, makes an empty checkpoint where
it finds its source removed, or does nothing to the synchronizer's. The proof is under the
same two conditions as the run: resets within `Keep`, and no crash once a copy has made a
checkpoint. The first is what makes `DeletionsFit` enough; without the second `AboveFits`
would not be, as a restart takes the empty checkpoint for the batch's own.

### The accounts: `BatchProcessingProof`

- `TypeCorrect`: `Spec => []TypeOK`
- `MoneyIsConserved`: `Spec => []MoneyConserved`
- `QueueNeverSticks`: `Spec => []NeverStuck`
- `DatabasesAgree`: `Spec => []SameAccounts`
- `HistoryIsToldRight`: `Spec => []OutputTells`

The run has two tokens and four accounts; the theorems are for any tokens, owners, keys,
amounts, limits and encodings of amounts, for batches of any size and any accounts to
begin with. They follow the processor call by call: what each of its operators does to the
accounts, the indices, the fees and the exit tree is a lemma about any processor.

That money is conserved is not inductive. The invariant (`IInv`, theorem `Invariance`) adds

- `Ready`: nothing has failed (which is `NeverStuck`), accounts have no gaps and hold
  nothing below zero, so that what is added to an account is added to an account there
  is, and an exit in the tree is of one;
- `Collecting`: the fee accounts chosen have each a token of its own, so that a fee is
  counted once and paid out once;
- `Twins`: Synchronizer and BatchBuilder have the same accounts, nonces, indices, fees
  and exits after each transaction, although they get them from different sides: the
  BatchBuilder with the receiver as the transaction names it, the Synchronizer with the
  number that the contract was sent (`ForgedIs`, `L1CoordinatorTxIs`). `SameAccounts` is
  a part of it;
- `Conserved`: the sums of `MoneyConserved` for each phase within a batch, where part of
  the money is in fees that are collected and not yet paid.

On the way through the contract amounts are Float40: `ExactFloat` is that an amount that can be
written so is read back as it was, whatever the base, the mantissa and the exponents.

`OutputTells` compares what `ProcessTxs` returns with the accounts before and after the
batch. Its invariant (`TellInv`, lemma `Telling`) has the same of every moment within the
batch: an account that has changed is among the updated ones, the new numbers are the
created accounts, an exit is noted at a transaction before, and the last exit noted of an
account has the balance of its leaf, because a second exit of an account adds to the same leaf.
What the loop of `ExitInfos` makes of that is shown place by place (`Seen`).

Sums over accounts, and the folds of the code over fees and transactions, ask for
induction over data. The proofs go round it: a fold is shown to be the last one of a chain
of values (`FilterCoordIdxs`, `DistributeFees`, `ExitInfos`), and what holds along the
chain is a set of numbers that has its first element and with each one the next, which is
all of them.

`NumberFacts` has what the proofs share: that a set of naturals has a least element, from the
well-foundedness of `<`, and from it that a set of naturals, or of finite sets, that is
closed under the next one has them all (`EveryNatural`, `EveryFiniteSet`). They take the
place of the induction theorems of the library, which the provers cannot use.

### What is model-checked only

- Liveness: `Stops`, `Follows`, `Leaves`; and `StuckIsKnown`, which speaks of ENABLED.
- `selector`, `history` and `auction`. What these say is about what recursive definitions
  make of lists of transactions, rows and slots (the selection over again from the start,
  the reference for a query, the forgers up to a slot).

## What the code does not do as it says

The run `pipeline_undone` ends with a counterexample to `FailedIsUndone`: a failed proof
reverts the wrong batch. `PROJECT.json` (`findings`) quotes the lines. The others are in
the models, or were met while reading, and are not runs of their own.

Pool and its API:

- `L2DB.updateTx` writes 0 when a transaction has no limit (db/l2db/l2db.go:303), the
  API says 0 means none, and `Purge` takes 0 as passed (line 567).
- `Purge` deletes old pending rows however few there are (lines 559-566), where the
  comment of the TTL speaks of a full pool.
- A transaction with the same nonce as a selected one stays pending: the call that
  invalidates it compares with `<` (db/l2db/l2db.go:523, coordinator/pipeline.go:607-610).
- A row keeps its mark when its batch is given up and another batch of the same number
  is mined: `Reorg` leaves rows up to the last batch (coordinator/coordinator.go:446).
- `UpdateTx` writes whatever the state of the row is, without the check of the fee range
  (`putPoolTx`), and `putPoolTx` goes on after it has answered "nothing to update"
  (api/txspool.go:190).
- The trigger of `0009.sql` resets `effective_to_*` at every UPDATE, also when only the
  state or the info of the row changes, so a transaction to an account given by its number is
  no longer found by its receiver, as api/swagger.yml:563 has it. `PoolTells` states
  what the API says, and says nothing of updated rows that name the receiver by number.
- The API can put a selected transaction back as pending: its sender replaces it by
  another one of that nonce between the selection and StartForging, which then finds no row
  to mark, and later replaces that one by the first (db/l2db/l2db.go:331). Until the batch
  is synced or the nonce makes it invalid, the pool offers a transaction that is in a
  batch. `disturbed` has these rows, and `TakesWhatIsLeft` says nothing of them.
- `updateTxByIdxAndNonce` leaves its database transaction open when there is nothing to
  delete. The limit of the pool is not strict: two requests may both find a place.
- The tests for atomic transactions in post and put can never be true, and
  `binding:"required"` has no effect inside `UnmarshalJSON`: type and id may be empty. A
  row with an empty type is selected and changes nothing.

Pipeline, Coordinator and TxManager:

- Of two failure messages of a pipeline the last one counts, not the one of the first
  failed batch, as coordinator/coordinator.go:337 has it (`CoMsg`, line 555).
- The roots are compared for the BatchBuilder only, so TxSelector may start from a
  checkpoint of a batch that was given up (coordinator/pipeline.go:188).
- A pipeline that restarts ahead of the synchronizer takes the L1 queue number of the
  synced state, so it takes a queue twice (coordinator/pipeline.go:146). `Ahead` in
  `TakesWhatIsLeft` is the number of queues.
- `handleStopPipeline` takes one from a number that is already the last valid batch
  (coordinator/coordinator.go:339 and 504), and with an external batch 1 comes to 0,
  which it takes for none; `NothingForgedBeside` leaves out this one.
- A failure message that is handled after its pipeline was stopped and another one started
  stops that one, and `lastNonFailedBatchNum` is then the batch before the failed one. When
  the second pipeline had started below it, no database has a checkpoint of that batch any
  more: `Pipeline.Start` fails, and with it the handling of every block at which it is our
  turn, until the chain has the batch or another message stops a pipeline (`CoStart`,
  coordinator/coordinator.go:429-458, coordinator/pipeline.go:161-167). The database that
  the reset leaves closed is an empty one in the models; the purger
  (coordinator/purger.go:137) uses it without a check.
- The TxManager may mark a batch (`DoneForging`) after the Coordinator has given it up, and
  a new pipeline may forge a number again while our earlier batch of it gets mined. A row has
  no more than the number, so a Reorg, or a mark, of one of these batches is taken for the
  other's (`Overtaken` and `Reused` in `TakesWhatIsLeft`).
- The Coordinator and the TxManager, or the Coordinator and the pipeline, can wait for
  room in each other's channels until the node is stopped (`Circle`).
- A resend does not always reuse the nonce: when the transaction was mined after the
  check of its receipt the answer is "nonce too low", and the batch is sent again with the
  next nonce (coordinator/txmanager.go:273-277, 596). The contract refuses this second
  transaction. `handleReceipt` looks at the receipt of the last transaction only, so it takes
  the batch for a rejected one although it is in the chain: the batch and those behind it leave
  the queue, while the transactions of these may still be mined, and the pipeline is stopped.
- A batch may be forgotten although its block was reorganised away: when the node fails
  to answer, the receipt of the check before counts (coordinator/txmanager.go:557-571).
- A rejected batch may stop nothing: when `EthNonceAt` fails after the scan, or when the
  scan for a discarded pipeline finds it (coordinator/txmanager.go:509-516, 576-580).
  `silent` marks these two.
- A batch that is sent but not marked (`DoneForging` fails) is in no queue; if the mempool
  drops its transaction, the batches behind it wait until the next scan.
- A fork deeper than `ConfirmBlocks` undoes a batch that was forgotten as confirmed; when
  the batch is rejected at its next mining nobody looks (`silent` marks this too).

Synchronizer, auction and history:

- `reorg` ends its search at `startBlockNum` whether or not a common block was found
  (synchronizer/synchronizer.go:683-692). With `FinalBlocks` at least 1 the model keeps
  the start block on every fork.
- A block can be stored and not returned: after the commit an error of the update of the
  slots makes `Sync` return the error, and the batches and variables of the block are never
  told (synchronizer/synchronizer.go:659; the comment at line 503 says a block that is
  synced is returned). `missed` marks this for `VarsTold`.
- A reorganisation is done and never told when `resetState` fails after
  `historyDB.Reorg` (synchronizer/synchronizer.go:716).
- While the reset after an error keeps failing, `Sync` returns before it looks at the
  Ethereum node, so that the statistics keep an old last block of Ethereum.
- A change of `SlotDeadline` inside a slot leaves `ForgerCommitment` as it was; after a
  restart it is worked out with the new value. Nothing in the
  node checks that the deadline is within a slot, which `Synchronizer` assumes.
- `AuctionCanForge` is asked of the latest state, which may be ahead of the block of the
  Synchronizer; then Sync fails after its commit.
- After `ClosedAuctionSlots` is lowered, slots that were closed with the default bid of
  then are open again, and the node and the contract may disagree about them.
- `GetBestBidCoordinator` takes a new default bid for the slot it is saved with, which
  the contract closed with the old one (`Disputed` in `Auction`); and that slot is worked
  out with the `ClosedAuctionSlots` that the same block may have changed
  (synchronizer/synchronizer.go:1259).
- `SlotNum` is 0 for the blocks just before the genesis block, where its comment says it
  is negative (common/ethauction.go:36).
- `openAuction` of a slot (api/swagger.yml:2956) is worked out from whichever row of
  `auction_vars` comes first, not from the current variables (db/historydb/apiqueries.go:990).
- `UpdateNetworkInfo` returns with its lock held when an error comes between
  (api/stateapiupdater/stateapiupdater.go:209).
- "Reorg deletes all the information that was added into the DB after the lastValidBlock"
  (db/historydb/historydb.go), but the amounts and the owners that a later block has
  written into older rows stay.
- `GetTxsAPI` passes `toBjj` for `fromBjj` and the other way round when both are asked
  for (db/historydb/apiqueries.go:621). `AccountsTell` asks in every way and leaves out requests
  for two different keys (`KeysChangePlaces`).

Checkpoints:

- `reset` deletes the checkpoints above the batch, where its comment says they remain
  (db/kvdb/kvdb.go:186-189). With what the comment says `OneHistory` would not hold.
- After a crash between `setCurrentBatch` and the checkpoint the next start fails, having
  removed `current`, and the one after it starts from nothing and deletes all
  checkpoints (db/kvdb/kvdb.go:424, 438). After a crash in the middle of the deletions of
  a reset no start succeeds (line 510).
- An empty checkpoint that a copy has made is taken by a restart, when the node crashes
  after `setCurrentBatch` of that number.
- `MakeCheckpointFromTo` looks its source up before it takes the lock, and opening a source
  that a reset has just deleted makes an empty checkpoint of that number, also in the
  synchronizer's database (db/kvdb/kvdb.go:542; the comment at line 538 says the method can
  be called from multiple places at the same time).
- A crash within a reset that leaves no gap finds `current` removed, so the next start
  resets to 0 and deletes all checkpoints; `Synchronizer.init` then asks for the last batch of the history, which is
  gone, and the node does not start until its databases are wiped.

Selection and accounts:

- `GetIdxByEthAddr` does not return the smallest number, as its comment says
  (db/statedb/utils.go:83): a new account with another key overwrites the entry of the
  address (lines 70-77). Both databases do the same, so `SameAccounts` holds; who sends to
  an address pays to the newest account.
- The TxSelector does not compare the token of the receiver with the sender's for a
  transfer to a number (txselector/txselector.go:752-783), although its doc says that it does (lines 18-19); only the
  API does (api/txspool.go). Nor does it look at the signature, and it writes the token of the
  sender's account into the transaction (line 543). When a reorganisation gives the number of
  the sender or of the receiver to another account, the transaction is selected all the same,
  and a batch with it cannot be proved. `CircuitAccepts` says of these (`Reassigned`)
  that this is the case, and that it is the only one.
- One pending transaction whose sender does not exist makes the whole selection fail
  (txselector/txselector.go:539), and the next one too.
- `checkPendingToCreateFutureTxs` is asked also when the receiver exists, where its
  message (line 861) speaks of accounts that do not: transfers to an address wait until the queued
  creation of a second account of this address is forged.
- Nothing bounds the tokens of a selection by `MaxFeeTx`; a batch with more makes
  `ProcessTxs` fail in the BatchBuilder (txprocessor/txprocessor.go:210). The doc of the
  TxSelector says so (txselector/txselector.go:9-10); the batch is lost all the same.
  `SelectionIsForgeable` says that this is the one thing the BatchBuilder refuses.

## What is not modelled

Cryptography, Merkle trees, the circuit and its inputs (`common/zk.go`), the generated
contract bindings, tokens and prices, buckets and the escape hatch, metrics and the
recommended fee, the polling of the prover's server, configuration, logging.
`PROJECT.json` gives the reason for every component.

## Plan

Done: the specifications of all components above, and the proofs about the pool, the
pipeline, the Coordinator, the TxManager, the Synchronizer, the checkpoints and the
accounts. Left: the polling of the prover's server, and buckets in `History`, if a
property needs them.
