----------------------------- MODULE Coordinator -----------------------------
(***************************************************************************)
(* The goroutines of a node that forges, and the channels between them:    *)
(* the one that synchronises and tells the others (node.go), the one of    *)
(* the Coordinator, the TxManager, and a pipeline.  A send waits when the  *)
(* channel is full, until the context of the sender is done.               *)
(*                                                                         *)
(* Other coordinators forge too, and blocks are undone: what the           *)
(* Coordinator does then to the pool of L2 transactions is here.  The two  *)
(* goroutines of the pipeline are one (see Pipeline), the TxManager does   *)
(* not look at receipts (see TxManager), the databases answer (see         *)
(* Synchronizer), a block has one batch at most, and each L2 transaction   *)
(* is the first one of its own account.                                    *)
(***************************************************************************)
EXTENDS L2Pool, Sequences, SequencesExt

CONSTANTS
  QueueLen,                                        \* capacity of the channels
  FirstTurns, Turns,     \* whose turn it may be: of the first block, of the others
  MaxBatch, MaxPipelines, MaxNews, MaxReorgs, MaxFaults  \* bounds

ASSUME CoordinatorAssumption ==
  /\ QueueLen \in Nat \ {0}
  /\ FirstTurns \cup Turns \subseteq {"ours", "not ours", "behind"}
  /\ {MaxBatch, MaxPipelines, MaxNews, MaxReorgs, MaxFaults} \subseteq Nat

VARIABLES
  pool,      \* the tx_pool table
  chain,     \* the batches that the Synchronizer has: a state root
  sent,      \* the batches sent to the contract and not synchronised
  news,      \* how much the Synchronizer has told, and reorgs
  faults,    \* how often a proof, a sending or a check has failed
  up,        \* how far Node.Stop is: "run", "coord", "done"
  node,      \* the goroutine of the Synchronizer: [pc, msg]
  msgCh,     \* Coordinator.msgCh
  co,        \* the goroutine of the Coordinator: [pc, msg]
  stats,     \* Coordinator.stats: [root, turn]
  last,      \* Coordinator.lastNonFailedBatchNum
  pipe,      \* Coordinator.pipeline and its goroutine
  pipeStats, \* how many messages pipeline.statsVarsCh has
  tm,        \* the goroutine of the TxManager: its place
  tmStats, discards,   \* how many messages its statsVarsCh and discardPipelineCh have
  batchCh    \* its batchCh

tmVars   == <<tm, tmStats, discards>>
pipeVars == <<pipe, pipeStats>>
coVars   == <<co, stats, last>>
chainVars == <<chain, sent, news>>
vars == <<pool, chainVars, faults, up, node, msgCh, coVars, pipeVars, tmVars, batchCh>>

TxsOf(root) == UNION {root[i].txs : i \in DOMAIN root}
NoBatch == [own |-> FALSE, txs |-> {}, fork |-> 0]
Batch(txs) == [own |-> TRUE, txs |-> txs, fork |-> 0]

NoMsg == [kind |-> "none", root |-> <<>>, external |-> 0, turn |-> "behind",
          failed |-> 0]
StopMsg(b) == [NoMsg EXCEPT !.kind = "stop", !.failed = b]

Selecting == [pc |-> "select", msg |-> NoMsg]
Idle == [on |-> FALSE, cancelled |-> FALSE, pc |-> "done", num |-> 0, root |-> <<>>,
         failed |-> FALSE, from |-> <<>>, local |-> <<>>]

Fault == faults < MaxFaults /\ faults' = faults + 1
HasRoom(n) == n < QueueLen
CoordRuns == up = "run"

-----------------------------------------------------------------------------
(* The goroutine of the Synchronizer: syncLoopFn, handleNewBlock, handleReorg. *)

Telling(kind, root, external, turn) ==
  [pc |-> "send", msg |-> [NoMsg EXCEPT !.kind = kind, !.root = root,
                             !.external = external, !.turn = turn]]
Tell(kind, root, external) == \E turn \in Turns : node' = Telling(kind, root, external, turn)

Sync == /\ node.pc = "sync" /\ news.told < MaxNews
        /\ UNCHANGED <<pool, faults, up, msgCh, coVars, pipeVars, tmVars, batchCh>>

NewBlock ==
  /\ Sync
  /\ news' = [news EXCEPT !.told = @ + 1]
  /\ \/ Tell("block", chain, 0) /\ UNCHANGED <<chain, sent>>
     \/ \E r \in sent : /\ Len(r) = Len(chain) + 1 /\ Front(r) = chain
                        /\ chain' = r /\ sent' = sent \ {r}
                        /\ Tell("block", r, 0)
     \/ LET r == Append(chain, [NoBatch EXCEPT !.fork = news.reorgs])
        IN  /\ Len(chain) < MaxBatch
            /\ chain' = r /\ UNCHANGED sent
            /\ Tell("block", r, Len(r))

\* the transactions of the undone batches wait to be mined again
Reorg_ ==
  /\ Sync
  /\ news.reorgs < MaxReorgs
  /\ \E k \in 0..Len(chain) - 1 :
       /\ chain' = SubSeq(chain, 1, k)
       /\ sent' = sent \cup {SubSeq(chain, 1, i) : i \in {i \in k + 1..Len(chain) : chain[i].own}}
       /\ Tell("reorg", chain', 0)
  /\ news' = [told |-> news.told + 1, reorgs |-> news.reorgs + 1]

\* SendMsg
NodeTell ==
  /\ node.pc = "send"
  /\ HasRoom(Len(msgCh)) /\ msgCh' = Append(msgCh, node.msg)
  /\ node' = [pc |-> "sync", msg |-> NoMsg]
  /\ UNCHANGED <<pool, chainVars, faults, up, coVars, pipeVars, tmVars, batchCh>>

NodeLoop == NewBlock \/ Reorg_ \/ NodeTell

-----------------------------------------------------------------------------
(* The goroutine of the Coordinator. *)

CoStep == UNCHANGED <<chainVars, faults, up, node, tm, batchCh>>

Goto(pc) == co' = IF pc = "select" THEN Selecting ELSE [co EXCEPT !.pc = pc]

CoTake ==
  /\ co.pc = "select" /\ msgCh # <<>>
  /\ msgCh' = Tail(msgCh)
  /\ LET m == Head(msgCh)
     IN  /\ co' = [pc |-> IF m.kind = "stop" THEN "stop" ELSE "tell tx", msg |-> m]
         /\ stats' = IF m.kind = "stop" THEN stats
                     ELSE [root |-> m.root, turn |-> m.turn]
  /\ CoStep /\ UNCHANGED <<pool, last, pipeVars, tmStats, discards>>

\* TxManager.SetSyncStatsVars
CoTellTx_OwnContext ==  \* mutant
  /\ co.pc = "tell tx"
  /\ HasRoom(tmStats) /\ tmStats' = tmStats + 1
  /\ Goto(IF pipe.on THEN "tell pipe" ELSE "pool")
  /\ CoStep /\ UNCHANGED <<pool, msgCh, stats, last, pipeVars, discards>>
CoTellTx ==
  /\ co.pc = "tell tx"
  /\ \/ HasRoom(tmStats) /\ tmStats' = tmStats + 1
     \/ ~CoordRuns /\ UNCHANGED tmStats
  /\ Goto(IF pipe.on THEN "tell pipe" ELSE "pool")
  /\ CoStep /\ UNCHANGED <<pool, msgCh, stats, last, pipeVars, discards>>

\* Pipeline.SetSyncStatsVars
CoTellPipe ==
  /\ co.pc = "tell pipe"
  /\ \/ HasRoom(pipeStats) /\ pipeStats' = pipeStats + 1
     \/ ~CoordRuns /\ UNCHANGED pipeStats
  /\ Goto("pool")
  /\ CoStep /\ UNCHANGED <<pool, msgCh, stats, last, pipe, tmStats, discards>>

\* the batch before the first external one becomes the FailedBatchNum of the stop
LastValid(m) == m.external - 1

\* handleMsgSyncBlock: the external batches
CoPool_NoStop ==  \* mutant: the pipeline goes on
  /\ co.pc = "pool" /\ co.msg.kind = "block"
  /\ Goto("stats")
  /\ pool' = IF co.msg.external # 0 THEN Reorg(pool, LastValid(co.msg)) ELSE pool
  /\ CoStep /\ UNCHANGED <<msgCh, stats, last, pipeVars, tmStats, discards>>
CoPool ==
  /\ co.pc = "pool" /\ co.msg.kind = "block"
  /\ IF co.msg.external # 0 /\ pipe.on
     THEN co' = [pc |-> "stop", msg |-> [co.msg EXCEPT !.failed = LastValid(co.msg)]]
     ELSE Goto("stats")
  /\ pool' = IF co.msg.external # 0 /\ ~pipe.on THEN Reorg(pool, LastValid(co.msg)) ELSE pool
  /\ CoStep /\ UNCHANGED <<msgCh, stats, last, pipeVars, tmStats, discards>>

ForgedByUs(root) == root # <<>> /\ Last(root).own

\* handleReorg
CoReorg ==
  /\ co.pc = "pool" /\ co.msg.kind = "reorg"
  /\ Goto(IF ~ForgedByUs(stats.root) /\ (stats.root = <<>> \/ stats.root # pipe.from)
          THEN "discard" ELSE "select")
  /\ CoStep /\ UNCHANGED <<pool, msgCh, stats, last, pipeVars, tmStats, discards>>

CoDiscard ==
  /\ co.pc = "discard"
  /\ \/ HasRoom(discards) /\ discards' = discards + 1
     \/ ~CoordRuns /\ UNCHANGED discards
  /\ co' = [pc |-> "stop", msg |-> [co.msg EXCEPT !.failed = 0]]
  /\ CoStep /\ UNCHANGED <<pool, msgCh, stats, last, pipeVars, tmStats>>

\* Pipeline.Stop: cancel, then wait for the goroutine
Cancel ==
  /\ co.pc \in {"stop", "slot end"} /\ pipe.on /\ ~pipe.cancelled
  /\ pipe' = [pipe EXCEPT !.cancelled = TRUE]
  /\ CoStep /\ UNCHANGED <<pool, msgCh, coVars, pipeStats, tmStats, discards>>

Stopped == pipe.on => pipe.cancelled /\ pipe.pc = "done"

Off == [Idle EXCEPT !.num = pipe.num, !.local = pipe.local, !.from = pipe.from]

\* handleStopPipeline
BackTo(failed) == IF failed # 0 THEN failed - 1 ELSE Len(stats.root)
CoStop ==
  /\ co.pc = "stop" /\ Stopped
  /\ pipe' = Off
  /\ pool' = Reorg(pool, BackTo(co.msg.failed))
  /\ last' = BackTo(co.msg.failed)
  /\ Goto(IF co.msg.kind = "block" THEN "stats" ELSE "select")
  /\ CoStep /\ UNCHANGED <<msgCh, stats, pipeStats, tmStats, discards>>

\* syncStats
FromBatch == IF last > Len(stats.root) THEN last ELSE Len(stats.root)

\* the purger, that works every so many batches or blocks
AfterPurger(invalidate, purge) ==
  LET b == Len(stats.root)
      p == IF invalidate
           THEN InvalidateOldNonces(pool, [i \in {FromIdx[t] : t \in TxsOf(pipe.local)} |-> 1], b)
           ELSE pool
  IN  IF purge THEN Purge(p, b) ELSE p

\* BatchBuilder and TxSelector are reset to their own checkpoint, or to that of the
\* Synchronizer when it has that batch
RootToStart == IF FromBatch <= Len(stats.root) THEN SubSeq(stats.root, 1, FromBatch)
               ELSE SubSeq(pipe.local, 1, FromBatch)
HasCheckpoint == FromBatch <= Len(stats.root) \/ FromBatch <= Len(pipe.local)

\* l2DB.Reorg, newPipeline and Pipeline.Start: when no database has that batch, they
\* have none at all from then on
CoStart ==
  /\ co.pc = "stats" /\ stats.turn = "ours" /\ ~pipe.on
  /\ pool' = Reorg(pool, FromBatch)
  /\ LET from  == IF last > Len(stats.root) THEN <<>> ELSE stats.root
         start == [Idle EXCEPT !.num = pipe.num, !.from = from]
     IN  \/ /\ HasCheckpoint /\ pipe.num < MaxPipelines
            /\ pipe' = [start EXCEPT !.on = TRUE, !.pc = "select", !.num = @ + 1,
                                     !.root = RootToStart, !.local = RootToStart]
         \/ ~HasCheckpoint /\ pipe' = start
         \/ UNCHANGED pipe     \* no prover is ready
  /\ pipeStats' = 0
  /\ Goto("select")
  /\ CoStep /\ UNCHANGED <<msgCh, stats, last, tmStats, discards>>

CoSlotEnds ==
  /\ co.pc = "stats" /\ stats.turn = "not ours" /\ pipe.on
  /\ Goto("slot end")
  /\ CoStep /\ UNCHANGED <<pool, msgCh, stats, last, pipeVars, tmStats, discards>>

\* there is no pipeline: it may be too early in the slot for it (StartSlotBlocksDelay)
CoPurge ==
  /\ \/ co.pc = "slot end" /\ Stopped
     \/ co.pc = "stats" /\ stats.turn # "behind" /\ ~pipe.on
  /\ \E invalidate, purge \in BOOLEAN : pool' = AfterPurger(invalidate, purge)
  /\ pipe' = Off
  /\ Goto("select")
  /\ CoStep /\ UNCHANGED <<msgCh, stats, last, pipeStats, tmStats, discards>>

CoNothing ==
  /\ co.pc = "stats"
  /\ stats.turn = "behind" \/ (stats.turn = "ours" /\ pipe.on)
  /\ Goto("select")
  /\ CoStep /\ UNCHANGED <<pool, msgCh, stats, last, pipeVars, tmStats, discards>>

\* the timer, after an error or a long time
CoTimer ==
  /\ co.pc = "select" /\ stats.turn = "ours" /\ ~pipe.on
  /\ co' = [pc |-> "stats", msg |-> NoMsg]
  /\ CoStep /\ UNCHANGED <<pool, msgCh, stats, last, pipeVars, tmStats, discards>>

CoDone ==
  /\ co.pc = "select" /\ ~CoordRuns
  /\ Goto("done")
  /\ CoStep /\ UNCHANGED <<pool, msgCh, stats, last, pipeVars, tmStats, discards>>

CoordinatorLoop ==
  \/ CoTake \/ CoTellTx \/ CoTellPipe \/ CoPool \/ CoReorg \/ CoDiscard \/ Cancel
  \/ CoStop \/ CoStart \/ CoSlotEnds \/ CoPurge \/ CoNothing \/ CoTimer \/ CoDone

-----------------------------------------------------------------------------
(* The pipeline. *)

PipeStep == UNCHANGED <<chainVars, up, node, coVars, tmVars>>

PipeReadStats ==
  /\ pipe.pc = "select" /\ pipeStats > 0
  /\ pipeStats' = pipeStats - 1
  /\ PipeStep /\ UNCHANGED <<faults, pool, msgCh, pipe, batchCh>>

\* forgeBatch
Forge ==
  /\ pipe.pc = "select" /\ ~pipe.failed /\ Len(pipe.root) < MaxBatch
  /\ \E txs \in SUBSET (PendingTxs(pool) \ TxsOf(pipe.root)) :
       LET root == Append(pipe.root, Batch(txs))
       IN  /\ pool' = StartForging(pool, txs, Len(root))
           /\ pipe' = [pipe EXCEPT !.pc = "prove", !.root = root, !.local = root]
  /\ PipeStep /\ UNCHANGED <<faults, msgCh, pipeStats, batchCh>>

\* setErrAtBatchNum
ProofFails ==
  /\ pipe.pc = "prove" /\ ~pipe.cancelled /\ Fault
  /\ pipe' = [pipe EXCEPT !.pc = "msg", !.failed = TRUE]
  /\ PipeStep /\ UNCHANGED <<pool, msgCh, pipeStats, batchCh>>

\* TxManager.AddBatch
AddBatch ==
  /\ pipe.pc = "prove"
  /\ \/ HasRoom(Len(batchCh)) /\ batchCh' = Append(batchCh, pipe.root)
     \/ pipe.cancelled /\ UNCHANGED batchCh
  /\ pipe' = [pipe EXCEPT !.pc = "select"]
  /\ PipeStep /\ UNCHANGED <<faults, pool, msgCh, pipeStats>>

\* revertPoolChanges, at once when the pipeline is stopped or behind the message
GiveUp ==
  /\ \/ pipe.pc = "prove" /\ pipe.cancelled /\ UNCHANGED msgCh
     \/ pipe.pc = "msg" /\ HasRoom(Len(msgCh)) /\ msgCh' = Append(msgCh, StopMsg(Len(pipe.root)))
     \/ pipe.pc = "msg" /\ pipe.cancelled /\ UNCHANGED msgCh
  /\ pipe' = [pipe EXCEPT !.pc = "select"]
  /\ pool' = Reorg(pool, Len(pipe.root) - 1)
  /\ PipeStep /\ UNCHANGED <<faults, pipeStats, batchCh>>

PipeDone ==
  /\ pipe.pc = "select" /\ pipe.cancelled
  /\ pipe' = [pipe EXCEPT !.pc = "done"]
  /\ PipeStep /\ UNCHANGED <<faults, pool, msgCh, pipeStats, batchCh>>

PipelineLoop == PipeReadStats \/ Forge \/ ProofFails \/ AddBatch \/ GiveUp \/ PipeDone

-----------------------------------------------------------------------------
(* The TxManager. *)

TmStep == UNCHANGED <<chain, news, up, node, coVars, pipeVars>>

TmReadStats ==
  /\ tm \in {"first", "select"} /\ tmStats > 0
  /\ tmStats' = tmStats - 1 /\ tm' = "select"
  /\ TmStep /\ UNCHANGED <<faults, pool, sent, msgCh, discards, batchCh>>

\* the queue forgets the batches of the pipeline, which stay where they were sent
TmDiscard ==
  /\ tm = "select" /\ discards > 0
  /\ discards' = discards - 1
  /\ TmStep /\ UNCHANGED <<faults, pool, sent, msgCh, tm, tmStats, batchCh>>

\* the batch is sent, and its transactions are forged as far as the pool goes; or
\* it is not the time for it, or the sending fails
TmTake ==
  /\ tm = "select" /\ batchCh # <<>>
  /\ batchCh' = Tail(batchCh)
  /\ LET r == Head(batchCh)
     IN  \/ /\ sent' = sent \cup {r}
            /\ pool' = DoneForging(pool, Last(r).txs, Len(r))
            /\ UNCHANGED <<tm, faults>>
         \/ tm' = "msg" /\ Fault /\ UNCHANGED <<sent, pool>>
  /\ TmStep /\ UNCHANGED <<msgCh, tmStats, discards>>

\* a batch that was sent is rejected, or its receipt cannot be read
TmCheck ==
  /\ tm = "select" /\ sent # {} /\ Fault
  /\ tm' = "msg"
  /\ TmStep /\ UNCHANGED <<pool, sent, msgCh, tmStats, discards, batchCh>>

TmTell ==
  /\ tm = "msg"
  /\ \/ HasRoom(Len(msgCh)) /\ msgCh' = Append(msgCh, StopMsg(0))
     \/ ~CoordRuns /\ UNCHANGED msgCh
  /\ tm' = "select"
  /\ TmStep /\ UNCHANGED <<faults, pool, sent, tmStats, discards, batchCh>>

TmDone ==
  /\ tm \in {"first", "select"} /\ ~CoordRuns
  /\ tm' = "done"
  /\ TmStep /\ UNCHANGED <<faults, pool, sent, msgCh, tmStats, discards, batchCh>>

TxManagerLoop == TmReadStats \/ TmDiscard \/ TmTake \/ TmCheck \/ TmTell \/ TmDone

-----------------------------------------------------------------------------
(* Node.Stop.  The goroutines of the node end first: those that wait for  *)
(* room in a channel are freed.  It then stops those of the Coordinator,   *)
(* and the pipeline if there is one.                                       *)

StopCoordinator ==
  /\ up = "run"
  /\ up' = "coord" /\ node' = [pc |-> "done", msg |-> NoMsg]
  /\ UNCHANGED pipe
StopPipeline ==
  /\ up = "coord" /\ co.pc = "done" /\ tm = "done"
  /\ up' = "done" /\ pipe' = [pipe EXCEPT !.cancelled = pipe.on]
  /\ UNCHANGED node

Stop ==
  /\ StopCoordinator \/ StopPipeline
  /\ UNCHANGED <<pool, chainVars, faults, msgCh, coVars, pipeStats, tmVars, batchCh>>

-----------------------------------------------------------------------------
Init ==
  /\ pool = [t \in TxIDs |-> NewRow(0)]
  /\ chain = <<>> /\ sent = {} /\ news = [told |-> 0, reorgs |-> 0]
  /\ faults = 0
  /\ up = "run"
  /\ \E turn \in FirstTurns : node = Telling("block", <<>>, 0, turn)   \* StartSynchronizer
  /\ msgCh = <<>>
  /\ co = Selecting
  /\ stats = [root |-> <<>>, turn |-> "behind"]
  /\ last = 0
  /\ pipe = Idle /\ pipeStats = 0
  /\ tm = "first" /\ tmStats = 0 /\ discards = 0
  /\ batchCh = <<>>

Next == NodeLoop \/ CoordinatorLoop \/ PipelineLoop \/ TxManagerLoop \/ Stop

Spec == Init /\ [][Next]_vars

-----------------------------------------------------------------------------
(* Properties. *)

\* When the Coordinator has handled a block with the batches of another forger,
\* and the pipeline has been stopped, no transaction of the pool is being forged in
\* the place of one of these batches, whatever the pipeline did while it was asked
\* to stop (handleMsgSyncBlock: no "phantom forged l2txs").  The first batch of all
\* is left out: the batch before it is 0, which handleStopPipeline takes for none.
NothingForgedBeside ==
  co.pc = "stats" /\ co.msg.external > 1 =>
    \A t \in InState(pool, {Forging}) : pool[t].batch < co.msg.external

\* The only ways for everyone to wait: the Coordinator for room in a channel of the
\* TxManager, or of the pipeline, that waits for room in the channel of the
\* Coordinator.  Node.Stop, which cancels all of their contexts, ends these too, and
\* nothing else keeps it waiting once it has come to them.
Circle == /\ CoordRuns
          /\ \/ co.pc \in {"tell tx", "discard"} /\ tm = "msg"
             \/ co.pc = "tell pipe" /\ pipe.pc = "msg"
             \/ co.pc = "tell pipe" /\ pipe.pc = "prove" /\ tm = "msg"
AtRest == IF up = "done" THEN pipe.pc = "done" ELSE co.pc = "select" /\ msgCh = <<>>
StuckIsKnown ==
  \/ AtRest \/ Circle
  \/ ENABLED (CoordinatorLoop \/ PipelineLoop \/ TxManagerLoop \/ StopPipeline)
=============================================================================
