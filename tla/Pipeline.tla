------------------------------ MODULE Pipeline ------------------------------
(***************************************************************************)
(* The forging pipeline (coordinator/pipeline.go): the forge goroutine     *)
(* takes a prover, selects and builds the next batch and sends it to the   *)
(* prover; the proof goroutine waits for the proof, gives the prover back  *)
(* and hands the batch to the TxManager.  Around it the part of the        *)
(* Coordinator goroutine that starts and stops pipelines, and the          *)
(* goroutine that purges externally deleted transactions.                  *)
(*                                                                         *)
(* The TxManager, the smart contract and the Synchronizer are reduced to   *)
(* three actions: a delivered batch is sent (or the sending fails), it is  *)
(* mined and synced when it was built on the state of the contract, and    *)
(* the TxManager asks for a stop when it hears of a failure.  Other        *)
(* coordinators and reorganisations are not in this module.                *)
(*                                                                         *)
(* A state root is the sequence of the batches that lead to it, so the     *)
(* number of a batch is the length of its root.                            *)
(***************************************************************************)
EXTENDS L2Pool, Sequences, SequencesExt

CONSTANTS
  Provers,        \* proof servers (Coordinator.provers)
  NoProver,       \* stands for nil
  QueueLen,       \* capacity of msgCh and batchCh (queueLen)
  MaxBatch,       \* bound on the batch number
  MaxPipelines,   \* bound on the number of pipelines
  InPool,         \* ids that are in the pool when the node starts
  InFlight        \* batches the node has sent before it was restarted, not mined yet

Entry == [txs : SUBSET TxIDs, l1 : BOOLEAN]
L1Count(root) == Cardinality({i \in DOMAIN root : root[i].l1})
TxsOf(root) == UNION {root[i].txs : i \in DOMAIN root}

\* BatchInfo: base is the root the batch was built on
BatchInfo == [num : Nat \ {0}, prover : Provers, txs : SUBSET TxIDs, l1 : BOOLEAN,
              base : Seq(Entry)]
NoBatch == [num |-> 0, prover |-> NoProver, txs |-> {}, l1 |-> FALSE, base |-> <<>>]
Root(b) == Append(b.base, [txs |-> b.txs, l1 |-> b.l1])

ASSUME PipelineAssumption ==
  /\ NoProver \notin Provers
  /\ QueueLen \in Nat \ {0}
  /\ MaxBatch \in Nat
  /\ MaxPipelines \in Nat
  /\ InPool \subseteq TxIDs
  /\ \A b \in InFlight : b \in BatchInfo /\ b.num = 1 /\ b.base = <<>>

(* A local database of TxSelector or BatchBuilder: the current root and the
   roots of the stored checkpoints (module KVDB has the details). *)
HasCheckpoint(db, n) == \E r \in db.cks : Len(r) = n
Local(db, n) == [cur |-> IF n = 0 THEN <<>> ELSE CHOOSE r \in db.cks : Len(r) = n,
                 cks |-> {r \in db.cks : Len(r) <= n}]
FromSynchronizer(root) == [cur |-> root, cks |-> {root} \ {<<>>}]
MakeCheckpoint(db, e) ==
  LET r == Append(db.cur, e)
  IN  [cur |-> r, cks |-> {c \in db.cks : Len(c) # Len(r)} \cup {r}]
\* left by a ResetFromSynchronizer that failed: nothing is open, nothing is stored
Closed == [cur |-> <<>>, cks |-> {}]

\* LocalAccountsDB: the nonce of an account is the number of its transactions so far
AccNonce(root) ==
  [i \in {FromIdx[t] : t \in TxIDs} |-> Cardinality({t \in TxsOf(root) : FromIdx[t] = i})]

\* what GetL2TxSelection may choose: the nonces of a sender follow one another
Selection(pool, root) ==
  {ids \in SUBSET (PendingTxs(pool) \ TxsOf(root)) :
     \A i \in {FromIdx[t] : t \in ids} :
       LET own == {t \in ids : FromIdx[t] = i}
       IN  {Nonce[t] : t \in own} = AccNonce(root)[i]..(AccNonce(root)[i] + Cardinality(own) - 1)}

VARIABLES
  pool,           \* the tx_pool table
  mutex,          \* mutexL2DBUpdateDelete is held by the forge goroutine
  chain,          \* root of the last batch of the contract, and of the Synchronizer
  sent,           \* batches whose forgeBatch transaction waits to be mined
  \* Coordinator
  coord,          \* "idle"; "tell": sends stats to the others; "stop": in Pipeline.Stop,
                  \* then Reorg if stopAt # NULL
  stopAt,         \* batch that handleStopPipeline goes back to
  lastNonFailed,  \* lastNonFailedBatchNum
  msgCh,          \* FailedBatchNum of the MsgStopPipeline messages
  \* the pipeline
  num,            \* pipelines started so far (pipelineNum, without failed starts)
  ctx,            \* "none": no pipeline; "run"; "done": cancelled
  st,             \* Pipeline.state: [batchNum, lastL1]
  statL1,         \* Pipeline.stats.Sync.LastForgeL1TxsNum
  batchNum,       \* the variable both goroutines capture
  errAt,          \* errAtBatchNum
  selDB, bbDB,    \* local databases of TxSelector and BatchBuilder
  free,           \* provers in the ProversPool
  pc1, prover1, batch1,   \* forge goroutine: place, prover it holds, batch it works on
  ch,             \* batchChSentServerProof, capacity 1
  pc2, batch2,    \* proof goroutine
  batchCh,        \* TxManager.batchCh
  \* history
  out,            \* root of the last batch this pipeline delivered
  from,           \* states this pipeline started with: its own and the synced one
  built,          \* number and transactions of the batches ever built
  disturbed       \* rows that others than this pipeline have changed under it

coordVars == <<coord, stopAt, lastNonFailed, num>>
envVars   == <<chain, sent>>
g1Vars    == <<pc1, prover1, batch1, batchNum, st, statL1, selDB, bbDB, mutex>>
g2Vars    == <<pc2, batch2, out>>
histVars  == <<from, built, disturbed>>
vars == <<pool, coordVars, envVars, g1Vars, g2Vars, msgCh, ctx, errAt, free, ch, batchCh,
          histVars>>

Init ==
  /\ pool = [t \in InPool |-> NewRow(0)]
  /\ mutex = FALSE
  /\ chain = <<>> /\ sent = InFlight
  /\ coord = "idle" /\ stopAt = NULL /\ lastNonFailed = 0
  /\ msgCh = <<>>
  /\ num = 0 /\ ctx = "none"
  /\ st = [batchNum |-> 0, lastL1 |-> 0] /\ statL1 = 0
  /\ batchNum = 0 /\ errAt = 0
  /\ selDB = FromSynchronizer(<<>>) /\ bbDB = FromSynchronizer(<<>>)
  /\ free = {}
  /\ pc1 = "done" /\ prover1 = NoProver /\ batch1 = NoBatch
  /\ ch = <<>>
  /\ pc2 = "done" /\ batch2 = NoBatch
  /\ batchCh = <<>> /\ out = <<>>
  /\ from = [own |-> <<>>, synced |-> <<>>] /\ disturbed = {}
  /\ built = {[num |-> b.num, txs |-> b.txs] : b \in InFlight}
-----------------------------------------------------------------------------
(* Forge goroutine.  In every step that follows a call the code tests
   p.ctx.Err() first: when the pipeline is cancelled it reverts and the prover
   is lost with the pool of the pipeline. *)

UNCHLine == UNCHANGED <<coordVars, envVars, ctx, ch, g2Vars, batchCh, from, disturbed>>
UNCH1 == UNCHLine /\ UNCHANGED built

\* the stats the Coordinator has sent meanwhile
G1Stats ==
  /\ pc1 = "select"
  /\ statL1' = L1Count(chain)
  /\ UNCHANGED <<pc1, prover1, batch1, batchNum, st, selDB, bbDB, mutex>>
  /\ UNCHANGED <<pool, msgCh, errAt, free>> /\ UNCH1

\* timer.C; with errAt # 0 the timer only starts again
G1Timer ==
  /\ pc1 = "select" /\ errAt = 0
  /\ st.batchNum < MaxBatch
  /\ batchNum' = st.batchNum + 1
  /\ pc1' = "get"
  /\ UNCHANGED <<prover1, batch1, st, statL1, selDB, bbDB, mutex>>
  /\ UNCHANGED <<pool, msgCh, errAt, free>> /\ UNCH1

\* mutant: waits for a prover also when the pipeline is cancelled
G1Get_NoDone ==
  /\ pc1 = "get"
  /\ \E p \in free :
       /\ free' = free \ {p}
       /\ IF ctx = "done" THEN pc1' = "revert" /\ prover1' = prover1
                          ELSE pc1' = "forge"  /\ prover1' = p
  /\ UNCHANGED <<batch1, batchNum, st, statL1, selDB, bbDB, mutex>>
  /\ UNCHANGED <<pool, msgCh, errAt>> /\ UNCH1

\* proversPool.Get
G1Get ==
  /\ pc1 = "get"
  /\ \/ /\ ctx = "done"
        /\ pc1' = "revert"
        /\ UNCHANGED <<prover1, free>>
     \/ \E p \in free :
          /\ free' = free \ {p}
          /\ IF ctx = "done" THEN pc1' = "revert" /\ prover1' = prover1
                             ELSE pc1' = "forge"  /\ prover1' = p
  /\ UNCHANGED <<batch1, batchNum, st, statL1, selDB, bbDB, mutex>>
  /\ UNCHANGED <<pool, msgCh, errAt>> /\ UNCH1

\* mutant: a skipped or failed batch keeps its prover
GiveBack_Never(place) ==
  /\ pc1' = place
  /\ prover1' = NoProver
  /\ UNCHANGED free

\* the prover goes back to the pool; the caller reverts without telling anyone
GiveBack(place) ==
  /\ pc1' = place
  /\ prover1' = NoProver
  /\ free' = IF ctx = "done" THEN free ELSE free \cup {prover1}

Skip == GiveBack("revert") /\ UNCHANGED errAt
\* mutant: the error is noted but the Coordinator is not told
Fail_NoMessage ==
  IF ctx = "done"
  THEN Skip
  ELSE GiveBack("revert") /\ errAt' = batchNum
Fail ==
  IF ctx = "done"
  THEN Skip
  ELSE GiveBack("msg") /\ errAt' = batchNum

LastL1BatchSynced == st.lastL1 = statL1

\* txSelector.Reset(batchNum-1)
\* mutant: a skipped batch leaves its checkpoint in the TxSelector
SelectorNotReset(db) == db
ResetSelector(db) == Local(db, batchNum - 1)

\* InvalidateMaybe and PurgeMaybe, that work every so many batches or blocks
AfterPurger(invalidate, purge) ==
  LET p == IF invalidate THEN InvalidateOldNonces(pool, AccNonce(selDB.cur), batchNum)
                         ELSE pool
  IN  IF purge THEN Purge(p, batchNum) ELSE p

Select(ids, l1) ==
  /\ batch1' = [num |-> batchNum, prover |-> prover1, txs |-> ids, l1 |-> l1,
                base |-> bbDB.cur]
  /\ selDB' = MakeCheckpoint(selDB, [txs |-> ids, l1 |-> l1])
  /\ mutex' = TRUE
  /\ pc1' = "build"
  /\ UNCHANGED <<prover1, free, errAt>>

\* forgePolicySkipPostSelection
SkipSelected(ids, l1) ==
  /\ selDB' = ResetSelector(MakeCheckpoint(selDB, [txs |-> ids, l1 |-> l1]))
  /\ Skip
  /\ UNCHANGED <<batch1, mutex>>

\* forgePolicySkipPreSelection, errLastL1BatchNotSynced, or an error of a database
NotSelected == (Skip \/ Fail) /\ UNCHANGED <<batch1, selDB, mutex>>

\* forgeBatch up to forgePolicySkipPostSelection
G1Select ==
  /\ pc1 = "forge" /\ ~mutex
  /\ \E invalidate, purge \in BOOLEAN : pool' = AfterPurger(invalidate, purge)
  /\ \/ NotSelected
     \/ \E ids \in Selection(pool', selDB.cur), l1 \in BOOLEAN :
          /\ l1 => LastL1BatchSynced
          /\ Select(ids, l1) \/ SkipSelected(ids, l1)
  /\ UNCHANGED <<batchNum, st, statL1, bbDB, msgCh>> /\ UNCH1

\* mutant: lastForgeL1TxsNum does not advance
NotCounted == 0
L1Forged == IF batch1.l1 THEN 1 ELSE 0

Marked == InvalidateOldNonces(StartForging(pool, batch1.txs, batchNum),
                              IdxsNonce(batch1.txs), batchNum)

\* BuildBatch; when the pipeline was cancelled meanwhile the batch is dropped
Build ==
  /\ pool' = Marked
  /\ built' = built \cup {[num |-> batchNum, txs |-> batch1.txs]}
  /\ bbDB' = MakeCheckpoint(bbDB, [txs |-> batch1.txs, l1 |-> batch1.l1])
  /\ IF ctx = "done" THEN Skip /\ batch1' = NoBatch
     ELSE pc1' = "prove" /\ UNCHANGED <<batch1, prover1, free, errAt>>

\* an error, before or after the pool is updated
BuildFails ==
  /\ pool' \in {pool, Marked}
  /\ Fail
  /\ batch1' = NoBatch
  /\ UNCHANGED <<bbDB, built>>

\* the rest of forgeBatch
G1Build ==
  /\ pc1 = "build"
  /\ mutex' = FALSE
  /\ st' = [st EXCEPT !.lastL1 = @ + L1Forged]
  /\ Build \/ BuildFails
  /\ UNCHANGED <<batchNum, statL1, selDB, msgCh>> /\ UNCHLine

\* mutant: the prover is given back as soon as the proof has started
G1Prove_GivesBack ==
  /\ pc1 = "prove"
  /\ \/ /\ ctx # "done"
        /\ st' = [st EXCEPT !.batchNum = batchNum]
        /\ GiveBack("send")
        /\ UNCHANGED <<batch1, errAt>>
     \/ /\ Fail
        /\ batch1' = NoBatch
        /\ UNCHANGED st
  /\ UNCHANGED <<batchNum, statL1, selDB, bbDB, mutex>>
  /\ UNCHANGED <<pool, msgCh>> /\ UNCH1

\* sendServerProof: CalculateProof
G1Prove ==
  /\ pc1 = "prove"
  /\ \/ /\ ctx # "done"
        /\ st' = [st EXCEPT !.batchNum = batchNum]
        /\ pc1' = "send" /\ prover1' = NoProver
        /\ UNCHANGED <<batch1, free, errAt>>
     \/ /\ Fail
        /\ batch1' = NoBatch
        /\ UNCHANGED st
  /\ UNCHANGED <<batchNum, statL1, selDB, bbDB, mutex>>
  /\ UNCHANGED <<pool, msgCh>> /\ UNCH1

\* coord.SendMsg(MsgStopPipeline)
G1Msg ==
  /\ pc1 = "msg"
  /\ \/ Len(msgCh) < QueueLen /\ msgCh' = Append(msgCh, batchNum)
     \/ ctx = "done" /\ UNCHANGED msgCh
  /\ pc1' = "revert"
  /\ UNCHANGED <<prover1, batch1, batchNum, st, statL1, selDB, bbDB, mutex>>
  /\ UNCHANGED <<pool, errAt, free>> /\ UNCH1

\* revertPoolChanges(batchNum)
G1Revert ==
  /\ pc1 = "revert"
  /\ pool' = Reorg(pool, batchNum - 1)
  /\ pc1' = "select"
  /\ UNCHANGED <<prover1, batch1, batchNum, st, statL1, selDB, bbDB, mutex>>
  /\ UNCHANGED <<msgCh, errAt, free>> /\ UNCH1

\* batchChSentServerProof <- batchInfo
G1Send ==
  /\ pc1 = "send"
  /\ \/ ch = <<>> /\ ch' = Append(ch, batch1)
     \/ ctx = "done" /\ UNCHANGED ch
  /\ pc1' = "select" /\ batch1' = NoBatch
  /\ UNCHANGED <<prover1, batchNum, st, statL1, selDB, bbDB, mutex>>
  /\ UNCHANGED <<pool, msgCh, errAt, free, coordVars, envVars, ctx, g2Vars, batchCh, histVars>>

G1Done ==
  /\ pc1 = "select" /\ ctx = "done"
  /\ pc1' = "done"
  /\ UNCHANGED <<prover1, batch1, batchNum, st, statL1, selDB, bbDB, mutex>>
  /\ UNCHANGED <<pool, msgCh, errAt, free>> /\ UNCH1

ForgeLoop == \/ G1Stats \/ G1Timer \/ G1Get \/ G1Select \/ G1Build \/ G1Prove
             \/ G1Msg \/ G1Revert \/ G1Send \/ G1Done

-----------------------------------------------------------------------------
(* Proof goroutine *)

UNCH2 == UNCHANGED <<coordVars, envVars, g1Vars, ctx, histVars>>

\* mutant: a batch that follows a failed one is not dropped
G2Recv_Always ==
  /\ pc2 = "select" /\ ch # <<>>
  /\ batch2' = Head(ch) /\ ch' = <<>>
  /\ pc2' = "wait"
  /\ UNCHANGED <<pool, msgCh, errAt, free, batchCh, out>> /\ UNCH2

\* with errAt # 0 the batch is dropped and its prover is not given back
G2Recv ==
  /\ pc2 = "select" /\ ch # <<>>
  /\ batch2' = Head(ch) /\ ch' = <<>>
  /\ pc2' = IF errAt # 0 THEN "revert" ELSE "wait"
  /\ UNCHANGED <<pool, msgCh, errAt, free, batchCh, out>> /\ UNCH2

\* waitServerProof
G2Wait ==
  /\ pc2 = "wait"
  /\ \/ ctx = "done" /\ pc2' = "revert" /\ UNCHANGED errAt
     \/ ctx # "done" /\ pc2' = "add" /\ UNCHANGED errAt
     \/ ctx # "done" /\ pc2' = "msg" /\ errAt' = batch2.num
  /\ UNCHANGED <<pool, msgCh, free, ch, batchCh, batch2, out>> /\ UNCH2

G2Msg ==
  /\ pc2 = "msg"
  /\ \/ Len(msgCh) < QueueLen /\ msgCh' = Append(msgCh, batch2.num)
     \/ ctx = "done" /\ UNCHANGED msgCh
  /\ pc2' = "revert"
  /\ UNCHANGED <<pool, errAt, free, ch, batchCh, batch2, out>> /\ UNCH2

\* revertPoolChanges(batchNum), with the variable of the forge goroutine
G2Revert ==
  /\ pc2 = "revert"
  /\ pool' = Reorg(pool, batchNum - 1)
  /\ pc2' = "select" /\ batch2' = NoBatch
  /\ UNCHANGED <<msgCh, errAt, free, ch, batchCh, out>> /\ UNCH2

\* proversPool.Add
G2Add ==
  /\ pc2 = "add"
  /\ \/ free' = free \cup {batch2.prover}
     \/ ctx = "done" /\ UNCHANGED free
  /\ pc2' = "deliver"
  /\ UNCHANGED <<pool, msgCh, errAt, ch, batchCh, batch2, out>> /\ UNCH2

\* txManager.AddBatch
G2Deliver ==
  /\ pc2 = "deliver"
  /\ \/ /\ Len(batchCh) < QueueLen
        /\ batchCh' = Append(batchCh, batch2)
        /\ out' = Root(batch2)
     \/ ctx = "done" /\ UNCHANGED <<batchCh, out>>
  /\ pc2' = "select" /\ batch2' = NoBatch
  /\ UNCHANGED <<pool, msgCh, errAt, free, ch>> /\ UNCH2

G2Done ==
  /\ pc2 = "select" /\ ctx = "done"
  /\ pc2' = "done"
  /\ UNCHANGED <<pool, msgCh, errAt, free, ch, batchCh, batch2, out>> /\ UNCH2

ProofLoop == \/ G2Recv \/ G2Wait \/ G2Msg \/ G2Revert \/ G2Add \/ G2Deliver \/ G2Done

-----------------------------------------------------------------------------
(* Coordinator goroutine.  It reads the stats of the last synced block: here
   they are never behind the chain. *)

LastBatch == Len(chain)

\* SetSyncStatsVars and DiscardPipeline wait until the TxManager and the pipeline
\* take what they are sent, for ever when those wait for the Coordinator
CoTell ==
  /\ coord = "idle" /\ coord' = "tell"
  /\ UNCHANGED <<stopAt, lastNonFailed, num, ctx, msgCh, pool, envVars, g1Vars, g2Vars,
                 errAt, free, ch, batchCh, histVars>>

CoTold ==
  /\ coord = "tell" /\ coord' = "idle"
  /\ UNCHANGED <<stopAt, lastNonFailed, num, ctx, msgCh, pool, envVars, g1Vars, g2Vars,
                 errAt, free, ch, batchCh, histVars>>

\* handleStopPipeline up to Pipeline.Stop; without pipeline all of it
CoMsg ==
  /\ coord = "idle" /\ msgCh # <<>>
  /\ msgCh' = Tail(msgCh)
  /\ LET failed == Head(msgCh)
         back   == IF failed # 0 THEN failed - 1 ELSE LastBatch
     IN  IF ctx = "none"
         THEN /\ pool' = Reorg(pool, back)
              /\ lastNonFailed' = back
              /\ UNCHANGED <<coord, stopAt, ctx>>
         ELSE /\ coord' = "stop" /\ stopAt' = back /\ ctx' = "done"
              /\ UNCHANGED <<pool, lastNonFailed>>
  /\ UNCHANGED <<num, envVars, g1Vars, g2Vars, errAt, free, ch, batchCh, histVars>>

\* syncStats when the slot of this coordinator ends
CoSlotEnd ==
  /\ coord = "idle" /\ ctx = "run"
  /\ coord' = "stop" /\ stopAt' = NULL /\ ctx' = "done"
  /\ UNCHANGED <<num, lastNonFailed, msgCh, pool, envVars, g1Vars, g2Vars, errAt, free,
                 ch, batchCh, histVars>>

\* what the object had goes with it
DropPipeline ==
  /\ ctx' = "none"
  /\ st' = [batchNum |-> 0, lastL1 |-> 0] /\ statL1' = 0 /\ batchNum' = 0 /\ errAt' = 0
  /\ free' = {} /\ ch' = <<>>
  /\ out' = <<>> /\ from' = [own |-> <<>>, synced |-> <<>>] /\ disturbed' = {}

\* both goroutines are done: p.wg.Wait returns, and the provers are told to cancel
CoStopped ==
  /\ coord = "stop" /\ pc1 = "done" /\ pc2 = "done"
  /\ coord' = "idle" /\ stopAt' = NULL
  /\ DropPipeline
  /\ IF stopAt = NULL THEN UNCHANGED <<pool, lastNonFailed>>
     ELSE pool' = Reorg(pool, stopAt) /\ lastNonFailed' = stopAt
  /\ UNCHANGED <<num, msgCh, envVars, selDB, bbDB, mutex, pc1, prover1, batch1, pc2, batch2,
                 batchCh, built>>

FromBatch == IF lastNonFailed > LastBatch THEN lastNonFailed ELSE LastBatch

CanStart == coord = "idle" /\ ctx = "none" /\ num < MaxPipelines

\* the synchronizer has a checkpoint of n too
CanReset(db, n) == n = 0 \/ HasCheckpoint(db, n) \/ n <= LastBatch
\* mutant: the local checkpoint is there, but the database is not reset to it
ResetDB_Open(db, n) ==
  IF n = 0 \/ HasCheckpoint(db, n) THEN db ELSE FromSynchronizer(SubSeq(chain, 1, n))
ResetDB(db, n) ==
  IF n = 0 \/ HasCheckpoint(db, n) THEN Local(db, n) ELSE FromSynchronizer(SubSeq(chain, 1, n))

\* Pipeline.reset of the two databases: the root of batch n, when it is synced,
\* is compared with the one of the BatchBuilder only
Reset(n) ==
  LET same == n > LastBatch \/ n = 0 \/ ResetDB(bbDB, n).cur = SubSeq(chain, 1, n)
  IN  /\ selDB' = IF same THEN ResetDB(selDB, n) ELSE FromSynchronizer(SubSeq(chain, 1, n))
      /\ bbDB'  = IF same THEN ResetDB(bbDB, n)  ELSE FromSynchronizer(SubSeq(chain, 1, n))

\* syncStats: l2DB.Reorg, NewPipeline with the provers that are ready, Pipeline.Start
CoStart ==
  /\ CanStart
  /\ LET n == FromBatch
     IN  /\ CanReset(selDB, n) /\ CanReset(bbDB, n)
         /\ Reset(n)
         /\ pool' = Reorg(pool, n)
         /\ batchNum' = n /\ out' = bbDB'.cur
         /\ from' = [own |-> bbDB'.cur, synced |-> chain] /\ disturbed' = {}
         /\ st' = [batchNum |-> n, lastL1 |-> L1Count(chain)]
         /\ statL1' = L1Count(chain)
  /\ \E ready \in SUBSET Provers \ {{}} : free' = ready
  /\ num' = num + 1 /\ ctx' = "run" /\ errAt' = 0
  /\ pc1' = "select" /\ prover1' = NoProver /\ batch1' = NoBatch
  /\ ch' = <<>>
  /\ pc2' = "select" /\ batch2' = NoBatch
  /\ UNCHANGED <<coord, stopAt, lastNonFailed, mutex, envVars, msgCh, batchCh, built>>

\* no prover is ready, or Pipeline.Start fails: it is tried again.  A reset from a
\* checkpoint that the synchronizer does not have yet leaves the database closed.
CoStartFail ==
  /\ CanStart
  /\ LET n == FromBatch
     IN  /\ pool' = Reorg(pool, n)
         /\ \/ UNCHANGED <<selDB, bbDB>>
            \/ ~CanReset(selDB, n) /\ selDB' = Closed /\ UNCHANGED bbDB
            \/ /\ CanReset(selDB, n) /\ ~CanReset(bbDB, n)
               /\ selDB' = ResetDB(selDB, n) /\ bbDB' = Closed
  /\ UNCHANGED <<coordVars, envVars, msgCh, ctx, errAt, free, ch, batchCh, g2Vars,
                 pc1, prover1, batch1, batchNum, st, statL1, mutex, histVars>>

CoordinatorLoop == CoTell \/ CoTold \/ CoMsg \/ CoSlotEnd \/ CoStopped \/ CoStart \/ CoStartFail

-----------------------------------------------------------------------------
(* The others *)

UNCHEnv == UNCHANGED <<coordVars, g1Vars, g2Vars, ctx, errAt, free, ch, from, built>>

\* rows that DoneForging gives the number of an older batch with the same transactions
Overtaken(b) == {t \in b.txs \cap InState(pool, {Forging}) : pool[t].batch # b.num}

\* TxManager: sendRollupForgeBatch ends with DoneForging.  shouldSend or the sending
\* may fail, also after the transaction has left; MsgStopPipeline has then batch 0.
TxManagerTake ==
  /\ batchCh # <<>> /\ batchCh' = Tail(batchCh)
  /\ LET b == Head(batchCh)
     IN  \/ /\ sent' = sent \cup {b}
            /\ pool' = DoneForging(pool, b.txs, b.num)
            /\ disturbed' = disturbed \cup Overtaken(b)
            /\ UNCHANGED msgCh
         \/ /\ Len(msgCh) < QueueLen
            /\ msgCh' = Append(msgCh, 0)
            /\ sent' \in {sent, sent \cup {b}}
            /\ UNCHANGED <<pool, disturbed>>
  /\ UNCHANGED chain /\ UNCHEnv

\* TxManager: the receipt says failed, cannot be had, or a resend fails
TxManagerStop ==
  /\ Len(msgCh) < QueueLen
  /\ \E b \in sent : sent' \in {sent, sent \ {b}}
  /\ msgCh' = Append(msgCh, 0)
  /\ UNCHANGED <<pool, chain, batchCh, disturbed>> /\ UNCHEnv

\* the contract takes a batch only on its own state; older ones fail for good
Mine == \E b \in sent :
  /\ b.base = chain
  /\ chain' = Root(b)
  /\ sent' = {c \in sent : Len(c.base) > Len(chain)}
  /\ UNCHANGED <<pool, msgCh, batchCh, disturbed>> /\ UNCHEnv

\* another process sets tx_pool.external_delete
MarkExternalDelete == \E t \in DOMAIN pool :
  /\ pool[t].state = Pending /\ ~pool[t].extDelete
  /\ pool' = [pool EXCEPT ![t].extDelete = TRUE]
  /\ UNCHANGED <<msgCh, envVars, batchCh, disturbed>> /\ UNCHEnv

\* mutant: the purger does not take mutexL2DBUpdateDelete
ExternalDeletePurger_NoLock ==
  /\ pool' = PurgeByExternalDelete(pool)
  /\ UNCHANGED <<msgCh, envVars, batchCh, disturbed>> /\ UNCHEnv

ExternalDeletePurger ==
  /\ ~mutex
  /\ pool' = PurgeByExternalDelete(pool)
  /\ UNCHANGED <<msgCh, envVars, batchCh, disturbed>> /\ UNCHEnv

\* the API: putPoolTxByIdxAndNonce, that takes no lock
Replace == \E t \in TxIDs \ Atomic :
  /\ AccNonce(chain)[FromIdx[t]] <= Nonce[t]
  /\ CanReplaceTx(pool, t)
  /\ pool' = ReplaceTx(pool, t, 0)
  /\ disturbed' = disturbed \cup ({t} \cap TxsOf(bbDB.cur))
  /\ UNCHANGED <<msgCh, envVars, batchCh>> /\ UNCHEnv

Others == \/ TxManagerTake \/ TxManagerStop \/ Mine
          \/ MarkExternalDelete \/ ExternalDeletePurger \/ Replace

Next == ForgeLoop \/ ProofLoop \/ CoordinatorLoop \/ Others

Spec == Init /\ [][Next]_vars

(* The goroutines of the pipeline go on when they can.  Nothing is assumed of the
   provers (a proof, and in Stop its cancellation, may take for ever), of the
   TxManager, and of how long the Coordinator waits for it.  Go's select takes one
   of the cases that are ready at random, hence the strong fairness of ctx.Done, and
   of msgCh: a Coordinator that always comes back to its select takes it some time. *)
Fairness ==
  /\ WF_vars(G1Get \/ G1Select \/ G1Build \/ G1Prove \/ G1Msg \/ G1Revert \/ G1Send)
  /\ WF_vars(G2Msg \/ G2Revert \/ G2Add \/ G2Deliver)
  /\ WF_vars(ctx = "done" /\ G2Wait)
  /\ SF_vars(G1Done) /\ SF_vars(G2Done)
  /\ SF_vars(CoMsg)

FairSpec == Spec /\ Fairness

-----------------------------------------------------------------------------
Places1 == {"select", "get", "forge", "build", "prove", "msg", "revert", "send", "done"}
Places2 == {"select", "wait", "msg", "revert", "add", "deliver", "done"}

TypeOK ==
  /\ IsPool(pool)
  /\ mutex \in BOOLEAN
  /\ chain \in Seq(Entry) /\ \A b \in sent : b \in BatchInfo
  /\ coord \in {"idle", "tell", "stop"} /\ stopAt \in Nat \cup {NULL} /\ lastNonFailed \in Nat
  /\ msgCh \in Seq(Nat)
  /\ num \in Nat /\ ctx \in {"none", "run", "done"}
  /\ st \in [batchNum : Nat, lastL1 : Nat] /\ statL1 \in Nat
  /\ batchNum \in Nat /\ errAt \in Nat
  /\ selDB.cur \in Seq(Entry) /\ bbDB.cur \in Seq(Entry)
  /\ \A r \in selDB.cks \cup bbDB.cks : r \in Seq(Entry)
  /\ free \subseteq Provers
  /\ pc1 \in Places1 /\ prover1 \in Provers \cup {NoProver}
  /\ batch1 \in IF pc1 \in {"build", "prove", "send"} THEN BatchInfo ELSE {NoBatch}
  /\ ch \in Seq(BatchInfo) /\ Len(ch) <= 1
  /\ pc2 \in Places2
  /\ batch2 \in IF pc2 \in {"select", "done"} THEN {NoBatch} ELSE BatchInfo
  /\ batchCh \in Seq(BatchInfo) /\ out \in Seq(Entry)
  /\ from \in [own : Seq(Entry), synced : Seq(Entry)]
  /\ built \subseteq [num : Nat \ {0}, txs : SUBSET TxIDs] /\ disturbed \subseteq TxIDs

Running == ctx = "run" /\ errAt = 0

-----------------------------------------------------------------------------
(* Provers *)

\* the provers that compute a proof, or are about to, or have just done it
Busy == [forge |-> prover1,
         sending |-> IF pc1 = "send" THEN batch1.prover ELSE NoProver,
         queued |-> IF ch # <<>> THEN Head(ch).prover ELSE NoProver,
         waiting |-> IF pc2 \in {"wait", "add"} THEN batch2.prover ELSE NoProver]

(* A proof server computes one proof at a time: no prover is held by two batches,
   or by a batch while it is in the pool for another one to take. *)
OneProofEach ==
  /\ \A i, j \in DOMAIN Busy : i # j /\ Busy[i] # NoProver => Busy[i] # Busy[j]
  /\ \A i \in DOMAIN Busy : Busy[i] \notin free

(* No prover is lost: as long as nothing has failed, each one the pipeline was
   started with is in the pool or at work (skipped batches included, which take a
   prover and give it back). *)
ProversInUse == (free \cup {Busy[i] : i \in DOMAIN Busy}) \ {NoProver}
NoProverLost == [][ctx = "run" /\ ctx' = "run" /\ errAt' = 0 => ProversInUse' = ProversInUse]_vars

-----------------------------------------------------------------------------
(* The line of batches *)

(* Each batch handed to the TxManager is built on the state that the one handed
   over before it leads to: after a failure at one end of the pipeline nothing
   that was already in it gets out behind the gap. *)
DeliveredInOrder ==
  [][batchCh' # batchCh /\ Len(batchCh') >= Len(batchCh)
     => batchCh'[Len(batchCh')].base = out]_vars

(* The number the forge goroutine counts is the one of the states that TxSelector
   and BatchBuilder are at, after skipped batches and restarts from any checkpoint
   too; batches get their number from the first and their content from the others. *)
InStep ==
  Running /\ pc1 = "select" => /\ Len(selDB.cur) = st.batchNum
                               /\ Len(bbDB.cur) = st.batchNum

(* The queue of L1 transactions a batch takes is the next one after those its own
   state already contains, and at most one L1 batch is ahead of what is synced.
   batch1 takes queue number st.lastL1 once it is built.
   Only a pipeline that starts from batches of its own that are not synced yet counts
   wrong, and by exactly the L1 batches among those (syncStats gives it the number of
   the synchronizer): their queues are taken again. *)
Ahead == L1Count(from.own) - L1Count(from.synced)
L1QueueInOrder ==
  /\ pc1 = "prove" /\ batch1.l1 => st.lastL1 + Ahead = L1Count(Root(batch1))
  /\ Running => L1Count(bbDB.cur) <= L1Count(chain) + 1 + Ahead

(* The pool tells what the state of the pipeline contains: none of it is offered to
   the selector again, and no row stays marked without being in a batch.  The
   exceptions are the rows that the API has put back under the pipeline or that
   DoneForging of an older batch has given its number, and the rows of a number that
   was given to two batches: a row keeps no more than the number. *)
Reused(n) == \E a, b \in built : a.num = n /\ b.num = n /\ a.txs # b.txs
TxsSince(n, root) == UNION {root[i].txs : i \in {j \in DOMAIN root : j > n}}
MarkedRows(p) == InState(p, {Forging, Forged})
MarksTell ==
  Running /\ pc1 = "select" =>
    /\ \A t \in MarkedRows(pool) \ disturbed : t \in TxsOf(bbDB.cur) \/ Reused(pool[t].batch)
    /\ (TxsSince(Len(from.own), bbDB.cur) \cap DOMAIN pool) \ disturbed \subseteq MarkedRows(pool)

(* What a batch takes, from the queues of the contract and from the pool, is what
   the batches below it have left there. *)
TakesWhatIsLeft == L1QueueInOrder /\ MarksTell

(* Comment of mutexL2DBUpdateDelete: a transaction that was just selected is not
   deleted because of external_delete.  (The API can replace it: no lock.) *)
SelectedStays ==
  [][pc1 = "build" => \A t \in batch1.txs \cap DOMAIN pool :
       \/ t \in DOMAIN pool'
       \/ \E u \in DOMAIN pool' : FromIdx[u] = FromIdx[t] /\ Nonce[u] = Nonce[t]]_vars

(* A failure stops the pipeline, unless the Coordinator waits for the TxManager for
   ever (module Coordinator: a circle of full channels), and the goroutines of a
   pipeline that is stopped end, whatever the provers and the TxManager do and however
   full the channels are. *)
FailureStops == []<>(coord # "tell") => (errAt # 0 /\ ctx = "run" ~> ctx # "run")
StopEnds == ctx = "done" ~> pc1 = "done" /\ pc2 = "done"
Stops == FailureStops /\ StopEnds

-----------------------------------------------------------------------------
(* What comments of the code say *)

(* revertPoolChanges "will undo changes made to the pool while trying to forge
   failedBatch": also when it is the proof of the batch that fails. *)
FailedIsUndone ==
  [][pc2 = "revert" /\ pc2' = "select" =>
       \A t \in batch2.txs \cap DOMAIN pool' : pool'[t].state = Pending]_vars

=============================================================================
