------------------------------ MODULE TxManager ------------------------------
(* TxManager (coordinator/txmanager.go): sends the batches that the pipeline
   delivers, looks for their receipts, sends them again, forgets them when they
   are confirmed, and drops those of discarded pipelines.  Around it the
   Ethereum node with its mempool, a chain that forks, another coordinator,
   and the pipelines and the Coordinator as far as they talk to it.

   A batch is known by the state root it leads to, the sequence of the pipelines
   that built the batches before it and itself (0: the other coordinator).  Versions
   of a transaction that differ in the gas price are one transaction: at most one
   of them can be mined, and the receipts of all are asked for.  The auction
   decides alone whether a batch may be sent. *)
EXTENDS Integers, SequencesExt, FiniteSetsExt, Functions

CONSTANTS
  ConfirmBlocks,    \* cfg.ConfirmBlocks
  EthNoReuseNonce,  \* cfg.EthNoReuseNonce
  MaxBatches,       \* bound on the batches delivered
  MaxPipelines,     \* bound on the pipelines started
  MaxHeight,        \* bound on the blocks that are not made of our transactions
  MaxOthers,        \* bound on the batches of the other coordinator
  MaxTroubles       \* bound on the forks, the transactions that the mempool forgets,
                    \* and the calls that fail, together

ASSUME TxManagerAssumption ==
  /\ ConfirmBlocks \in Nat /\ EthNoReuseNonce \in BOOLEAN
  /\ MaxBatches \in Nat /\ MaxPipelines \in Nat /\ MaxHeight \in Nat
  /\ MaxOthers \in Nat /\ MaxTroubles \in Nat

VARIABLES
  chain,      \* blocks: tx is ours or NoTx, root is the state of the contract after it,
              \* ok is the status in the receipt of tx
  mempool,    \* nonce -> pending transaction of our account
  dropped,    \* nonces that the mempool has forgotten
  seen,       \* stats.Eth.LastBlock.Num
  pl,         \* Coordinator.pipelineNum
  running,    \* Coordinator.pipeline # nil
  last,       \* root of the last batch delivered
  reorgCh,    \* MsgSyncReorg on their way: root of the last batch before the fork
  stops,      \* number of MsgStopPipeline on their way
  batchCh,    \* TxManager.batchCh
  discardCh,  \* TxManager.discardPipelineCh
  minPl,      \* TxManager.minPipelineNum
  queue,      \* TxManager.queue.list
  next,       \* TxManager.queue.next, from 1
  nextNonce,  \* TxManager.accNextNonce
  pc,         \* "loop", "resend", or "scan" (inside removeBadBatchInfos)
  pos,        \* position in the queue of the resend or of the scan
  why,        \* what the scan is for: "discard" or "reject"
  scanned,    \* history: the scan has removed a rejected batch
  silent,     \* history: a rejected batch was removed and the Coordinator not told, or
              \* a fork has undone a block that the TxManager took for confirmed
  delivered,  \* number of batches delivered
  troubles        \* number of forks, drops and failures so far

envVars  == <<chain, mempool, dropped>>
coVars   == <<pl, running, last, reorgCh, delivered>>
chVars   == <<batchCh, discardCh>>
scanVars == <<pos, why, scanned, silent>>
tmVars   == <<minPl, queue, next, nextNonce, pc, scanVars>>
vars     == <<envVars, seen, coVars, stops, chVars, tmVars, troubles>>

None == [block |-> 0, ok |-> FALSE]
NoTx == [root |-> <<>>, nonce |-> -1]

AccNonce == Cardinality({b \in DOMAIN chain : chain[b].tx # NoTx})
IsOurs(root) == root # <<>> /\ Last(root) # 0
RootAt(c) == IF c = <<>> THEN <<>> ELSE Last(c).root

Init ==
  /\ chain = <<>> /\ mempool = <<>> /\ dropped = {} /\ seen = 0
  /\ pl = 0 /\ running = FALSE /\ last = <<>> /\ reorgCh = <<>> /\ stops = 0
  /\ batchCh = <<>> /\ discardCh = <<>>
  /\ minPl = 0 /\ queue = <<>> /\ next = 1 /\ nextNonce = 0
  /\ pc = "loop" /\ pos = 1 /\ why = "discard" /\ scanned = FALSE /\ silent = FALSE
  /\ delivered = 0 /\ troubles = 0

Trouble == troubles < MaxTroubles /\ troubles' = troubles + 1
Works   == UNCHANGED troubles
Tell  == stops' = stops + 1

-----------------------------------------------------------------------------
(* The chain, the mempool and the other coordinator. *)
AddBlock(tx, root, ok) ==
  /\ chain' = Append(chain, [tx |-> tx, root |-> root, ok |-> ok])
  /\ UNCHANGED <<dropped, seen, coVars, stops, chVars, tmVars, troubles>>

(* forgeBatch of the contract fails when the batch does not start from its root: also
   when the batch was mined before and this is the same one with another nonce *)
Mine ==
  LET tx == mempool[AccNonce]
      ok == Front(tx.root) = RootAt(chain)
  IN
  /\ AccNonce \in DOMAIN mempool
  /\ AddBlock(tx, IF ok THEN tx.root ELSE RootAt(chain), ok)
  /\ mempool' = Restrict(mempool, DOMAIN mempool \ {AccNonce})

MineOther ==
  /\ Len(chain) < MaxHeight
  /\ Len(SelectSeq(RootAt(chain), LAMBDA p : p = 0)) < MaxOthers
  /\ AddBlock(NoTx, Append(RootAt(chain), 0), TRUE)
  /\ UNCHANGED mempool

MineEmpty ==
  /\ Len(chain) < MaxHeight
  /\ AddBlock(NoTx, RootAt(chain), TRUE)
  /\ UNCHANGED mempool

(* The fork that wins is longer; our transactions return to the mempool. *)
Reorg ==
  \E k \in 0..Len(chain) - 1 :
    LET back   == {b \in k+1..Len(chain) : chain[b].tx # NoTx}
        nonces == {chain[b].tx.nonce : b \in back}
        kept   == SubSeq(chain, 1, k)
        empty  == [tx |-> NoTx, root |-> RootAt(kept), ok |-> TRUE]
    IN
    /\ Len(chain) < MaxHeight
    /\ Trouble
    /\ chain' = kept \o [i \in 1..Len(chain) + 1 - k |-> empty]
    /\ mempool' = [n \in DOMAIN mempool \cup nonces |->
                     IF n \in nonces THEN chain[CHOOSE b \in back : chain[b].tx.nonce = n].tx
                                     ELSE mempool[n]]
    /\ reorgCh' = Append(reorgCh, RootAt(kept))
    /\ silent' = (silent \/ \E b \in back : seen - b >= ConfirmBlocks)
    /\ UNCHANGED <<dropped, seen, pl, running, last, delivered, stops, chVars, minPl, queue, next,
                   nextNonce, pc, pos, why, scanned>>

Drop ==
  \E n \in DOMAIN mempool :
    /\ Trouble
    /\ mempool' = Restrict(mempool, DOMAIN mempool \ {n})
    /\ dropped' = dropped \cup {n}
    /\ UNCHANGED <<chain, seen, coVars, stops, chVars, tmVars>>

-----------------------------------------------------------------------------
(* The pipelines and the Coordinator. *)

(* Pipeline.Start from the last batch synced, or from the last local one.  The
   pipeline before may have stopped at the end of a slot or on a failure of its
   own, after any of its batches. *)
StartPipeline ==
  /\ pl < MaxPipelines
  /\ pl' = pl + 1 /\ running' = TRUE
  /\ last' \in {last, RootAt(chain)}
  /\ UNCHANGED <<envVars, seen, reorgCh, delivered, stops, chVars, tmVars, troubles>>

(* AddBatch *)
Deliver ==
  /\ running /\ delivered < MaxBatches
  /\ last' = Append(last, pl)
  /\ batchCh' = Append(batchCh, [root |-> last', pl |-> pl])
  /\ delivered' = delivered + 1
  /\ UNCHANGED <<envVars, seen, pl, running, reorgCh, stops, discardCh, tmVars, troubles>>

(* handleStopPipeline: whichever pipeline the message is about, it is the
   current one that stops *)
HandleStop ==
  /\ stops > 0
  /\ stops' = stops - 1
  /\ running' = FALSE
  /\ UNCHANGED <<envVars, seen, pl, last, reorgCh, delivered, chVars, tmVars, troubles>>

(* handleReorg discards the current pipeline, or the last one if there is none.
   It does not when the last batch before the fork is ours, nor when it is the one
   that the pipeline started from. *)
HandleReorg ==
  /\ reorgCh # <<>>
  /\ reorgCh' = Tail(reorgCh)
  /\ \/ UNCHANGED <<running, discardCh>>
     \/ /\ ~IsOurs(Head(reorgCh))
        /\ discardCh' = Append(discardCh, pl)
        /\ running' = FALSE
  /\ UNCHANGED <<envVars, seen, pl, last, delivered, stops, batchCh, tmVars, troubles>>

(* SetSyncStatsVars *)
SetSyncStats ==
  /\ pc = "loop"
  /\ seen' \in seen + 1..Len(chain)
  /\ UNCHANGED <<envVars, coVars, stops, chVars, tmVars, troubles>>

-----------------------------------------------------------------------------
(* The calls to the Ethereum node. *)

FirstFree == CHOOSE n \in AccNonce..AccNonce + Cardinality(DOMAIN mempool) :
               n \notin DOMAIN mempool /\ AccNonce..n - 1 \subseteq DOMAIN mempool

(* The nonces at which sendRollupForgeBatch, starting with nonce n, can succeed:
   "nonce too low" moves it up to the account's, "nonce too high" down to the
   first one that leaves no gap, if the node does not accept gaps.  A transaction
   that is already there is underpriced and replaced with a higher price. *)
Accepted(n) ==
  {Max({n, AccNonce})} \cup (IF n > FirstFree THEN {FirstFree} ELSE {})

Tx(b, n) == [root |-> b.root, nonce |-> n]

Submit(b, n) ==
  /\ mempool' = [m \in DOMAIN mempool \cup {n} |-> IF m = n THEN Tx(b, n) ELSE mempool[m]]
  /\ UNCHANGED <<chain, dropped>>

(* checkEthTransactionReceipt: the receipt of the last transaction that has one *)
Mined(tx) == \E b \in DOMAIN chain : chain[b].tx = tx

Receipt(entry) ==
  LET mined == {j \in DOMAIN entry.txs : Mined(entry.txs[j])}
      b == CHOOSE b \in DOMAIN chain : chain[b].tx = entry.txs[Max(mined)]
  IN IF mined = {} THEN None
     ELSE [block |-> b, ok |-> chain[b].ok]

Pending(r)  == r = None
Rejected(r) == r # None /\ ~r.ok

-----------------------------------------------------------------------------
(* Queue. *)
NextPosition_Stays == next' = next  \* mutant
NextPosition == next' = (next % Len(queue)) + 1

RemoveEntry_NoWrap(position) ==  \* mutant
  /\ queue' = RemoveAt(queue, position)
  /\ next' = position

(* Remove also moves next to the entry after the one that is removed *)
RemoveEntry(position) ==
  /\ queue' = RemoveAt(queue, position)
  /\ next' = IF Len(queue) = 1 THEN 1 ELSE ((position - 1) % (Len(queue) - 1)) + 1

Remember(position, r) == queue' = [queue EXCEPT ![position].receipt = r]

-----------------------------------------------------------------------------
(* Run: case batchInfo := <-t.batchCh.  A batch of a discarded pipeline is only
   logged. *)
TakeBatch(b) ==
  /\ pc = "loop" /\ batchCh # <<>>
  /\ b = Head(batchCh)
  /\ batchCh' = Tail(batchCh)
  /\ UNCHANGED <<seen, coVars, discardCh, minPl, next, pc, scanVars>>

(* shouldSendRollupForgeBatch refuses *)
RefuseBatch(b) ==
  /\ TakeBatch(b)
  /\ Tell /\ Works
  /\ UNCHANGED <<envVars, queue, nextNonce>>

SendBatch(b) ==
  /\ TakeBatch(b)
  /\ \E n \in Accepted(nextNonce) :
       /\ Submit(b, n)
       /\ nextNonce' = n + 1
       /\ queue' = Append(queue, [root |-> b.root, pl |-> b.pl, txs |-> <<Tx(b, n)>>,
                                  auth |-> n, receipt |-> None])
  /\ Works
  /\ UNCHANGED stops

SendFails_Counts(b) ==  \* mutant
  /\ TakeBatch(b)
  /\ Trouble /\ Tell
  /\ nextNonce' = nextNonce + 1
  /\ UNCHANGED <<envVars, queue>>

(* every attempt fails, or the gas price is too high; the node may have the
   transaction all the same *)
SendFails(b) ==
  /\ TakeBatch(b)
  /\ Trouble /\ Tell
  /\ \/ UNCHANGED envVars
     \/ \E n \in Accepted(nextNonce) : Submit(b, n)
  /\ UNCHANGED <<queue, nextNonce>>

(* sent, but DoneForging fails: the batch does not get into the queue *)
SendUnmarked(b) ==
  /\ TakeBatch(b)
  /\ Trouble /\ Tell
  /\ \E n \in Accepted(nextNonce) : Submit(b, n) /\ nextNonce' = n + 1
  /\ UNCHANGED queue

-----------------------------------------------------------------------------
(* Run: case <-timer.C *)
HandleReceipt(r, late) ==
  \/ /\ Rejected(r)
     /\ Remember(next, r) /\ NextPosition
     /\ pc' = "scan" /\ pos' = 1 /\ why' = "reject" /\ scanned' = FALSE
  \/ /\ Pending(r) /\ late /\ ~EthNoReuseNonce
     /\ Remember(next, r) /\ NextPosition
     /\ pc' = "resend" /\ pos' = next
     /\ UNCHANGED <<why, scanned>>
  \/ /\ Pending(r) /\ (~late \/ EthNoReuseNonce)
     /\ Remember(next, r) /\ NextPosition
     /\ UNCHANGED <<pc, pos, why, scanned>>
  \/ /\ ~Pending(r) /\ ~Rejected(r)
     /\ IF seen - r.block >= ConfirmBlocks
        THEN RemoveEntry(next)
        ELSE Remember(next, r) /\ NextPosition
     /\ UNCHANGED <<pc, pos, why, scanned>>

CheckNext_Stale(late) ==  \* mutant
  /\ pc = "loop" /\ queue # <<>>
  /\ HandleReceipt(IF Pending(queue[next].receipt) THEN Receipt(queue[next])
                                                  ELSE queue[next].receipt, late)
  /\ Works
  /\ UNCHANGED <<envVars, seen, coVars, stops, chVars, minPl, nextNonce, silent>>

(* late: EthTxResendTimeout has passed since the transaction was sent *)
CheckNext(late) ==
  /\ pc = "loop" /\ queue # <<>>
  /\ \E r \in {Receipt(queue[next])} : HandleReceipt(r, late)
  /\ Works
  /\ UNCHANGED <<envVars, seen, coVars, stops, chVars, minPl, nextNonce, silent>>

(* the node does not answer: what follows uses the receipt it gave last time *)
CheckNextFails(late) ==
  /\ pc = "loop" /\ queue # <<>>
  /\ Trouble /\ Tell
  /\ HandleReceipt(queue[next].receipt, late)
  /\ UNCHANGED <<envVars, seen, coVars, chVars, minPl, nextNonce, silent>>

(* sendRollupForgeBatch with resend: the nonce is that of the last attempt *)
EndResend ==
  /\ pc = "resend"
  /\ pc' = "loop" /\ pos' = 1
  /\ UNCHANGED <<seen, coVars, chVars, minPl, next, nextNonce, why, scanned, silent>>

Sent(n) ==
  LET tx == Tx(queue[pos], n) IN
  queue' = [queue EXCEPT ![pos].auth = n,
                         ![pos].txs = IF Last(@) = tx THEN @ ELSE Append(@, tx)]

Resend ==
  /\ EndResend
  /\ \E n \in Accepted(queue[pos].auth) : Submit(queue[pos], n) /\ Sent(n)
  /\ Works
  /\ UNCHANGED stops

ResendFails ==
  /\ EndResend
  /\ Trouble /\ Tell
  /\ \/ UNCHANGED <<envVars, queue>>
     \/ \E n \in Accepted(queue[pos].auth) :
          /\ UNCHANGED envVars \/ Submit(queue[pos], n)
          /\ queue' = [queue EXCEPT ![pos].auth = n]
     \/ \E n \in Accepted(queue[pos].auth) : Submit(queue[pos], n) /\ Sent(n)

-----------------------------------------------------------------------------
(* Run: case pipelineNum := <-t.discardPipelineCh *)
TakeDiscard ==
  /\ pc = "loop" /\ discardCh # <<>>
  /\ discardCh' = Tail(discardCh)
  /\ minPl' = Head(discardCh) + 1
  /\ pc' = "scan" /\ pos' = 1 /\ why' = "discard" /\ scanned' = FALSE
  /\ UNCHANGED <<envVars, seen, coVars, stops, batchCh, queue, next, nextNonce, silent, troubles>>

(* removeBadBatchInfos, one entry at a time *)
ScanEntry ==
  LET r == Receipt(queue[pos]) IN
  /\ pc = "scan" /\ pos <= Len(queue)
  /\ \/ /\ Rejected(r)
        /\ minPl' = Max({minPl, queue[pos].pl + 1})
        /\ RemoveEntry(pos)
        /\ scanned' = TRUE
        /\ UNCHANGED pos
     \/ /\ Pending(r) /\ queue[pos].pl < minPl
        /\ RemoveEntry(pos)
        /\ UNCHANGED <<minPl, scanned, pos>>
     \/ /\ ~Rejected(r) /\ (Pending(r) => queue[pos].pl >= minPl)
        /\ Remember(pos, r)
        /\ pos' = pos + 1
        /\ UNCHANGED <<minPl, scanned, next>>
  /\ Works
  /\ UNCHANGED <<envVars, seen, coVars, stops, chVars, nextNonce, pc, why, silent>>

ScanEntryFails ==
  /\ pc = "scan" /\ pos <= Len(queue)
  /\ Trouble
  /\ pos' = pos + 1
  /\ UNCHANGED <<envVars, seen, coVars, stops, chVars, minPl, queue, next, nextNonce, pc,
                 why, scanned, silent>>

EndScan ==
  /\ pc = "scan" /\ pos > Len(queue)
  /\ pc' = "loop" /\ pos' = 1 /\ scanned' = FALSE
  /\ UNCHANGED <<envVars, seen, coVars, chVars, minPl, queue, next, why>>

ReadNonce_Silent ==  \* mutant
  /\ EndScan
  /\ nextNonce' = AccNonce
  /\ Works
  /\ UNCHANGED <<stops, silent>>

ReadNonce ==
  /\ EndScan
  /\ nextNonce' = IF EthNoReuseNonce THEN nextNonce ELSE AccNonce
  /\ IF why = "reject"
     THEN Tell /\ UNCHANGED silent
     ELSE silent' = (silent \/ scanned) /\ UNCHANGED stops
  /\ Works

(* EthNonceAt fails: removeBadBatchInfos returns an error and the message to
   stop the pipeline is not sent *)
ReadNonceFails ==
  /\ EndScan
  /\ Trouble
  /\ silent' = (silent \/ scanned)
  /\ UNCHANGED <<nextNonce, stops>>

-----------------------------------------------------------------------------
TakeAny == batchCh # <<>> /\
  LET b == Head(batchCh) IN RefuseBatch(b) \/ SendBatch(b) \/ SendFails(b) \/ SendUnmarked(b)

Next ==
  \/ Mine \/ MineOther \/ MineEmpty \/ Reorg \/ Drop
  \/ StartPipeline \/ Deliver \/ HandleStop \/ HandleReorg
  \/ SetSyncStats \/ TakeAny \/ TakeDiscard
  \/ \E late \in BOOLEAN : CheckNext(late) \/ CheckNextFails(late)
  \/ Resend \/ ResendFails
  \/ ScanEntry \/ ScanEntryFails \/ ReadNonce \/ ReadNonceFails

Spec == Init /\ [][Next]_vars

(* The TxManager goes on with what it has begun and with what is in its channels,
   and the timer fires again and again.  For every entry EthTxResendTimeout passes
   some day; an entry is the next one only now and then, so this is strong
   fairness.  The Coordinator takes its messages, and what can be mined is mined. *)
GoOn == TakeAny \/ TakeDiscard \/ Resend \/ ScanEntry \/ ReadNonce

Fairness ==
  /\ WF_vars(GoOn)
  /\ \A i \in 1..MaxBatches : SF_vars(next = i /\ CheckNext(TRUE))
  /\ WF_vars(HandleStop)
  /\ WF_vars(Mine)

FairSpec == Spec /\ Fairness

-----------------------------------------------------------------------------
IsTx(tx) == tx.nonce \in Nat /\ tx.root \in Seq(0..MaxPipelines)

TypeOK ==
  /\ \A b \in DOMAIN chain : chain[b].tx = NoTx \/ IsTx(chain[b].tx)
  /\ \A n \in DOMAIN mempool : IsTx(mempool[n]) /\ mempool[n].nonce = n /\ n >= AccNonce
  /\ dropped \subseteq Nat /\ seen \in 0..Len(chain)
  /\ pl \in 0..MaxPipelines /\ running \in BOOLEAN /\ stops \in Nat
  /\ minPl \in 0..MaxPipelines + 1 /\ nextNonce \in Nat
  /\ \A i \in DOMAIN queue :
       /\ queue[i].pl \in 1..MaxPipelines /\ queue[i].auth \in Nat
       /\ queue[i].txs # <<>> /\ \A j \in DOMAIN queue[i].txs : IsTx(queue[i].txs[j])
  /\ pc \in {"loop", "resend", "scan"}
  /\ IF queue = <<>> THEN next = 1 ELSE next \in DOMAIN queue
  /\ pc = "resend" => pos \in DOMAIN queue

(* Nonces have no gap that the TxManager made itself: below a pending
   transaction each nonce has a pending one too, or had one that the mempool
   has dropped.  Otherwise the transactions behind the gap could never be
   mined. *)
NoGap ==
  \A n \in DOMAIN mempool : AccNonce..n \subseteq DOMAIN mempool \cup dropped

(* A batch is forgotten as confirmed only when it is on the chain, successful
   and ConfirmBlocks deep, unless the node has failed to answer. *)
Deep(r) ==
  \E b \in DOMAIN chain :
    chain[b].tx.root = r /\ chain[b].ok /\ Len(chain) - b >= ConfirmBlocks

ForgottenIsFinal ==
  [][pc = "loop" /\ troubles' = troubles =>
       \A i \in DOMAIN queue :
         (\A j \in DOMAIN queue' : queue'[j].root # queue[i].root) => Deep(queue[i].root)]_vars

(* A batch of the current pipeline that the contract has rejected, and has not
   accepted before, is not overlooked: either the message that stops the pipeline is on its way, or the
   entry that shows it is still in the queue.  Not so when the rejection was found
   in one of the two ways that send no message: in the scan for a discarded
   pipeline, and when EthNonceAt fails; nor when a fork deeper than ConfirmBlocks
   has undone a batch that was forgotten as confirmed. *)
MinedOK(root) == \E b \in DOMAIN chain : chain[b].tx.root = root /\ chain[b].ok

RejectedOf(p) ==
  \E b \in DOMAIN chain :
    LET tx == chain[b].tx IN
    tx # NoTx /\ Last(tx.root) = p /\ ~chain[b].ok /\ ~MinedOK(tx.root)

RejectionIsKnown ==
  running /\ RejectedOf(pl) /\ ~silent =>
    \/ stops > 0 \/ pc = "scan"
    \/ \E i \in DOMAIN queue : Rejected(Receipt(queue[i]))

(* When nothing new comes, what is left in the queue gets mined, however the
   mempool, the node and the forks disturb it, unless a transaction is missing
   in the mempool that belongs to no entry any more.  Not all batches stay in the
   queue: one that was mined while it was sent again is mined a second time, with
   the next nonce.  The contract refuses that, and handleReceipt, which looks at the
   last transaction, takes the batch for rejected: it leaves the queue, with those
   of its pipelines behind it that wait, and the pipeline stops. *)
Orphaned ==
  \E n \in dropped \ DOMAIN mempool :
    n >= AccNonce /\ \A i \in DOMAIN queue : queue[i].auth # n

Leaves == <>[](Orphaned \/ \A i \in DOMAIN queue : MinedOK(queue[i].root))
=============================================================================
