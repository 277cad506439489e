----------------------------- MODULE L2PoolLife -----------------------------
(***************************************************************************)
(* The life of the transactions in the pool: the API adds, replaces and    *)
(* updates rows, an external process marks rows for deletion, rows get     *)
(* old, the coordinator forges one batch after another, gives some back    *)
(* (a failure, a reorg) and purges.  All of them reach the table at any    *)
(* time: the only lock, Coordinator.mutexL2DBUpdateDelete, is inside the   *)
(* coordinator (module Pipeline).                                          *)
(***************************************************************************)
EXTENDS L2Pool, Sequences

CONSTANTS
  Groups,       \* the sets of ids that enter the pool with one INSERT
  Limits,       \* values of max_num_batch users ask for (0: no restriction)
  MaxBatch,     \* bound on the batch number
  MaxUpdates    \* bound on the number of updateTx calls

ASSUME PoolLifeAssumption ==
  /\ \A ids \in Groups : ids \subseteq TxIDs
  /\ Limits \subseteq Nat

VARIABLES
  pool,
  batches,      \* batches[n]: the ids the coordinator selected for batch n
  top,          \* highest batch ever started
  updated       \* ids that an updateTx has changed, in the order of the calls

vars == <<pool, batches, top, updated>>

cur == Len(batches)
Selected == UNION {batches[n] : n \in 1..cur}

Init ==
  /\ pool = <<>>
  /\ batches = <<>>
  /\ top = 0
  /\ updated = <<>>

-----------------------------------------------------------------------------
\* postPoolTx, postAtomicPool.  The id of a transaction that is in a batch is not
\* offered again: once the batch is synced its nonce is older than the one of the
\* account and the API rejects it.
Add == \E ids \in Groups, m \in Limits :
  /\ ids \cap Selected = {}
  /\ CanAddTxs(pool, ids)
  /\ pool' = AddTxs(pool, ids, m)
  /\ UNCHANGED <<batches, top, updated>>

\* putPoolTxByIdxAndNonce
Replace == \E t \in TxIDs \ Atomic, m \in Limits :
  /\ t \notin Selected
  /\ CanReplaceTx(pool, t)
  /\ pool' = ReplaceTx(pool, t, m)
  /\ UNCHANGED <<batches, top, updated>>

\* putPoolTx: the recipient changes, or the limit, or both
Update == \E t \in TxIDs, m \in Limits :
  /\ Len(updated) < MaxUpdates
  /\ CanUpdateTx(pool, t)
  /\ pool' = UpdateTx(pool, t, m)
  /\ updated' = Append(updated, t)
  /\ UNCHANGED <<batches, top>>

MarkExternalDelete == \E t \in DOMAIN pool :
  /\ ~pool[t].extDelete
  /\ pool' = [pool EXCEPT ![t].extDelete = TRUE]
  /\ UNCHANGED <<batches, top, updated>>

GetOld == \E t \in DOMAIN pool :
  /\ ~pool[t].old
  /\ pool' = [pool EXCEPT ![t].old = TRUE]
  /\ UNCHANGED <<batches, top, updated>>

-----------------------------------------------------------------------------
Limited(t, b) == pool[t].maxBatch \notin {NULL, 0} /\ b > pool[t].maxBatch

\* forgeBatch: maybe Purge; then the selection, that leaves out a transaction over
\* its max_num_batch and takes at most one transaction of a sender and nonce;
\* StartForging and InvalidateOldNonces for the selected ones
Forge(purge) ==
  LET b == cur + 1
      p == IF purge THEN Purge(pool, b) ELSE pool
  IN  /\ b <= MaxBatch
      /\ \E ids \in SUBSET PendingTxs(p) :
           /\ \A t \in ids : ~Limited(t, b)
           /\ \A t, u \in ids : FromIdx[t] = FromIdx[u] /\ Nonce[t] = Nonce[u] => t = u
           /\ pool' = InvalidateOldNonces(StartForging(p, ids, b), IdxsNonce(ids), b)
           /\ batches' = Append(batches, ids)
      /\ top' = IF b > top THEN b ELSE top
      /\ UNCHANGED updated

ForgeBatch == \E purge \in BOOLEAN : Forge(purge)

\* sendRollupForgeBatch, first time or resend
Sent == \E n \in 1..cur :
  /\ pool' = DoneForging(pool, batches[n], n)
  /\ UNCHANGED <<batches, top, updated>>

\* the batches after last are given up: revertPoolChanges, handleStopPipeline,
\* handleMsgSyncBlock
GiveUp == \E last \in 0..cur-1 :
  /\ pool' = Reorg(pool, last)
  /\ batches' = SubSeq(batches, 1, last)
  /\ UNCHANGED <<top, updated>>

\* the coordinator when it has no pipeline
PurgeMaybe ==
  /\ pool' = Purge(pool, cur)
  /\ UNCHANGED <<batches, top, updated>>

ExternalDelete ==
  /\ pool' = PurgeByExternalDelete(pool)
  /\ UNCHANGED <<batches, top, updated>>

Next ==
  \/ Add \/ Replace \/ Update \/ MarkExternalDelete \/ GetOld
  \/ ForgeBatch \/ Sent \/ GiveUp \/ PurgeMaybe \/ ExternalDelete

Spec == Init /\ [][Next]_vars

-----------------------------------------------------------------------------
TypeOK ==
  /\ IsPool(pool)
  /\ batches \in Seq(SUBSET TxIDs)
  /\ top \in Nat
  /\ updated \in Seq(TxIDs)

(* A row has a batch number exactly when it is not pending: Reorg and Purge
   look for the number, the selector and updateTxByIdxAndNonce for the state,
   and a row seen by neither would stay in the pool for ever. *)
PendingHasNoBatch == \A t \in DOMAIN pool : pool[t].state = Pending <=> pool[t].batch = NULL

(* A selected transaction is marked with the batch that holds it. *)
SelectedIsMarked ==
  \A n \in 1..cur : \A t \in batches[n] \cap DOMAIN pool :
    pool[t].state \in {Forging, Forged} /\ pool[t].batch = n

(* The marks of the rows agree with each other and with the batches, whatever the
   API does to the table meanwhile, and however often a batch was given up and
   forged again. *)
MarksAgree == PendingHasNoBatch /\ SelectedIsMarked

(* A batch can still be given up for SafetyPeriod batches: until then its
   transactions stay in the table, so that they are forged again.  Not promised
   for a transaction whose limit an update changed. *)
RevertibleIsKept ==
  \A n \in 1..cur : n >= top - SafetyPeriod =>
    batches[n] \ {updated[i] : i \in DOMAIN updated} \subseteq DOMAIN pool

\* The table and the batches that have its transactions fit together.
PoolMatchesBatches == MarksAgree /\ RevertibleIsKept

(* Giving a batch up brings back all its transactions that are in the table. *)
GivenUpIsPending ==
  [][Len(batches') < cur =>
       \A n \in Len(batches')+1..cur : \A t \in batches[n] \cap DOMAIN pool :
         t \in DOMAIN pool' /\ pool'[t].state = Pending]_vars

(* A pending transaction without limit leaves the table only because it is old,
   because it is marked for deletion, or because its sender replaces it: no
   statement of the coordinator takes it for one of the rows it cleans up. *)
ReplacedByAnother(t) ==
  \E u \in DOMAIN pool' : FromIdx[u] = FromIdx[t] /\ Nonce[u] = Nonce[t]

UnlimitedIsKept ==
  [][\A t \in DOMAIN pool \ DOMAIN pool' :
       pool[t].state = Pending /\ pool[t].maxBatch = NULL =>
         pool[t].old \/ pool[t].extDelete \/ ReplacedByAnother(t)]_vars

\* What the table promises to those whose transactions are in it.
PoolKeeps == GivenUpIsPending /\ UnlimitedIsKept
=============================================================================
