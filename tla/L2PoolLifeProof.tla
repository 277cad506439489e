-------------------------- MODULE L2PoolLifeProof --------------------------
(***************************************************************************)
(* Proofs about the life of the transactions in the pool, for any number   *)
(* of transactions, senders, groups, batches and updates and any safety    *)
(* period.                                                                 *)
(*                                                                         *)
(* IInv is inductive.  RevertibleIsKept alone is not: Purge also deletes a *)
(* row whose limit has passed, so that it has to be known of the limits of *)
(* the selected rows that they have not passed when the row is selected    *)
(* and do not change afterwards, and of the purges that they work with a   *)
(* batch number no higher than one that was started.                       *)
(* First come facts about the statements on the table, for any table.      *)
(***************************************************************************)
EXTENDS L2PoolLife, SequenceTheorems, TLAPS

USE DEF Pending, Forging, Forged, Invalid, NULL

(* A row has a batch number exactly when it is not pending. *)
WellMarked(row) == row.state = Pending <=> row.batch = NULL

-----------------------------------------------------------------------------
(* Every statement gives a table again. *)

LEMMA SetStateIsPool ==
  ASSUME NEW p, IsPool(p), NEW ids, NEW s \in States, NEW b \in Nat \cup {NULL}
  PROVE  IsPool(SetState(p, ids, s, b))
BY DEF IsPool, SetState, Row, States

LEMMA DeleteIsPool ==
  ASSUME NEW p, IsPool(p), NEW ids
  PROVE  IsPool(Delete(p, ids))
BY DEF IsPool, Delete

LEMMA NewRowIsRow ==
  ASSUME NEW m \in Nat
  PROVE  NewRow(m) \in Row
BY DEF NewRow, Row, States

LEMMA InsertIsPool ==
  ASSUME NEW p, IsPool(p), NEW ids \in SUBSET TxIDs, NEW m \in Nat
  PROVE  IsPool(Insert(p, ids, m))
BY NewRowIsRow DEF IsPool, Insert

LEMMA StatementsGivePool ==
  ASSUME NEW p, IsPool(p), NEW ids, NEW b \in Nat, NEW acc
  PROVE  /\ IsPool(StartForging(p, ids, b))
         /\ IsPool(DoneForging(p, ids, b))
         /\ IsPool(InvalidateOldNonces(p, acc, b))
         /\ IsPool(PurgeByExternalDelete(p))
<1>1. IsPool(StartForging(p, ids, b))
  BY SetStateIsPool DEF StartForging, States
<1>2. IsPool(DoneForging(p, ids, b))
  BY SetStateIsPool DEF DoneForging, States
<1>3. IsPool(InvalidateOldNonces(p, acc, b))
  BY SetStateIsPool DEF InvalidateOldNonces, States
<1>4. IsPool(PurgeByExternalDelete(p))
  BY DeleteIsPool DEF PurgeByExternalDelete
<1> QED
  BY <1>1, <1>2, <1>3, <1>4

LEMMA ReorgIsPool ==
  ASSUME NEW p, IsPool(p), NEW n
  PROVE  IsPool(Reorg(p, n))
BY SetStateIsPool DEF Reorg, States

LEMMA PurgeIsPool ==
  ASSUME NEW p, IsPool(p), NEW n
  PROVE  IsPool(Purge(p, n))
BY DeleteIsPool DEF Purge

LEMMA UpdateIsPool ==
  ASSUME NEW p, IsPool(p), NEW t, NEW m \in Nat
  PROVE  IsPool(UpdateTx(p, t, m))
BY DEF UpdateTx, IsPool, Row

LEMMA ReplaceIsPool ==
  ASSUME NEW p, IsPool(p), NEW t \in TxIDs, NEW m \in Nat
  PROVE  IsPool(ReplaceTx(p, t, m))
BY DeleteIsPool, InsertIsPool DEF ReplaceTx

-----------------------------------------------------------------------------
(* What a statement does to one row. *)

LEMMA RowOfTable ==
  ASSUME NEW p, IsPool(p), NEW t \in DOMAIN p
  PROVE  /\ t \in TxIDs
         /\ p[t] \in Row
BY DEF IsPool

\* an UPDATE of state and batch_num leaves the other columns, and the other rows
LEMMA RowAfterSetState ==
  ASSUME NEW p, IsPool(p), NEW ids, NEW s, NEW b, NEW t \in DOMAIN p
  PROVE  LET q == SetState(p, ids, s, b)
         IN  /\ DOMAIN q = DOMAIN p
             /\ t \in ids => q[t].state = s /\ q[t].batch = b
             /\ t \notin ids => q[t] = p[t]
             /\ q[t].maxBatch = p[t].maxBatch
BY DEF IsPool, SetState, Row

LEMMA RowAfterDelete ==
  ASSUME NEW p, NEW ids
  PROVE  LET q == Delete(p, ids)
         IN  /\ DOMAIN q = DOMAIN p \ ids
             /\ \A t \in DOMAIN p \ ids : q[t] = p[t]
BY DEF Delete

LEMMA RowAfterInsert ==
  ASSUME NEW p, NEW ids, NEW m
  PROVE  LET q == Insert(p, ids, m)
         IN  /\ DOMAIN q = DOMAIN p \cup ids
             /\ \A t \in DOMAIN p \cup ids : q[t] = IF t \in ids THEN NewRow(m) ELSE p[t]
BY DEF Insert

LEMMA RowAfterStart ==
  ASSUME NEW p, IsPool(p), NEW ids, NEW b, NEW t \in DOMAIN p
  PROVE  LET q == StartForging(p, ids, b)
         IN  /\ DOMAIN q = DOMAIN p
             /\ q[t].maxBatch = p[t].maxBatch
             /\ t \in ids /\ p[t].state = Pending => q[t].state = Forging /\ q[t].batch = b
             /\ t \notin ids \/ p[t].state # Pending => q[t] = p[t]
BY RowAfterSetState DEF StartForging, InState

LEMMA RowAfterDone ==
  ASSUME NEW p, IsPool(p), NEW ids, NEW b, NEW t \in DOMAIN p
  PROVE  LET q == DoneForging(p, ids, b)
         IN  /\ DOMAIN q = DOMAIN p
             /\ q[t].maxBatch = p[t].maxBatch
             /\ t \in ids /\ p[t].state = Forging => q[t].state = Forged /\ q[t].batch = b
             /\ t \notin ids \/ p[t].state # Forging => q[t] = p[t]
BY RowAfterSetState DEF DoneForging, InState

LEMMA RowAfterInvalidate ==
  ASSUME NEW p, IsPool(p), NEW acc, NEW b, NEW t \in DOMAIN p
  PROVE  LET q == InvalidateOldNonces(p, acc, b)
         IN  /\ DOMAIN q = DOMAIN p
             /\ q[t].maxBatch = p[t].maxBatch
             /\ p[t].state # Pending => q[t] = p[t]
             /\ \/ q[t] = p[t]
                \/ q[t].state = Invalid /\ q[t].batch = b
BY RowAfterSetState DEF InvalidateOldNonces, InState

\* the rows of batches after last are pending again, all others are as they were
LEMMA RowAfterReorg ==
  ASSUME NEW p, IsPool(p), NEW last \in Nat, NEW t \in DOMAIN p, WellMarked(p[t])
  PROVE  LET q == Reorg(p, last)
         IN  /\ DOMAIN q = DOMAIN p
             /\ q[t].maxBatch = p[t].maxBatch
             /\ p[t].batch > last => q[t].state = Pending /\ q[t].batch = NULL
             /\ ~(p[t].batch > last) => q[t] = p[t]
<1> DEFINE Given == {u \in InState(p, {Forging, Forged, Invalid}) :
                       p[u].batch # NULL /\ p[u].batch > last}
<1>1. t \in Given <=> p[t].batch > last
  BY DEF IsPool, Row, States, InState, WellMarked
<1>2. Reorg(p, last) = SetState(p, Given, Pending, NULL)
  BY DEF Reorg
<1> QED
  BY <1>1, <1>2, RowAfterSetState

\* a row that is in a batch from the bound on, and is not limited to an earlier one, stays
LEMMA KeptByPurge ==
  ASSUME NEW p, IsPool(p), NEW now \in Nat, NEW t \in DOMAIN p,
         p[t].state # Pending, p[t].batch >= now - SafetyPeriod,
         p[t].maxBatch = NULL \/ p[t].maxBatch >= now - SafetyPeriod
  PROVE  t \in DOMAIN Purge(p, now)
BY PoolAssumption DEF Purge, Delete, IsPool, Row

LEMMA RowAfterPurge ==
  ASSUME NEW p, IsPool(p), NEW n
  PROVE  LET q == Purge(p, n)
         IN  /\ DOMAIN q \subseteq DOMAIN p
             /\ \A t \in DOMAIN q : q[t] = p[t]
<1>1. PICK gone : Purge(p, n) = Delete(p, gone)
  BY DEF Purge
<1>2. /\ DOMAIN Delete(p, gone) = DOMAIN p \ gone
      /\ \A t \in DOMAIN Delete(p, gone) : Delete(p, gone)[t] = p[t]
  BY DEF Delete
<1> QED
  BY <1>1, <1>2, Zenon

-----------------------------------------------------------------------------
(* The invariant. *)

Changed == {updated[i] : i \in DOMAIN updated}

\* no limit of 0 gets into the table but by an update; a batch is within the limits
\* of its transactions
LimitsHold ==
  \A t \in DOMAIN pool \ Changed :
    /\ pool[t].maxBatch # 0
    /\ \A n \in 1..cur : t \in batches[n] =>
         pool[t].maxBatch = NULL \/ pool[t].maxBatch >= n

IInv == TypeOK /\ MarksAgree /\ RevertibleIsKept /\ LimitsHold /\ cur <= top

-----------------------------------------------------------------------------
(* The invariant in terms of one row. *)

LEMMA SelectedRow ==
  ASSUME IInv, NEW n \in 1..cur, NEW t \in batches[n], t \in DOMAIN pool
  PROVE  /\ pool[t].state \in {Forging, Forged}
         /\ pool[t].batch = n
BY DEF IInv, MarksAgree, SelectedIsMarked

LEMMA RowType ==
  ASSUME IInv, NEW t \in DOMAIN pool
  PROVE  /\ t \in TxIDs /\ pool[t] \in Row
         /\ IsPool(pool)
         /\ WellMarked(pool[t])
BY RowOfTable DEF IInv, TypeOK, MarksAgree, PendingHasNoBatch, WellMarked

LEMMA BatchesType ==
  ASSUME IInv
  PROVE  /\ batches \in Seq(SUBSET TxIDs) /\ cur \in Nat /\ top \in Nat /\ cur <= top
         /\ \A n \in 1..cur : batches[n] \subseteq TxIDs
BY DEF IInv, TypeOK, cur

-----------------------------------------------------------------------------
(* A statement that leaves the batches alone keeps the invariant when it leaves
   the selected rows alone, but for the step from forging to forged, and every
   other row with marks that agree. *)

LEMMA StatementKeepsInvariant ==
  ASSUME IInv, UNCHANGED <<batches, top>>, IsPool(pool'),
         updated' \in Seq(TxIDs), Changed \subseteq Changed',
         \A t \in DOMAIN pool' : WellMarked(pool'[t]),
         \A t \in DOMAIN pool' \cap Selected :
           /\ t \in DOMAIN pool
           /\ pool'[t].state \in {Forging, Forged}
           /\ pool'[t].batch = pool[t].batch
           /\ t \in Changed' \/ pool'[t].maxBatch = pool[t].maxBatch,
         \A t \in DOMAIN pool' \ Changed' : pool'[t].maxBatch # 0,
         \A n \in 1..cur : n >= top - SafetyPeriod =>
           \A t \in batches[n] : t \in DOMAIN pool \ Changed' => t \in DOMAIN pool'
  PROVE  IInv'
<1>1. TypeOK'
  BY DEF IInv, TypeOK
<1>2. cur' = cur /\ cur' <= top'
  BY DEF IInv, cur
<1>3. \A n \in 1..cur : \A t \in batches[n] : t \in Selected
  BY DEF Selected
<1>4. MarksAgree'
  <2>1. PendingHasNoBatch'
    BY DEF PendingHasNoBatch, WellMarked
  <2>2. ASSUME NEW n \in 1..cur, NEW t \in batches[n], t \in DOMAIN pool'
        PROVE  pool'[t].state \in {Forging, Forged} /\ pool'[t].batch = n
    BY <2>2, <1>3, SelectedRow
  <2> QED
    BY <1>2, <2>1, <2>2 DEF MarksAgree, SelectedIsMarked
<1>5. RevertibleIsKept'
  <2>1. ASSUME NEW n \in 1..cur, n >= top - SafetyPeriod, NEW t \in batches[n], t \notin Changed'
        PROVE  t \in DOMAIN pool'
    BY <2>1 DEF IInv, RevertibleIsKept, Changed
  <2> QED
    BY <1>2, <2>1 DEF RevertibleIsKept, Changed
<1>6. LimitsHold'
  <2>1. ASSUME NEW t \in DOMAIN pool' \ Changed', NEW n \in 1..cur, t \in batches[n]
        PROVE  pool'[t].maxBatch = NULL \/ pool'[t].maxBatch >= n
    <3>1. /\ t \in DOMAIN pool \ Changed
          /\ pool'[t].maxBatch = pool[t].maxBatch
      BY <2>1, <1>3
    <3> QED
      BY <2>1, <3>1 DEF IInv, LimitsHold
  <2> QED
    BY <1>2, <2>1 DEF LimitsHold
<1> QED
  BY <1>1, <1>2, <1>4, <1>5, <1>6 DEF IInv

-----------------------------------------------------------------------------
(* The statements of the API and of the others *)

LEMMA AddKeeps ==
  ASSUME IInv, Add PROVE IInv'
<1>1. PICK ids \in Groups, m \in Limits :
        /\ ids \cap Selected = {} /\ CanAddTxs(pool, ids)
        /\ pool' = Insert(pool, ids, m)
  BY DEF Add, AddTxs
<1>2. ids \subseteq TxIDs /\ m \in Nat
  BY PoolLifeAssumption
<1>3. IsPool(pool) /\ IsPool(pool')
  BY <1>1, <1>2, InsertIsPool DEF IInv, TypeOK
<1>4. /\ DOMAIN pool' = DOMAIN pool \cup ids
      /\ \A t \in DOMAIN pool \cup ids : pool'[t] = IF t \in ids THEN NewRow(m) ELSE pool[t]
  BY <1>1, RowAfterInsert
<1>5. WellMarked(NewRow(m)) /\ NewRow(m).maxBatch # 0
  BY <1>2 DEF WellMarked, NewRow
<1>6. \A t \in DOMAIN pool' : WellMarked(pool'[t])
  BY <1>4, <1>5, RowType
<1>7. \A t \in DOMAIN pool' \cap Selected : t \in DOMAIN pool /\ pool'[t] = pool[t]
  BY <1>1, <1>4
<1>8. \A t \in DOMAIN pool \cap Selected : pool[t].state \in {Forging, Forged}
  BY SelectedRow DEF Selected
<1>9. \A t \in DOMAIN pool' \ Changed' : pool'[t].maxBatch # 0
  BY <1>4, <1>5 DEF IInv, LimitsHold, Add, Changed
<1> QED
  BY <1>3, <1>4, <1>6, <1>7, <1>8, <1>9, StatementKeepsInvariant DEF Add, Changed, IInv, TypeOK

\* rows only leave: the selected ones that can still be given up must not
LEMMA DeletionKeeps ==
  ASSUME IInv, UNCHANGED <<batches, top, updated>>, IsPool(pool'),
         DOMAIN pool' \subseteq DOMAIN pool,
         \A t \in DOMAIN pool' : pool'[t] = pool[t],
         \A n \in 1..cur : n >= top - SafetyPeriod =>
           \A t \in batches[n] : t \in DOMAIN pool \ Changed => t \in DOMAIN pool'
  PROVE  IInv'
<1>1. Changed' = Changed /\ updated' \in Seq(TxIDs)
  BY DEF Changed, IInv, TypeOK
<1>2. \A t \in DOMAIN pool' : WellMarked(pool'[t])
  BY RowType
<1>3. \A t \in DOMAIN pool' \cap Selected : /\ t \in DOMAIN pool
                                           /\ pool'[t] = pool[t]
                                           /\ pool[t].state \in {Forging, Forged}
  BY SelectedRow DEF Selected
<1>4. \A t \in DOMAIN pool' \ Changed' : pool'[t].maxBatch # 0
  BY <1>1 DEF IInv, LimitsHold
<1> QED
  BY <1>1, <1>2, <1>3, <1>4, StatementKeepsInvariant

LEMMA ReplaceKeeps ==
  ASSUME IInv, Replace PROVE IInv'
<1>1. PICK t \in TxIDs \ Atomic, m \in Limits :
        /\ t \notin Selected
        /\ pool' = Insert(Delete(pool, Replaced(pool, t)), {t}, m)
  BY DEF Replace, ReplaceTx
<1> DEFINE rest == Delete(pool, Replaced(pool, t))
<1>2. m \in Nat
  BY PoolLifeAssumption
<1>3. IsPool(pool')
  BY <1>1, <1>2, ReplaceIsPool DEF IInv, TypeOK, ReplaceTx
<1>4. /\ DOMAIN rest = DOMAIN pool \ Replaced(pool, t)
      /\ \A u \in DOMAIN pool \ Replaced(pool, t) : rest[u] = pool[u]
  BY RowAfterDelete
<1>5. /\ DOMAIN pool' = DOMAIN rest \cup {t}
      /\ \A u \in DOMAIN rest \cup {t} : pool'[u] = IF u \in {t} THEN NewRow(m) ELSE rest[u]
  BY <1>1, RowAfterInsert
<1>6. WellMarked(NewRow(m)) /\ NewRow(m).maxBatch # 0
  BY <1>2 DEF WellMarked, NewRow
<1>7. \A u \in DOMAIN pool' : WellMarked(pool'[u])
  BY <1>4, <1>5, <1>6, RowType
<1>8. \A u \in DOMAIN pool' \cap Selected : u \in DOMAIN pool /\ pool'[u] = pool[u]
  BY <1>1, <1>4, <1>5
<1>9. \A u \in DOMAIN pool \cap Selected : pool[u].state \in {Forging, Forged}
  BY SelectedRow DEF Selected
<1>10. \A u \in DOMAIN pool' \ Changed' : pool'[u].maxBatch # 0
  BY <1>4, <1>5, <1>6 DEF IInv, LimitsHold, Replace, Changed
<1>11. \A n \in 1..cur : \A u \in batches[n] : u \in DOMAIN pool => u \in DOMAIN pool'
  <2>1. ASSUME NEW n \in 1..cur, NEW u \in batches[n], u \in DOMAIN pool
        PROVE  u \notin Replaced(pool, t)
    BY <2>1, SelectedRow DEF Replaced, InState
  <2> QED
    BY <2>1, <1>4, <1>5
<1> QED
  BY <1>3, <1>7, <1>8, <1>9, <1>10, <1>11, StatementKeepsInvariant
  DEF Replace, Changed, IInv, TypeOK

LEMMA UpdateKeeps ==
  ASSUME IInv, Update PROVE IInv'
<1>1. PICK t \in TxIDs, m \in Limits :
        /\ pool' = UpdateTx(pool, t, m)
        /\ updated' = Append(updated, t)
  BY DEF Update
<1>2. updated \in Seq(TxIDs) /\ updated' \in Seq(TxIDs) /\ m \in Nat
  BY <1>1, PoolLifeAssumption DEF IInv, TypeOK
<1>3. Changed \subseteq Changed' /\ t \in Changed'
  BY <1>1, <1>2 DEF Changed
<1>4. IsPool(pool')
  BY <1>1, <1>2, UpdateIsPool DEF IInv, TypeOK
<1>5. /\ DOMAIN pool' = DOMAIN pool
      /\ \A u \in DOMAIN pool : /\ pool'[u].state = pool[u].state
                                /\ pool'[u].batch = pool[u].batch
                                /\ u # t => pool'[u] = pool[u]
  BY <1>1, RowType DEF UpdateTx, IsPool, Row
<1>6. \A u \in DOMAIN pool' : WellMarked(pool'[u])
  BY <1>5, RowType DEF WellMarked
<1>7. \A u \in DOMAIN pool \cap Selected : pool[u].state \in {Forging, Forged}
  BY SelectedRow DEF Selected
<1>8. \A u \in DOMAIN pool' \ Changed' : pool'[u].maxBatch # 0
  BY <1>3, <1>5 DEF IInv, LimitsHold
<1>9. UNCHANGED <<batches, top>>
  BY DEF Update
<1> QED
  BY <1>2, <1>3, <1>4, <1>5, <1>6, <1>7, <1>8, <1>9, StatementKeepsInvariant

\* a mark on a row that the invariant does not look at
LEMMA MarkKeeps ==
  ASSUME IInv, MarkExternalDelete \/ GetOld PROVE IInv'
<1>1. /\ UNCHANGED <<batches, top, updated>>
      /\ DOMAIN pool' = DOMAIN pool
      /\ \A t \in DOMAIN pool : /\ pool'[t] \in Row
                                /\ pool'[t].state = pool[t].state
                                /\ pool'[t].batch = pool[t].batch
                                /\ pool'[t].maxBatch = pool[t].maxBatch
  <2>1. PICK u \in DOMAIN pool : \/ pool' = [pool EXCEPT ![u].extDelete = TRUE]
                                \/ pool' = [pool EXCEPT ![u].old = TRUE]
    BY DEF MarkExternalDelete, GetOld
  <2>2. pool \in [DOMAIN pool -> Row]
    BY DEF IInv, TypeOK, IsPool
  <2>3. UNCHANGED <<batches, top, updated>>
    BY DEF MarkExternalDelete, GetOld
  <2>4. ASSUME NEW t \in DOMAIN pool
        PROVE  pool'[t] \in {pool[t], [pool[t] EXCEPT !.extDelete = TRUE], [pool[t] EXCEPT !.old = TRUE]}
    BY <2>1, <2>2
  <2>5. DOMAIN pool' = DOMAIN pool
    BY <2>1, <2>2
  <2>6. ASSUME NEW row \in Row,
               NEW new \in {row, [row EXCEPT !.extDelete = TRUE], [row EXCEPT !.old = TRUE]}
        PROVE  /\ new \in Row
               /\ new.state = row.state /\ new.batch = row.batch /\ new.maxBatch = row.maxBatch
    BY DEF Row
  <2>7. ASSUME NEW t \in DOMAIN pool
        PROVE  /\ pool'[t] \in Row
               /\ pool'[t].state = pool[t].state
               /\ pool'[t].batch = pool[t].batch
               /\ pool'[t].maxBatch = pool[t].maxBatch
    <3>1. pool[t] \in Row
      BY <2>2
    <3> QED
      BY <2>4, <2>6, <3>1
  <2> QED
    BY <2>3, <2>5, <2>7
<1>2. IsPool(pool')
  <2>1. pool' = [t \in DOMAIN pool |-> pool'[t]]
    BY DEF MarkExternalDelete, GetOld, IInv, TypeOK, IsPool
  <2> QED
    BY <1>1, <2>1 DEF IInv, TypeOK, IsPool
<1>3. \A t \in DOMAIN pool' : WellMarked(pool'[t])
  BY <1>1, RowType DEF WellMarked
<1>4. \A t \in DOMAIN pool \cap Selected : pool[t].state \in {Forging, Forged}
  BY SelectedRow DEF Selected
<1>5. Changed' = Changed /\ updated' \in Seq(TxIDs)
  BY <1>1 DEF Changed, IInv, TypeOK
<1>6. \A t \in DOMAIN pool' \ Changed' : pool'[t].maxBatch # 0
  BY <1>1, <1>5 DEF IInv, LimitsHold
<1> QED
  BY <1>1, <1>2, <1>3, <1>4, <1>5, <1>6, StatementKeepsInvariant

-----------------------------------------------------------------------------
(* The statements of the coordinator *)

LEMMA SentKeeps ==
  ASSUME IInv, Sent PROVE IInv'
<1>1. PICK n \in 1..cur : pool' = DoneForging(pool, batches[n], n)
  BY DEF Sent
<1>2. IsPool(pool) /\ n \in Nat
  BY BatchesType DEF IInv, TypeOK
<1>3. IsPool(pool')
  BY <1>1, <1>2, StatementsGivePool
<1>4. DOMAIN pool' = DOMAIN pool
  BY <1>1 DEF DoneForging, SetState
<1>5. ASSUME NEW t \in DOMAIN pool
      PROVE  \/ pool'[t] = pool[t]
             \/ /\ pool[t].state = Forging /\ pool'[t].state = Forged
                /\ pool'[t].batch = pool[t].batch /\ pool'[t].batch # NULL
                /\ pool'[t].maxBatch = pool[t].maxBatch
  <2>1. CASE t \in batches[n] /\ pool[t].state = Forging
    BY <2>1, <1>1, <1>2, RowAfterDone, SelectedRow
  <2>2. CASE ~(t \in batches[n] /\ pool[t].state = Forging)
    BY <2>2, <1>1, <1>2, RowAfterDone
  <2> QED
    BY <2>1, <2>2
<1>6. \A t \in DOMAIN pool' : WellMarked(pool'[t])
  BY <1>4, <1>5, RowType DEF WellMarked
<1>7. \A t \in DOMAIN pool \cap Selected : pool[t].state \in {Forging, Forged}
  BY SelectedRow DEF Selected
<1>8. \A t \in DOMAIN pool \cap Selected :
        /\ pool'[t].state \in {Forging, Forged}
        /\ pool'[t].batch = pool[t].batch
        /\ pool'[t].maxBatch = pool[t].maxBatch
  BY <1>5, <1>7
<1>9. /\ Changed' = Changed /\ updated' \in Seq(TxIDs)
      /\ UNCHANGED <<batches, top>>
  BY DEF Sent, Changed, IInv, TypeOK
<1>10. \A t \in DOMAIN pool' \ Changed' : pool'[t].maxBatch # 0
  BY <1>4, <1>5, <1>9 DEF IInv, LimitsHold
<1> QED
  BY <1>3, <1>4, <1>6, <1>8, <1>9, <1>10, StatementKeepsInvariant

\* what a purge leaves, when it works with the number of a batch that was started
\* or is about to be
LEMMA PurgeLeavesRevertible ==
  ASSUME IInv, NEW b \in Nat, NEW n \in 1..cur, n >= b - SafetyPeriod,
         NEW t \in batches[n], t \in DOMAIN pool \ Changed
  PROVE  t \in DOMAIN Purge(pool, b)
<1>1. pool[t].state # Pending /\ pool[t].batch = n
  BY SelectedRow
<1>2. pool[t].maxBatch = NULL \/ pool[t].maxBatch >= n
  BY DEF IInv, LimitsHold
<1>3. pool[t] \in Row /\ IsPool(pool)
  BY RowType
<1> QED
  BY <1>1, <1>2, <1>3, KeptByPurge, PoolAssumption DEF Row

LEMMA PurgeMaybeKeeps ==
  ASSUME IInv, PurgeMaybe PROVE IInv'
<1>1. /\ pool' = Purge(pool, cur) /\ IsPool(pool) /\ cur \in Nat /\ cur <= top /\ top \in Nat
      /\ UNCHANGED <<batches, top, updated>>
  BY BatchesType DEF PurgeMaybe, IInv, TypeOK
<1>2. IsPool(pool')
  BY <1>1, PurgeIsPool
<1>3. DOMAIN pool' \subseteq DOMAIN pool /\ \A t \in DOMAIN pool' : pool'[t] = pool[t]
  BY <1>1, RowAfterPurge, Zenon
<1>4. ASSUME NEW n \in 1..cur, n >= top - SafetyPeriod,
             NEW t \in batches[n], t \in DOMAIN pool \ Changed
      PROVE  t \in DOMAIN pool'
  BY <1>1, <1>4, PurgeLeavesRevertible, PoolAssumption
<1> QED
  BY <1>1, <1>2, <1>3, <1>4, DeletionKeeps

LEMMA ExternalDeleteKeeps ==
  ASSUME IInv, ExternalDelete PROVE IInv'
<1>1. /\ pool' = PurgeByExternalDelete(pool) /\ IsPool(pool)
      /\ UNCHANGED <<batches, top, updated>>
  BY DEF ExternalDelete, IInv, TypeOK
<1>2. IsPool(pool')
  BY <1>1, StatementsGivePool
<1>3. DOMAIN pool' \subseteq DOMAIN pool /\ \A t \in DOMAIN pool' : pool'[t] = pool[t]
  BY <1>1 DEF PurgeByExternalDelete, Delete
<1>4. \A t \in DOMAIN pool : pool[t].state # Pending => t \in DOMAIN pool'
  BY <1>1 DEF PurgeByExternalDelete, Delete, InState
<1>5. ASSUME NEW n \in 1..cur, NEW t \in batches[n], t \in DOMAIN pool
      PROVE  t \in DOMAIN pool'
  BY <1>4, <1>5, SelectedRow
<1> QED
  BY <1>1, <1>2, <1>3, <1>5, DeletionKeeps

LEMMA GiveUpKeeps ==
  ASSUME IInv, GiveUp PROVE IInv'
<1>1. PICK last \in 0..cur-1 : /\ pool' = Reorg(pool, last)
                              /\ batches' = SubSeq(batches, 1, last)
  BY DEF GiveUp
<1>2. /\ last \in Nat /\ last <= cur /\ cur' = last
      /\ \A n \in 1..last : n \in 1..cur /\ batches'[n] = batches[n]
      /\ batches' \in Seq(SUBSET TxIDs)
  BY <1>1, BatchesType DEF cur
<1>3. UNCHANGED <<top, updated>> /\ Changed' = Changed
  BY DEF GiveUp, Changed
<1>4. IsPool(pool) /\ IsPool(pool') /\ DOMAIN pool' = DOMAIN pool
  BY <1>1, ReorgIsPool DEF IInv, TypeOK, Reorg, SetState
<1>5. ASSUME NEW t \in DOMAIN pool
      PROVE  /\ pool'[t].maxBatch = pool[t].maxBatch
             /\ \/ pool[t].batch > last /\ pool'[t].state = Pending /\ pool'[t].batch = NULL
                \/ ~(pool[t].batch > last) /\ pool'[t] = pool[t]
  BY <1>1, <1>2, <1>4, RowAfterReorg, RowType
<1>6. TypeOK' /\ cur' <= top'
  BY <1>2, <1>3, <1>4, BatchesType DEF IInv, TypeOK
<1>7. PendingHasNoBatch'
  BY <1>4, <1>5, RowType DEF PendingHasNoBatch, WellMarked
<1>8. SelectedIsMarked'
  <2>1. ASSUME NEW n \in 1..last, NEW t \in batches[n], t \in DOMAIN pool
        PROVE  pool'[t].state \in {Forging, Forged} /\ pool'[t].batch = n
    <3>1. pool[t].state \in {Forging, Forged} /\ pool[t].batch = n
      BY <2>1, <1>2, SelectedRow
    <3> QED
      BY <2>1, <3>1, <1>5
  <2> QED
    BY <2>1, <1>2, <1>4 DEF SelectedIsMarked
<1>9. RevertibleIsKept'
  BY <1>2, <1>3, <1>4 DEF IInv, RevertibleIsKept, Changed
<1>10. LimitsHold'
  BY <1>2, <1>3, <1>4, <1>5 DEF IInv, LimitsHold
<1> QED
  BY <1>6, <1>7, <1>8, <1>9, <1>10 DEF IInv, MarksAgree

LEMMA ForgeKeeps ==
  ASSUME IInv, NEW purge \in BOOLEAN, Forge(purge) PROVE IInv'
<1> DEFINE b == cur + 1
           p == IF purge THEN Purge(pool, b) ELSE pool
<1>1. PICK ids \in SUBSET PendingTxs(p) :
        /\ \A t \in ids : ~Limited(t, b)
        /\ pool' = InvalidateOldNonces(StartForging(p, ids, b), IdxsNonce(ids), b)
        /\ batches' = Append(batches, ids)
  BY DEF Forge
<1> DEFINE q == StartForging(p, ids, b)
<1>2. /\ cur \in Nat /\ b \in Nat /\ b # NULL /\ top \in Nat
      /\ top' = (IF b > top THEN b ELSE top) /\ updated' = updated /\ Changed' = Changed
  BY BatchesType DEF Forge, Changed
<1>3. /\ IsPool(p) /\ DOMAIN p \subseteq DOMAIN pool
      /\ \A t \in DOMAIN p : p[t] = pool[t]
  <2>1. IsPool(pool)
    BY DEF IInv, TypeOK
  <2>2. IsPool(Purge(pool, b))
    BY <2>1, PurgeIsPool
  <2>3. /\ DOMAIN Purge(pool, b) \subseteq DOMAIN pool
        /\ \A t \in DOMAIN Purge(pool, b) : Purge(pool, b)[t] = pool[t]
    BY <2>1, RowAfterPurge
  <2>4. CASE purge
    BY <2>2, <2>3, <2>4
  <2>5. CASE ~purge
    BY <2>1, <2>5
  <2> QED
    BY <2>4, <2>5
<1>4. ASSUME NEW n \in 1..cur, n >= b - SafetyPeriod,
             NEW t \in batches[n], t \in DOMAIN pool \ Changed
      PROVE  t \in DOMAIN p
  BY <1>2, <1>4, PurgeLeavesRevertible
<1>5. ids \subseteq DOMAIN p /\ \A t \in ids : p[t].state = Pending
  BY DEF PendingTxs, InState
<1>6. IsPool(q) /\ IsPool(pool')
  <2>1. IsPool(q)
    BY <1>2, <1>3, StatementsGivePool
  <2> QED
    BY <1>1, <1>2, <2>1, StatementsGivePool
<1>7. DOMAIN q = DOMAIN p /\ DOMAIN pool' = DOMAIN p
  BY <1>1 DEF StartForging, InvalidateOldNonces, SetState
<1> HIDE DEF p
<1>8. ASSUME NEW t \in DOMAIN p
      PROVE  /\ pool'[t].maxBatch = pool[t].maxBatch
             /\ t \in ids => pool'[t].state = Forging /\ pool'[t].batch = b
             /\ t \notin ids /\ pool[t].state # Pending => pool'[t] = pool[t]
             /\ t \notin ids => \/ pool'[t] = pool[t]
                                \/ pool'[t].state = Invalid /\ pool'[t].batch = b
  <2>1. /\ q[t].maxBatch = p[t].maxBatch
        /\ t \in ids /\ p[t].state = Pending => q[t].state = Forging /\ q[t].batch = b
        /\ t \notin ids \/ p[t].state # Pending => q[t] = p[t]
    BY <1>3, RowAfterStart
  <2> HIDE DEF q
  <2>2. /\ pool'[t].maxBatch = q[t].maxBatch
        /\ q[t].state # Pending => pool'[t] = q[t]
        /\ \/ pool'[t] = q[t]
           \/ pool'[t].state = Invalid /\ pool'[t].batch = b
    <3>1. pool' = InvalidateOldNonces(q, IdxsNonce(ids), b)
      BY <1>1 DEF q
    <3> QED
      BY <1>6, <1>7, <3>1, RowAfterInvalidate
  <2> QED
    BY <2>1, <2>2, <1>3, <1>5
<1> HIDE DEF q
<1>9. /\ cur' = b /\ batches'[b] = ids
      /\ \A n \in 1..cur : batches'[n] = batches[n]
      /\ batches' \in Seq(SUBSET TxIDs)
  <2>1. ids \subseteq TxIDs
    BY <1>3, <1>5 DEF IsPool
  <2> QED
    BY <1>1, <2>1, BatchesType DEF cur
<1> HIDE DEF b
<1>10. 1..b = 1..cur \cup {b} /\ b \notin 1..cur
  BY <1>2 DEF b
<1>11. TypeOK' /\ cur' <= top'
  BY <1>2, <1>6, <1>9 DEF IInv, TypeOK
<1>12. PendingHasNoBatch'
  BY <1>2, <1>3, <1>7, <1>8, RowType DEF PendingHasNoBatch, WellMarked
<1>13. SelectedIsMarked'
  <2>1. ASSUME NEW n \in 1..cur, NEW t \in batches[n], t \in DOMAIN p
        PROVE  pool'[t].state \in {Forging, Forged} /\ pool'[t].batch = n
    <3>1. pool[t].state \in {Forging, Forged} /\ pool[t].batch = n
      BY <2>1, <1>3, SelectedRow
    <3> QED
      BY <2>1, <3>1, <1>3, <1>5, <1>8
  <2>2. \A t \in ids : pool'[t].state \in {Forging, Forged} /\ pool'[t].batch = b
    BY <1>5, <1>8
  <2> QED
    BY <2>1, <2>2, <1>7, <1>9, <1>10 DEF SelectedIsMarked
<1>14. RevertibleIsKept'
  <2>1. ASSUME NEW n \in 1..cur, n >= top' - SafetyPeriod, NEW t \in batches[n], t \notin Changed
        PROVE  t \in DOMAIN p
    <3>1. n >= top - SafetyPeriod /\ n >= b - SafetyPeriod
      BY <2>1, <1>2, PoolAssumption
    <3>2. t \in DOMAIN pool
      BY <2>1, <3>1 DEF IInv, RevertibleIsKept, Changed
    <3> QED
      BY <2>1, <3>1, <3>2, <1>4
  <2>2. \A n \in 1..cur' : n >= top' - SafetyPeriod => batches'[n] \ Changed' \subseteq DOMAIN pool'
    BY <2>1, <1>2, <1>5, <1>7, <1>9, <1>10
  <2> QED
    BY <2>2 DEF RevertibleIsKept, Changed
<1>15. LimitsHold'
  <2>1. \A t \in DOMAIN p \ Changed : pool[t].maxBatch # 0
    BY <1>3 DEF IInv, LimitsHold
  <2>2. ASSUME NEW t \in DOMAIN p \ Changed, NEW n \in 1..cur, t \in batches[n]
        PROVE  pool[t].maxBatch = NULL \/ pool[t].maxBatch >= n
    BY <2>2, <1>3 DEF IInv, LimitsHold
  <2>3. ASSUME NEW t \in ids, t \notin Changed
        PROVE  pool[t].maxBatch = NULL \/ pool[t].maxBatch >= b
    <3>1. pool[t] \in Row /\ ~Limited(t, b) /\ pool[t].maxBatch # 0
      BY <2>1, <2>3, <1>1, <1>3, <1>5, RowType
    <3> QED
      BY <3>1, <1>2 DEF Limited, Row
  <2> QED
    BY <2>1, <2>2, <2>3, <1>2, <1>7, <1>8, <1>9, <1>10 DEF LimitsHold
<1> QED
  BY <1>11, <1>12, <1>13, <1>14, <1>15 DEF IInv, MarksAgree

-----------------------------------------------------------------------------
(* IInv holds in every state. *)

LEMMA InitIInv == Init => IInv
BY DEF Init, IInv, TypeOK, IsPool, MarksAgree, PendingHasNoBatch, SelectedIsMarked,
       RevertibleIsKept, LimitsHold, cur

LEMMA NextIInv == IInv /\ [Next]_vars => IInv'
<1>1. ASSUME IInv, UNCHANGED vars PROVE IInv'
  BY <1>1 DEF vars, IInv, TypeOK, IsPool, MarksAgree, PendingHasNoBatch, SelectedIsMarked,
              RevertibleIsKept, LimitsHold, cur, Changed
<1> QED
  BY <1>1, AddKeeps, ReplaceKeeps, UpdateKeeps, MarkKeeps, ForgeKeeps, SentKeeps, GiveUpKeeps,
     PurgeMaybeKeeps, ExternalDeleteKeeps DEF Next, ForgeBatch

(* The table is a table and the invariant holds, for any life of the pool. *)
THEOREM PoolInductive == Spec => []IInv
BY InitIInv, NextIInv, PTL DEF Spec

(* Whatever the API, the purger and the reorganisations do meanwhile, the marks of
   the rows agree with the batches, and the transactions of a batch that can still be
   given up are in the table. *)
THEOREM PoolStaysMatched == Spec => []PoolMatchesBatches
<1>1. IInv => PoolMatchesBatches
  BY DEF IInv, PoolMatchesBatches
<1> QED
  BY <1>1, PoolInductive, PTL

-----------------------------------------------------------------------------
(* What a step may not do. *)

\* one step of GivenUpIsPending
GivesBackAll ==
  Len(batches') < cur =>
    \A n \in Len(batches')+1..cur : \A t \in batches[n] \cap DOMAIN pool :
      t \in DOMAIN pool' /\ pool'[t].state = Pending

\* one step of UnlimitedIsKept
KeepsUnlimited ==
  \A t \in DOMAIN pool \ DOMAIN pool' :
    pool[t].state = Pending /\ pool[t].maxBatch = NULL =>
      pool[t].old \/ pool[t].extDelete \/ ReplacedByAnother(t)

LEMMA GivenUpStep ==
  ASSUME IInv, Next PROVE GivesBackAll
<1>1. CASE GiveUp
  <2>1. PICK last \in 0..cur-1 : /\ pool' = Reorg(pool, last)
                                /\ batches' = SubSeq(batches, 1, last)
    BY <1>1 DEF GiveUp
  <2>2. Len(batches') = last /\ last \in Nat
    BY <2>1, BatchesType DEF cur
  <2>3. ASSUME NEW n \in last+1..cur, NEW t \in batches[n] \cap DOMAIN pool
        PROVE  t \in DOMAIN pool' /\ pool'[t].state = Pending
    <3>1. pool[t].batch = n /\ n > last
      BY <2>2, <2>3, BatchesType, SelectedRow
    <3> QED
      BY <2>1, <2>2, <3>1, RowType, RowAfterReorg
  <2> QED
    BY <2>2, <2>3 DEF GivesBackAll
<1>2. ASSUME NEW purge \in BOOLEAN, Forge(purge) PROVE GivesBackAll
  BY <1>2, BatchesType DEF Forge, GivesBackAll, cur
<1>3. CASE batches' = batches
  BY <1>3, BatchesType DEF GivesBackAll, cur
<1> QED
  BY <1>1, <1>2, <1>3 DEF Next, Add, Replace, Update, MarkExternalDelete, GetOld, ForgeBatch,
                          Sent, PurgeMaybe, ExternalDelete

LEMMA PurgedRow ==
  ASSUME NEW p, NEW n, NEW t \in DOMAIN p \ DOMAIN Purge(p, n),
         p[t].state = Pending, p[t].maxBatch = NULL
  PROVE  p[t].old
BY DEF Purge, Delete

LEMMA UnlimitedStep ==
  ASSUME IInv, Next PROVE KeepsUnlimited
<1>1. CASE Replace
  <2>1. PICK t \in TxIDs \ Atomic, m \in Limits : pool' = ReplaceTx(pool, t, m)
    BY <1>1 DEF Replace
  <2>2. DOMAIN pool' = (DOMAIN pool \ Replaced(pool, t)) \cup {t}
    BY <2>1 DEF ReplaceTx, Insert, Delete
  <2> QED
    BY <2>2 DEF KeepsUnlimited, ReplacedByAnother, Replaced
<1>2. ASSUME NEW purge \in BOOLEAN, Forge(purge) PROVE KeepsUnlimited
  <2>1. DOMAIN pool' = DOMAIN IF purge THEN Purge(pool, cur + 1) ELSE pool
    BY <1>2 DEF Forge, StartForging, InvalidateOldNonces, SetState
  <2> QED
    BY <2>1, PurgedRow DEF KeepsUnlimited
<1>3. CASE PurgeMaybe
  BY <1>3, PurgedRow DEF PurgeMaybe, KeepsUnlimited
<1>4. CASE ExternalDelete
  BY <1>4 DEF ExternalDelete, PurgeByExternalDelete, Delete, InState, KeepsUnlimited
<1>5. CASE Sent \/ GiveUp
  BY <1>5 DEF Sent, GiveUp, DoneForging, Reorg, SetState, KeepsUnlimited
<1>6. CASE Add
  BY <1>6 DEF Add, AddTxs, Insert, KeepsUnlimited
<1>7. CASE Update \/ MarkExternalDelete \/ GetOld
  BY <1>7 DEF Update, UpdateTx, MarkExternalDelete, GetOld, KeepsUnlimited
<1> QED
  BY <1>1, <1>2, <1>3, <1>4, <1>5, <1>6, <1>7 DEF Next, ForgeBatch

(* A batch that is given up gives all its transactions back, and no statement of the
   coordinator takes a pending transaction without limit for one to clean up. *)
THEOREM PoolKeepsPromises == Spec => PoolKeeps
<1>1. IInv /\ [Next]_vars => [GivesBackAll]_vars
  BY GivenUpStep
<1>2. IInv /\ [Next]_vars => [KeepsUnlimited]_vars
  BY UnlimitedStep
<1>3. Spec => [][GivesBackAll]_vars
  BY <1>1, PoolInductive, PTL DEF Spec
<1>4. Spec => [][KeepsUnlimited]_vars
  BY <1>2, PoolInductive, PTL DEF Spec
<1> QED
  BY <1>3, <1>4 DEF PoolKeeps, GivenUpIsPending, UnlimitedIsKept, GivesBackAll, KeepsUnlimited

=============================================================================
