------------------------------- MODULE L2Pool -------------------------------
(***************************************************************************)
(* The tx_pool table of db/l2db: the statements the coordinator, the API   *)
(* and the purger run on it, each as an operator from the table before to  *)
(* the table after.  A statement is one SQL UPDATE, INSERT or DELETE (or   *)
(* one database transaction), hence atomic.                                *)
(*                                                                         *)
(* A table is a function from the ids of the rows it holds to rows.  Of a  *)
(* row only what the WHERE clauses of the statements look at is kept; the  *)
(* columns that never change after the insert (sender, nonce,              *)
(* atomic_group_id) are functions of the id.  The column "timestamp" is    *)
(* kept as "old": older than the ttl of the pool.                          *)
(*                                                                         *)
(* A definition that a comment calls a mutant is wrong on purpose: put in  *)
(* the place of the next one it makes a property of the runs fail.         *)
(***************************************************************************)
EXTENDS Integers, FiniteSets, FiniteSetsExt

CONSTANTS
  TxIDs,          \* ids of the L2 transactions that may ever be in the pool
  FromIdx,        \* [TxIDs -> account index of the sender]
  Nonce,          \* [TxIDs -> Nat]
  Atomic,         \* ids that belong to an atomic group
  MaxTxs,         \* l2db.maxTxs
  SafetyPeriod    \* l2db.safetyPeriod

ASSUME PoolAssumption ==
  /\ Nonce \in [TxIDs -> Nat]
  /\ MaxTxs \in Nat
  /\ SafetyPeriod \in Nat

Pending == "pend"
Forging == "fing"
Forged  == "fged"
Invalid == "invl"
States  == {Pending, Forging, Forged, Invalid}

NULL == -1        \* a NULL batch_num or max_num_batch

Row == [state : States, batch : Nat \cup {NULL}, maxBatch : Nat \cup {NULL},
        extDelete : BOOLEAN, old : BOOLEAN]

IsPool(pool) == DOMAIN pool \subseteq TxIDs /\ pool \in [DOMAIN pool -> Row]

\* the row the INSERT writes: a limit m = 0 ("no restriction") is stored as NULL
NewRow(m) == [state |-> Pending, batch |-> NULL, maxBatch |-> IF m = 0 THEN NULL ELSE m,
              extDelete |-> FALSE, old |-> FALSE]

InState(pool, states) == {t \in DOMAIN pool : pool[t].state \in states}

\* UPDATE tx_pool SET state = s, batch_num = b WHERE tx_id IN ids
SetState(pool, ids, s, b) ==
  [t \in DOMAIN pool |-> IF t \in ids THEN [pool[t] EXCEPT !.state = s, !.batch = b]
                                      ELSE pool[t]]

\* DELETE FROM tx_pool WHERE tx_id IN ids
Delete(pool, ids) == [t \in DOMAIN pool \ ids |-> pool[t]]

Insert(pool, ids, m) ==
  [t \in DOMAIN pool \cup ids |-> IF t \in ids THEN NewRow(m) ELSE pool[t]]

-----------------------------------------------------------------------------
(* Statements of the API *)

\* the WHERE of the INSERT: the limit counts pending rows not marked for deletion
PoolIsFull(pool) ==
  Cardinality({t \in InState(pool, {Pending}) : ~pool[t].extDelete}) >= MaxTxs

\* one INSERT for a transaction, or for all the transactions of an atomic group
CanAddTxs(pool, ids) == ids \cap DOMAIN pool = {} /\ ~PoolIsFull(pool)

AddTxs(pool, ids, m) == Insert(pool, ids, m)

\* updateTx: no condition on the state; the limit is written as it is, 0 included
CanUpdateTx(pool, t) == t \in DOMAIN pool /\ t \notin Atomic

UpdateTx(pool, t, m) == [pool EXCEPT ![t].maxBatch = m]

\* rows that updateTxByIdxAndNonce deletes to make room for t
Replaced(pool, t) ==
  {u \in InState(pool, {Pending, Invalid}) :
     /\ FromIdx[u] = FromIdx[t] /\ Nonce[u] = Nonce[t]
     /\ u \notin Atomic /\ ~pool[u].extDelete}

CanReplaceTx(pool, t) ==
  Replaced(pool, t) # {} /\ t \notin DOMAIN pool \ Replaced(pool, t)

ReplaceTx(pool, t, m) == Insert(Delete(pool, Replaced(pool, t)), {t}, m)

-----------------------------------------------------------------------------
(* Statements of the coordinator *)

\* GetPendingTxs: what the transaction selector chooses from
PendingTxs(pool) == {t \in InState(pool, {Pending}) : ~pool[t].extDelete}

StartForging(pool, ids, b) ==
  SetState(pool, ids \cap InState(pool, {Pending}), Forging, b)

DoneForging(pool, ids, b) ==
  SetState(pool, ids \cap InState(pool, {Forging}), Forged, b)

\* accNonce: a function from some account indexes to nonces
InvalidateOldNonces(pool, accNonce, b) ==
  SetState(pool, {t \in InState(pool, {Pending}) : /\ FromIdx[t] \in DOMAIN accNonce
                                                   /\ Nonce[t] < accNonce[FromIdx[t]]},
           Invalid, b)

\* idxsNonceFromPoolL2Txs: the highest nonce of each sender of the set
IdxsNonce(ids) ==
  [i \in {FromIdx[t] : t \in ids} |-> Max({Nonce[t] : t \in {u \in ids : FromIdx[u] = i}})]

\* mutant: batch_num is not set to NULL
Reorg_KeepBatch(pool, last) ==
  [t \in DOMAIN pool |->
     IF /\ pool[t].state \in {Forging, Forged, Invalid}
        /\ pool[t].batch # NULL /\ pool[t].batch > last
     THEN [pool[t] EXCEPT !.state = Pending] ELSE pool[t]]

\* mutant: leaves forged rows alone
Reorg_NotForged(pool, last) ==
  SetState(pool, {t \in InState(pool, {Forging, Invalid}) :
                    pool[t].batch # NULL /\ pool[t].batch > last},
           Pending, NULL)

Reorg(pool, last) ==
  SetState(pool, {t \in InState(pool, {Forging, Forged, Invalid}) :
                    pool[t].batch # NULL /\ pool[t].batch > last},
           Pending, NULL)

\* mutant: batch_num <= bound
Purge_UpTo(pool, cur) ==
  LET bound == cur - SafetyPeriod
  IN  Delete(pool,
        {t \in DOMAIN pool :
           \/ /\ pool[t].state \in {Forged, Invalid}
              /\ pool[t].batch # NULL /\ pool[t].batch <= bound
           \/ pool[t].state = Pending /\ pool[t].old
           \/ pool[t].maxBatch # NULL /\ pool[t].maxBatch < bound})

\* mutant: a limit that is NULL counts as passed
Purge_NullIsPassed(pool, cur) ==
  LET bound == cur - SafetyPeriod
  IN  Delete(pool,
        {t \in DOMAIN pool :
           \/ /\ pool[t].state \in {Forged, Invalid}
              /\ pool[t].batch # NULL /\ pool[t].batch < bound
           \/ pool[t].state = Pending /\ pool[t].old
           \/ pool[t].maxBatch < bound})

Purge(pool, cur) ==
  LET bound == cur - SafetyPeriod
  IN  Delete(pool,
        {t \in DOMAIN pool :
           \/ /\ pool[t].state \in {Forged, Invalid}
              /\ pool[t].batch # NULL /\ pool[t].batch < bound
           \/ pool[t].state = Pending /\ pool[t].old
           \/ pool[t].maxBatch # NULL /\ pool[t].maxBatch < bound})

PurgeByExternalDelete(pool) ==
  Delete(pool, {t \in InState(pool, {Pending}) : pool[t].extDelete})

=============================================================================
