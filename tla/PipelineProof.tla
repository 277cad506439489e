--------------------------- MODULE PipelineProof ---------------------------
(***************************************************************************)
(* Proofs about the forging pipeline, for any number of provers,           *)
(* transactions, batches and restarts and any capacity of the channels.    *)
(*                                                                         *)
(* IInv is inductive.  Its parts say where the provers are, how the two    *)
(* local databases and the counter of the forge goroutine go together at   *)
(* each place of that goroutine, and that the batches on their way form a  *)
(* chain from the last one delivered to the state of the BatchBuilder.     *)
(* TakeInv, in the last part, says what that state has taken from the      *)
(* queues of the contract and what its marks in the pool stand for.        *)
(***************************************************************************)
EXTENDS Pipeline, FiniteSetTheorems, SequenceTheorems, TLAPS

AtWork1 == {"build", "prove", "send"}
AtWork2 == {"wait", "msg", "revert", "add", "deliver"}

\* the forge goroutine holds a prover exactly while it makes a batch for it
Holding ==
  /\ prover1 \in IF pc1 \in {"forge", "build", "prove"} THEN Provers ELSE {NoProver}
  /\ pc1 \in {"build", "prove"} => batch1.prover = prover1
  /\ pc1 \in {"get", "forge", "build", "prove", "msg"} => batchNum # 0

Forging1 == pc1 = "forge" \/ (pc1 = "get" /\ ctx = "run")

\* the counter and the lengths of the two states; nothing is said once the forge
\* goroutine has failed or the pipeline is cancelled
InStepAt ==
  /\ Forging1 \/ pc1 \in {"build", "prove"} => batchNum = st.batchNum + 1
  /\ Forging1 => Len(selDB.cur) = st.batchNum
  /\ pc1 \in {"build", "prove"} => Len(selDB.cur) = batchNum
  /\ Forging1 \/ pc1 = "build" => Len(bbDB.cur) = st.batchNum
  /\ pc1 = "prove" => Len(bbDB.cur) = batchNum
  /\ pc1 = "send" => Len(selDB.cur) = st.batchNum /\ Len(bbDB.cur) = st.batchNum
  /\ Running /\ pc1 \in {"select", "revert"} => /\ Len(selDB.cur) = st.batchNum
                                                /\ Len(bbDB.cur) = st.batchNum
  /\ pc1 = "msg" /\ ctx = "run" => errAt # 0

\* without pipeline there are no goroutines
Stopping ==
  /\ ctx = "none" => pc1 = "done" /\ pc2 = "done"
  /\ coord = "stop" => ctx = "done"

\* the state the selector works on can be come back to
Stored == selDB.cur = <<>> \/ selDB.cur \in selDB.cks

\* OneProofEach without the record
ProversApart ==
  /\ prover1 \notin free
  /\ pc1 = "send" => batch1.prover \notin free
  /\ ch # <<>> => /\ Head(ch).prover \notin free \cup {prover1}
                  /\ pc1 = "send" => Head(ch).prover # batch1.prover
  /\ pc2 \in {"wait", "add"} =>
       /\ batch2.prover \notin free \cup {prover1}
       /\ pc1 = "send" => batch2.prover # batch1.prover
       /\ ch # <<>> => batch2.prover # Head(ch).prover

\* the state each batch in the line is built on
Tip2 == IF pc2 \in {"wait", "add", "deliver"} THEN Root(batch2) ELSE out
Tip3 == IF ch # <<>> THEN Root(Head(ch)) ELSE Tip2

Line ==
  /\ pc2 \in {"add", "deliver"} => batch2.base = out
  /\ pc2 = "wait" /\ ctx = "run" => batch2.base = out
  /\ Running =>
       /\ ch # <<>> => Head(ch).base = Tip2
       /\ pc1 \in {"select", "get", "forge", "build", "revert"} => bbDB.cur = Tip3
       /\ pc1 \in AtWork1 => batch1.base = Tip3
       /\ pc1 \in {"prove", "send"} => bbDB.cur = Root(batch1)

IInv == TypeOK /\ Holding /\ InStepAt /\ Stopping /\ Stored /\ ProversApart /\ Line

USE DEF Pending, Forging, Forged, Invalid, NULL

-----------------------------------------------------------------------------
(* The statements on the table: each gives a table again. *)

LEMMA SetStateIsPool ==
  ASSUME NEW p, IsPool(p), NEW ids, NEW s \in States, NEW b \in Nat \cup {NULL}
  PROVE  IsPool(SetState(p, ids, s, b))
BY DEF IsPool, SetState, Row, States

LEMMA DeleteIsPool ==
  ASSUME NEW p, IsPool(p), NEW ids
  PROVE  IsPool(Delete(p, ids))
BY DEF IsPool, Delete

LEMMA NewRowIsRow ==
  ASSUME NEW m \in Nat
  PROVE  NewRow(m) \in Row
BY DEF NewRow, Row, States

LEMMA InsertIsPool ==
  ASSUME NEW p, IsPool(p), NEW ids \in SUBSET TxIDs, NEW m \in Nat
  PROVE  IsPool(Insert(p, ids, m))
BY NewRowIsRow DEF IsPool, Insert

LEMMA StatementsGivePool ==
  ASSUME NEW p, IsPool(p), NEW ids, NEW b \in Nat, NEW acc
  PROVE  /\ IsPool(StartForging(p, ids, b))
         /\ IsPool(DoneForging(p, ids, b))
         /\ IsPool(InvalidateOldNonces(p, acc, b))
         /\ IsPool(PurgeByExternalDelete(p))
<1>1. IsPool(StartForging(p, ids, b))
  BY SetStateIsPool DEF StartForging, States
<1>2. IsPool(DoneForging(p, ids, b))
  BY SetStateIsPool DEF DoneForging, States
<1>3. IsPool(InvalidateOldNonces(p, acc, b))
  BY SetStateIsPool DEF InvalidateOldNonces, States
<1>4. IsPool(PurgeByExternalDelete(p))
  BY DeleteIsPool DEF PurgeByExternalDelete
<1> QED
  BY <1>1, <1>2, <1>3, <1>4

LEMMA ReorgIsPool ==
  ASSUME NEW p, IsPool(p), NEW n
  PROVE  IsPool(Reorg(p, n))
BY SetStateIsPool DEF Reorg, States

LEMMA PurgeIsPool ==
  ASSUME NEW p, IsPool(p), NEW n
  PROVE  IsPool(Purge(p, n))
BY DeleteIsPool DEF Purge

\* an UPDATE of state and batch_num leaves the other columns, and the other rows
LEMMA RowAfterSetState ==
  ASSUME NEW p, IsPool(p), NEW ids, NEW s, NEW b, NEW t \in DOMAIN p
  PROVE  LET q == SetState(p, ids, s, b)
         IN  /\ DOMAIN q = DOMAIN p
             /\ t \in ids => q[t].state = s /\ q[t].batch = b
             /\ t \notin ids => q[t] = p[t]
             /\ q[t].maxBatch = p[t].maxBatch
BY DEF IsPool, SetState, Row

-----------------------------------------------------------------------------
(* States and databases *)

LEMMA L1CountType ==
  ASSUME NEW root \in Seq(Entry)
  PROVE  L1Count(root) \in Nat
<1>1. IsFiniteSet(DOMAIN root)
  BY FS_Interval
<1>2. IsFiniteSet({i \in DOMAIN root : root[i].l1})
  BY <1>1, FS_Subset
<1> QED
  BY <1>2, FS_CardinalityType DEF L1Count

LEMMA LocalType ==
  ASSUME NEW db, \A r \in db.cks : r \in Seq(Entry), NEW n \in Nat,
         n = 0 \/ HasCheckpoint(db, n)
  PROVE  LET new == Local(db, n)
         IN  /\ new.cur \in Seq(Entry) /\ Len(new.cur) = n
             /\ new.cur = <<>> \/ new.cur \in new.cks
             /\ new.cks \subseteq db.cks
<1>1. CASE n = 0
  BY <1>1 DEF Local
<1>2. CASE n # 0
  <2> DEFINE r0 == CHOOSE r \in db.cks : Len(r) = n
  <2>1. r0 \in db.cks /\ Len(r0) = n
    BY <1>2 DEF HasCheckpoint
  <2> HIDE DEF r0
  <2>2. Local(db, n) = [cur |-> r0, cks |-> {r \in db.cks : Len(r) <= n}]
    BY <1>2 DEF Local, r0
  <2> QED
    BY <2>1, <2>2
<1> QED
  BY <1>1, <1>2

LEMMA PrefixType ==
  ASSUME NEW root \in Seq(Entry), NEW n \in Nat, n <= Len(root)
  PROVE  SubSeq(root, 1, n) \in Seq(Entry) /\ Len(SubSeq(root, 1, n)) = n
BY SubSeqProperties

LEMMA FromSynchronizerType ==
  ASSUME NEW root \in Seq(Entry)
  PROVE  LET new == FromSynchronizer(root)
         IN  /\ new.cur = root
             /\ new.cur = <<>> \/ new.cur \in new.cks
             /\ \A r \in new.cks : r \in Seq(Entry)
BY DEF FromSynchronizer

LEMMA ResetDBType ==
  ASSUME NEW db, \A r \in db.cks : r \in Seq(Entry), chain \in Seq(Entry),
         NEW n \in Nat, CanReset(db, n)
  PROVE  LET new == ResetDB(db, n)
         IN  /\ new.cur \in Seq(Entry) /\ Len(new.cur) = n
             /\ new.cur = <<>> \/ new.cur \in new.cks
             /\ \A r \in new.cks : r \in Seq(Entry)
<1>1. CASE n = 0 \/ HasCheckpoint(db, n)
  BY <1>1, LocalType DEF ResetDB
<1>2. CASE ~(n = 0 \/ HasCheckpoint(db, n))
  <2>1. n <= Len(chain)
    BY <1>2 DEF CanReset, LastBatch
  <2>2. SubSeq(chain, 1, n) \in Seq(Entry) /\ Len(SubSeq(chain, 1, n)) = n
    BY <2>1, PrefixType
  <2>3. ResetDB(db, n) = FromSynchronizer(SubSeq(chain, 1, n))
    BY <1>2 DEF ResetDB
  <2> QED
    BY <2>2, <2>3, FromSynchronizerType
<1> QED
  BY <1>1, <1>2

LEMMA MakeCheckpointType ==
  ASSUME NEW db, db.cur \in Seq(Entry), \A r \in db.cks : r \in Seq(Entry),
         db.cur = <<>> \/ db.cur \in db.cks, NEW e \in Entry
  PROVE  /\ MakeCheckpoint(db, e).cur = Append(db.cur, e)
         /\ Append(db.cur, e) \in Seq(Entry)
         /\ Len(Append(db.cur, e)) = Len(db.cur) + 1
         /\ Append(db.cur, e) \in MakeCheckpoint(db, e).cks
         /\ \A r \in MakeCheckpoint(db, e).cks : r \in Seq(Entry)
         /\ Len(db.cur) = 0 \/ HasCheckpoint(MakeCheckpoint(db, e), Len(db.cur))
<1> DEFINE r1 == Append(db.cur, e)
<1>1. r1 \in Seq(Entry)
  BY AppendProperties
<1>6. Len(r1) = Len(db.cur) + 1
  BY AppendProperties
<1>2. MakeCheckpoint(db, e) = [cur |-> r1, cks |-> {c \in db.cks : Len(c) # Len(r1)} \cup {r1}]
  BY DEF MakeCheckpoint
<1>3. Len(db.cur) = 0 \/ HasCheckpoint(MakeCheckpoint(db, e), Len(db.cur))
  BY <1>1, <1>6, <1>2 DEF HasCheckpoint
<1>4. \A r \in MakeCheckpoint(db, e).cks : r \in Seq(Entry)
  <2>1. MakeCheckpoint(db, e).cks \subseteq db.cks \cup {r1}
    BY <1>2
  <2> QED
    BY <1>1, <2>1
<1>5. /\ MakeCheckpoint(db, e).cur = r1
      /\ r1 \in MakeCheckpoint(db, e).cks
  BY <1>2
<1> QED
  BY <1>1, <1>6, <1>3, <1>4, <1>5

LEMMA RootType ==
  ASSUME NEW b \in BatchInfo
  PROVE  /\ Root(b) \in Seq(Entry)
         /\ [txs |-> b.txs, l1 |-> b.l1] \in Entry
BY AppendProperties DEF Root, BatchInfo, Entry

LEMMA SelectionType ==
  ASSUME NEW p, IsPool(p), NEW root, NEW ids \in Selection(p, root)
  PROVE  ids \in SUBSET TxIDs
BY DEF Selection, PendingTxs, InState, IsPool

-----------------------------------------------------------------------------
(* TypeOK is preserved.  The place where its type is not seen at once is the
   selector's database after a skipped batch: the state it goes back to is
   stored (Stored, InStepAt). *)

LEMMA TypeG1Select ==
  ASSUME TypeOK, Holding, InStepAt, Stored, G1Select
  PROVE  TypeOK'
<1> USE DEF UNCH1, UNCHLine, histVars, coordVars, envVars, g2Vars
<1>1. IsPool(pool')
  <2>1. PICK invalidate, purge \in BOOLEAN : pool' = AfterPurger(invalidate, purge)
    BY DEF G1Select
  <2>2. IsPool(InvalidateOldNonces(pool, AccNonce(selDB.cur), batchNum))
    BY StatementsGivePool DEF TypeOK
  <2> QED
    BY <2>1, <2>2, PurgeIsPool DEF AfterPurger, TypeOK
<1>2. CASE NotSelected
  BY <1>1, <1>2 DEF NotSelected, Skip, Fail, GiveBack, TypeOK, Holding, G1Select, Places1
<1>3. ASSUME NEW ids \in Selection(pool', selDB.cur), NEW l1 \in BOOLEAN
      PROVE  /\ [txs |-> ids, l1 |-> l1] \in Entry
             /\ \A r \in MakeCheckpoint(selDB, [txs |-> ids, l1 |-> l1]).cks : r \in Seq(Entry)
             /\ MakeCheckpoint(selDB, [txs |-> ids, l1 |-> l1]).cur \in Seq(Entry)
             /\ \/ Len(selDB.cur) = 0
                \/ HasCheckpoint(MakeCheckpoint(selDB, [txs |-> ids, l1 |-> l1]), Len(selDB.cur))
  <2>1. [txs |-> ids, l1 |-> l1] \in Entry
    BY <1>1, SelectionType DEF Entry
  <2> QED
    BY <2>1, MakeCheckpointType DEF TypeOK, Stored
<1>4. ASSUME NEW ids \in Selection(pool', selDB.cur), NEW l1 \in BOOLEAN, Select(ids, l1)
      PROVE  TypeOK'
  <2>1. batch1' \in BatchInfo
    BY <1>1, <1>4, SelectionType
       DEF Select, BatchInfo, TypeOK, Holding, G1Select
  <2>2. /\ selDB'.cur \in Seq(Entry)
        /\ \A r \in selDB'.cks : r \in Seq(Entry)
    BY <1>3, <1>4 DEF Select
  <2> QED
    BY <1>1, <1>4, <2>1, <2>2 DEF Select, TypeOK, Places1, G1Select
<1>5. ASSUME NEW ids \in Selection(pool', selDB.cur), NEW l1 \in BOOLEAN, SkipSelected(ids, l1)
      PROVE  TypeOK'
  <2>1. /\ Len(selDB.cur) = batchNum - 1
        /\ batchNum - 1 \in Nat
    <3>1. batchNum = st.batchNum + 1 /\ Len(selDB.cur) = st.batchNum
      BY DEF G1Select, InStepAt, Forging1
    <3>2. st.batchNum \in Nat
      BY DEF TypeOK
    <3> QED
      BY <3>1, <3>2
  <2>2. /\ selDB'.cur \in Seq(Entry)
        /\ \A r \in selDB'.cks : r \in Seq(Entry)
    BY <1>3, <1>5, <2>1, LocalType DEF SkipSelected, ResetSelector
  <2> QED
    BY <1>1, <1>5, <2>2 DEF SkipSelected, Skip, GiveBack, TypeOK, Holding, Places1, G1Select
<1> QED
  BY <1>2, <1>4, <1>5 DEF G1Select

LEMMA TypeG1Build ==
  ASSUME TypeOK, Holding, G1Build
  PROVE  TypeOK'
<1> USE DEF UNCH1, UNCHLine, histVars, coordVars, envVars, g2Vars, Places1
<1>1. batch1 \in BatchInfo /\ pc1 = "build"
  BY DEF TypeOK, G1Build
<1>2. IsPool(pool) /\ IsPool(Marked)
  BY StatementsGivePool DEF TypeOK, Marked
<1>3. st' \in [batchNum : Nat, lastL1 : Nat]
  <2>1. L1Forged \in Nat
    BY DEF L1Forged
  <2>2. st \in [batchNum : Nat, lastL1 : Nat]
    BY DEF TypeOK
  <2>3. st' = [st EXCEPT !.lastL1 = @ + L1Forged]
    BY DEF G1Build
  <2> QED
    BY <2>1, <2>2, <2>3
<1>4. /\ MakeCheckpoint(bbDB, [txs |-> batch1.txs, l1 |-> batch1.l1]).cur \in Seq(Entry)
      /\ \A r \in MakeCheckpoint(bbDB, [txs |-> batch1.txs, l1 |-> batch1.l1]).cks :
           r \in Seq(Entry)
  <2> DEFINE r1 == Append(bbDB.cur, [txs |-> batch1.txs, l1 |-> batch1.l1])
  <2>1. r1 \in Seq(Entry)
    BY <1>1, RootType, AppendProperties DEF TypeOK
  <2>2. \A r \in bbDB.cks : r \in Seq(Entry)
    BY DEF TypeOK
  <2> HIDE DEF r1
  <2> QED
    BY <2>1, <2>2 DEF MakeCheckpoint, r1
<1>5. CASE Build
  <2>1. built' \subseteq [num : Nat \ {0}, txs : SUBSET TxIDs]
    BY <1>1, <1>5 DEF Build, TypeOK, Holding, BatchInfo
  <2> QED
    BY <1>1, <1>2, <1>3, <1>4, <1>5, <2>1
       DEF Build, Skip, GiveBack, TypeOK, Holding, G1Build
<1>6. CASE BuildFails
  BY <1>1, <1>2, <1>3, <1>6 DEF BuildFails, Fail, Skip, GiveBack, TypeOK, Holding, G1Build
<1> QED
  BY <1>5, <1>6 DEF G1Build

LEMMA TypeForgeLoop ==
  ASSUME TypeOK, Holding, InStepAt, Stored, ForgeLoop
  PROVE  TypeOK'
<1> USE DEF UNCH1, UNCHLine, histVars, coordVars, envVars, g2Vars, Places1
<1>1. CASE G1Stats
  BY <1>1, L1CountType DEF TypeOK, G1Stats
<1>2. CASE G1Timer
  BY <1>2 DEF TypeOK, G1Timer
<1>3. CASE G1Get
  BY <1>3 DEF TypeOK, G1Get
<1>4. CASE G1Select
  BY <1>4, TypeG1Select
<1>5. CASE G1Build
  BY <1>5, TypeG1Build
<1>6. CASE G1Prove
  BY <1>6 DEF TypeOK, G1Prove, Holding, Fail, Skip, GiveBack
<1>7. CASE G1Msg
  <2>1. Append(msgCh, batchNum) \in Seq(Nat)
    BY AppendProperties DEF TypeOK
  <2> QED
    BY <1>7, <2>1 DEF TypeOK, G1Msg
<1>8. CASE G1Revert
  BY <1>8, ReorgIsPool DEF TypeOK, G1Revert
<1>9. CASE G1Send
  <2>1. batch1 \in BatchInfo
    BY <1>9 DEF TypeOK, G1Send
  <2>2. ch = <<>> => Append(ch, batch1) \in Seq(BatchInfo) /\ Len(Append(ch, batch1)) = 1
    BY <2>1, AppendProperties DEF TypeOK
  <2>3. ch' \in Seq(BatchInfo) /\ Len(ch') <= 1
    <3>1. (ch = <<>> /\ ch' = Append(ch, batch1)) \/ ch' = ch
      BY <1>9 DEF G1Send
    <3>2. ch \in Seq(BatchInfo) /\ Len(ch) <= 1
      BY DEF TypeOK
    <3> QED
      BY <2>2, <3>1, <3>2
  <2>4. pc1' = "select" /\ batch1' = NoBatch
    BY <1>9 DEF G1Send
  <2> QED
    BY <1>9, <2>3, <2>4 DEF TypeOK, G1Send
<1>10. CASE G1Done
  BY <1>10 DEF TypeOK, G1Done
<1> QED
  BY <1>1, <1>2, <1>3, <1>4, <1>5, <1>6, <1>7, <1>8, <1>9, <1>10 DEF ForgeLoop

LEMMA TypeProofLoop ==
  ASSUME TypeOK, ProofLoop
  PROVE  TypeOK'
<1> USE DEF UNCH2, histVars, coordVars, envVars, g1Vars, Places2
<1>1. CASE G2Recv
  BY <1>1 DEF TypeOK, G2Recv
<1>2. CASE G2Wait
  BY <1>2 DEF TypeOK, G2Wait, BatchInfo
<1>3. CASE G2Msg
  <2>1. batch2 \in BatchInfo
    BY <1>3 DEF TypeOK, G2Msg
  <2>2. Append(msgCh, batch2.num) \in Seq(Nat)
    BY <2>1, AppendProperties DEF TypeOK, BatchInfo
  <2> QED
    BY <1>3, <2>1, <2>2 DEF TypeOK, G2Msg
<1>4. CASE G2Revert
  BY <1>4, ReorgIsPool DEF TypeOK, G2Revert
<1>5. CASE G2Add
  BY <1>5 DEF TypeOK, G2Add, BatchInfo
<1>6. CASE G2Deliver
  <2>1. batch2 \in BatchInfo
    BY <1>6 DEF TypeOK, G2Deliver
  <2>2. Append(batchCh, batch2) \in Seq(BatchInfo) /\ Root(batch2) \in Seq(Entry)
    BY <2>1, RootType, AppendProperties DEF TypeOK
  <2> QED
    BY <1>6, <2>1, <2>2 DEF TypeOK, G2Deliver
<1>7. CASE G2Done
  BY <1>7 DEF TypeOK, G2Done
<1> QED
  BY <1>1, <1>2, <1>3, <1>4, <1>5, <1>6, <1>7 DEF ProofLoop

LEMMA FromBatchType ==
  ASSUME TypeOK
  PROVE  FromBatch \in Nat /\ LastBatch \in Nat
BY LenProperties DEF TypeOK, FromBatch, LastBatch

\* Pipeline.reset leaves both databases at batch n
LEMMA ResetType ==
  ASSUME TypeOK, NEW n \in Nat, CanReset(selDB, n), CanReset(bbDB, n), Reset(n)
  PROVE  /\ selDB'.cur \in Seq(Entry) /\ Len(selDB'.cur) = n
         /\ selDB'.cur = <<>> \/ selDB'.cur \in selDB'.cks
         /\ bbDB'.cur \in Seq(Entry) /\ Len(bbDB'.cur) = n
         /\ \A r \in selDB'.cks \cup bbDB'.cks : r \in Seq(Entry)
<1>1. /\ chain \in Seq(Entry)
      /\ \A r \in selDB.cks : r \in Seq(Entry)
      /\ \A r \in bbDB.cks : r \in Seq(Entry)
  BY DEF TypeOK
<1>2. CASE n > LastBatch \/ n = 0 \/ ResetDB(bbDB, n).cur = SubSeq(chain, 1, n)
  <2>1. selDB' = ResetDB(selDB, n) /\ bbDB' = ResetDB(bbDB, n)
    BY <1>2 DEF Reset
  <2> QED
    BY <1>1, <2>1, ResetDBType
<1>3. CASE ~(n > LastBatch \/ n = 0 \/ ResetDB(bbDB, n).cur = SubSeq(chain, 1, n))
  <2>1. /\ selDB' = FromSynchronizer(SubSeq(chain, 1, n))
        /\ bbDB' = FromSynchronizer(SubSeq(chain, 1, n))
    BY <1>3 DEF Reset
  <2>2. n <= Len(chain)
    BY <1>1, <1>3, LenProperties DEF LastBatch
  <2>3. SubSeq(chain, 1, n) \in Seq(Entry) /\ Len(SubSeq(chain, 1, n)) = n
    BY <1>1, <2>2, PrefixType
  <2> QED
    BY <2>1, <2>3, FromSynchronizerType
<1> QED
  BY <1>2, <1>3

LEMMA TypeCoordinator ==
  ASSUME TypeOK, CoordinatorLoop
  PROVE  TypeOK'
<1> USE DEF histVars, coordVars, envVars, g1Vars, g2Vars
<1>1. CASE CoMsg
  <2>1. /\ Head(msgCh) \in Nat /\ msgCh' \in Seq(Nat)
    BY <1>1, HeadTailProperties DEF TypeOK, CoMsg
  <2> DEFINE back == IF Head(msgCh) # 0 THEN Head(msgCh) - 1 ELSE LastBatch
  <2>2. back \in Nat
    BY <2>1, FromBatchType
  <2>3. \/ /\ pool' = Reorg(pool, back) /\ lastNonFailed' = back
           /\ UNCHANGED <<coord, stopAt, ctx>>
        \/ /\ coord' = "stop" /\ stopAt' = back /\ ctx' = "done"
           /\ UNCHANGED <<pool, lastNonFailed>>
    BY <1>1 DEF CoMsg
  <2> HIDE DEF back
  <2>4. UNCHANGED <<num, envVars, g1Vars, g2Vars, errAt, free, ch, batchCh, histVars>>
    BY <1>1 DEF CoMsg
  <2>5. /\ IsPool(pool') /\ lastNonFailed' \in Nat
        /\ coord' \in {"idle", "tell", "stop"} /\ stopAt' \in Nat \cup {NULL}
        /\ ctx' \in {"none", "run", "done"}
    <3>1. /\ IsPool(pool) /\ lastNonFailed \in Nat /\ stopAt \in Nat \cup {NULL}
          /\ coord \in {"idle", "tell", "stop"} /\ ctx \in {"none", "run", "done"}
      BY DEF TypeOK
    <3> QED
      BY <2>2, <2>3, <3>1, ReorgIsPool
  <2> QED
    BY <2>1, <2>4, <2>5 DEF TypeOK
<1>2. CASE CoSlotEnd \/ CoTell \/ CoTold
  BY <1>2 DEF TypeOK, CoSlotEnd, CoTell, CoTold
<1>3. CASE CoStopped
  <2>1. /\ <<>> \in Seq(Entry) /\ <<>> \in Seq(BatchInfo)
        /\ [batchNum |-> 0, lastL1 |-> 0] \in [batchNum : Nat, lastL1 : Nat]
        /\ [own |-> <<>>, synced |-> <<>>] \in [own : Seq(Entry), synced : Seq(Entry)]
    BY EmptySeq
  <2>2. /\ IsPool(pool') /\ lastNonFailed' \in Nat
        /\ Len(<<>>) = 0
    BY <1>3, ReorgIsPool, EmptySeq DEF TypeOK, CoStopped
  <2>3. /\ coord' = "idle" /\ stopAt' = NULL /\ ctx' = "none"
        /\ st' = [batchNum |-> 0, lastL1 |-> 0] /\ statL1' = 0 /\ batchNum' = 0
        /\ errAt' = 0 /\ free' = {} /\ ch' = <<>> /\ out' = <<>>
        /\ from' = [own |-> <<>>, synced |-> <<>>] /\ disturbed' = {}
        /\ UNCHANGED <<num, msgCh, chain, sent, selDB, bbDB, mutex, pc1, prover1, batch1, pc2,
                       batch2, batchCh, built>>
    BY <1>3 DEF CoStopped, DropPipeline
  <2> QED
    BY <2>1, <2>2, <2>3 DEF TypeOK
<1>4. CASE CoStart
  <2> DEFINE n == FromBatch
  <2>1. /\ n \in Nat /\ CanReset(selDB, n) /\ CanReset(bbDB, n) /\ Reset(n)
    BY <1>4, FromBatchType DEF CoStart
  <2>2. /\ pool' = Reorg(pool, n)
        /\ batchNum' = n /\ out' = bbDB'.cur
        /\ st' = [batchNum |-> n, lastL1 |-> L1Count(chain)]
        /\ statL1' = L1Count(chain)
        /\ from' = [own |-> bbDB'.cur, synced |-> chain] /\ disturbed' = {}
    BY <1>4 DEF CoStart
  <2>3. L1Count(chain) \in Nat
    BY L1CountType DEF TypeOK
  <2>4. free' \in SUBSET Provers
    BY <1>4 DEF CoStart
  <2>5. ch' = <<>> /\ ch' \in Seq(BatchInfo) /\ Len(ch') = 0
    BY <1>4 DEF CoStart
  <2> HIDE DEF n
  <2> QED
    BY <1>4, <2>1, <2>2, <2>3, <2>4, <2>5, ResetType, ReorgIsPool
       DEF TypeOK, CoStart, Places1, Places2
<1>5. CASE CoStartFail
  <2>1. FromBatch \in Nat
    BY FromBatchType
  <2>2. IsPool(pool')
    BY <1>5, ReorgIsPool DEF CoStartFail, TypeOK
  <2>3. \/ UNCHANGED <<selDB, bbDB>>
        \/ selDB' = Closed /\ UNCHANGED bbDB
        \/ /\ CanReset(selDB, FromBatch)
           /\ selDB' = ResetDB(selDB, FromBatch) /\ bbDB' = Closed
    BY <1>5 DEF CoStartFail
  <2>4. /\ Closed.cur \in Seq(Entry)
        /\ \A r \in Closed.cks : r \in Seq(Entry)
    BY DEF Closed
  <2>5. /\ selDB'.cur \in Seq(Entry) /\ bbDB'.cur \in Seq(Entry)
        /\ \A r \in selDB'.cks \cup bbDB'.cks : r \in Seq(Entry)
    BY <2>1, <2>3, <2>4, ResetDBType DEF TypeOK
  <2> QED
    BY <1>5, <2>2, <2>5 DEF TypeOK, CoStartFail
<1> QED
  BY <1>1, <1>2, <1>3, <1>4, <1>5 DEF CoordinatorLoop

LEMMA TypeOthers ==
  ASSUME TypeOK, Others
  PROVE  TypeOK'
<1> USE DEF UNCHEnv, histVars, coordVars, envVars, g1Vars, g2Vars
<1>1. CASE TxManagerTake
  <2>1. Head(batchCh) \in BatchInfo /\ batchCh' \in Seq(BatchInfo)
    BY <1>1, HeadTailProperties DEF TypeOK, TxManagerTake
  <2>2. Append(msgCh, 0) \in Seq(Nat)
    BY AppendProperties DEF TypeOK
  <2>3. IsPool(DoneForging(pool, Head(batchCh).txs, Head(batchCh).num))
    BY <2>1, StatementsGivePool DEF TypeOK, BatchInfo
  <2>4. IsPool(pool') /\ msgCh' \in Seq(Nat) /\ (\A b \in sent' : b \in BatchInfo)
    BY <1>1, <2>1, <2>2, <2>3 DEF TypeOK, TxManagerTake
  <2>5. disturbed' \subseteq TxIDs
    BY <1>1 DEF TypeOK, TxManagerTake, Overtaken, InState, IsPool
  <2> QED
    BY <1>1, <2>1, <2>4, <2>5 DEF TypeOK, TxManagerTake
<1>2. CASE TxManagerStop
  <2>1. msgCh' \in Seq(Nat)
    BY <1>2, AppendProperties DEF TypeOK, TxManagerStop
  <2>2. \A b \in sent' : b \in BatchInfo
    BY <1>2 DEF TypeOK, TxManagerStop
  <2> QED
    BY <1>2, <2>1, <2>2 DEF TypeOK, TxManagerStop
<1>3. CASE Mine
  BY <1>3, RootType DEF TypeOK, Mine
<1>4. CASE MarkExternalDelete
  <2>1. IsPool(pool')
    <3>1. PICK t \in DOMAIN pool : pool' = [pool EXCEPT ![t].extDelete = TRUE]
      BY <1>4 DEF MarkExternalDelete
    <3>2. [pool[t] EXCEPT !.extDelete = TRUE] \in Row
      BY DEF TypeOK, IsPool, Row
    <3>3. pool' = [pool EXCEPT ![t] = [pool[t] EXCEPT !.extDelete = TRUE]]
      BY <3>1
    <3> QED
      BY <3>2, <3>3 DEF TypeOK, IsPool
  <2> QED
    BY <1>4, <2>1 DEF TypeOK, MarkExternalDelete
<1>5. CASE ExternalDeletePurger
  BY <1>5, StatementsGivePool DEF TypeOK, ExternalDeletePurger
<1>6. CASE Replace
  <2>1. IsPool(pool')
    BY <1>6, DeleteIsPool, InsertIsPool DEF Replace, ReplaceTx, TypeOK
  <2> QED
    BY <1>6, <2>1 DEF TypeOK, Replace
<1> QED
  BY <1>1, <1>2, <1>3, <1>4, <1>5, <1>6 DEF Others

LEMMA TypeNext ==
  ASSUME IInv, Next
  PROVE  TypeOK'
BY TypeForgeLoop, TypeProofLoop, TypeCoordinator, TypeOthers DEF IInv, Next

-----------------------------------------------------------------------------
(* The other parts of IInv. *)

LEMMA StoppingNext ==
  ASSUME IInv, Next
  PROVE  Stopping'
<1> USE DEF IInv, Stopping, TypeOK, histVars, coordVars, envVars, g1Vars, g2Vars
<1>1. CASE ForgeLoop
  <2>1. pc1 # "done" /\ UNCHANGED <<coord, ctx, pc2>>
    BY <1>1 DEF ForgeLoop, G1Stats, G1Timer, G1Get, G1Select, G1Build, G1Prove, G1Msg,
                G1Revert, G1Send, G1Done, UNCH1, UNCHLine
  <2> QED
    BY <2>1
<1>2. CASE ProofLoop
  <2>1. pc2 # "done" /\ UNCHANGED <<coord, ctx, pc1>>
    BY <1>2 DEF ProofLoop, G2Recv, G2Wait, G2Msg, G2Revert, G2Add, G2Deliver, G2Done, UNCH2
  <2> QED
    BY <2>1
<1>3. CASE CoordinatorLoop
  BY <1>3 DEF CoordinatorLoop, CoTell, CoTold, CoMsg, CoSlotEnd, CoStopped, DropPipeline, CoStart, CoStartFail, CanStart
<1>4. CASE Others
  BY <1>4 DEF Others, TxManagerTake, TxManagerStop, Mine, MarkExternalDelete,
              ExternalDeletePurger, Replace, UNCHEnv
<1> QED
  BY <1>1, <1>2, <1>3, <1>4 DEF Next

LEMMA HoldingNext ==
  ASSUME IInv, Next
  PROVE  Holding'
<1> USE DEF IInv, Holding, histVars, coordVars, envVars, g1Vars, g2Vars
<1>1. CASE ForgeLoop
  <2> USE DEF UNCH1, UNCHLine
  <2>1. CASE G1Stats
    BY <2>1 DEF G1Stats
  <2>2. CASE G1Timer
    <3>1. st.batchNum + 1 # 0
      BY DEF TypeOK
    <3> QED
      BY <2>2, <3>1 DEF G1Timer
  <2>3. CASE G1Get
    <3>1. free \subseteq Provers /\ Holding
      BY DEF TypeOK
    <3> QED
      BY <2>3, <3>1 DEF G1Get
  <2>4. CASE G1Select
    <3>1. CASE NotSelected
      BY <2>4, <3>1 DEF G1Select, NotSelected, Skip, Fail, GiveBack
    <3>2. ASSUME NEW ids, NEW l1, Select(ids, l1)
          PROVE  Holding'
      BY <2>4, <3>2 DEF G1Select, Select
    <3>3. ASSUME NEW ids, NEW l1, SkipSelected(ids, l1)
          PROVE  Holding'
      BY <2>4, <3>3 DEF G1Select, SkipSelected, Skip, GiveBack
    <3> QED
      BY <2>4, <3>1, <3>2, <3>3 DEF G1Select
  <2>5. CASE G1Build
    BY <2>5 DEF G1Build, Build, BuildFails, Skip, Fail, GiveBack
  <2>6. CASE G1Prove
    BY <2>6 DEF G1Prove, Skip, Fail, GiveBack
  <2>7. CASE G1Msg \/ G1Revert \/ G1Send \/ G1Done
    BY <2>7 DEF G1Msg, G1Revert, G1Send, G1Done
  <2> QED
    BY <1>1, <2>1, <2>2, <2>3, <2>4, <2>5, <2>6, <2>7 DEF ForgeLoop
<1>2. CASE ProofLoop
  BY <1>2 DEF ProofLoop, G2Recv, G2Wait, G2Msg, G2Revert, G2Add, G2Deliver, G2Done, UNCH2
<1>3. CASE CoStart
  BY <1>3 DEF CoStart
<1>4. CASE CoTell \/ CoTold \/ CoMsg \/ CoSlotEnd \/ CoStopped \/ CoStartFail
  BY <1>4 DEF CoTell, CoTold, CoMsg, CoSlotEnd, CoStopped, DropPipeline, CoStartFail
<1>5. CASE Others
  BY <1>5 DEF Others, TxManagerTake, TxManagerStop, Mine, MarkExternalDelete,
              ExternalDeletePurger, Replace, UNCHEnv
<1> QED
  BY <1>1, <1>2, <1>3, <1>4, <1>5 DEF Next, CoordinatorLoop

\* what the selector's database is after a step of the forge goroutine
LEMMA SelectSteps ==
  ASSUME IInv, G1Select, NEW ids \in Selection(pool', selDB.cur), NEW l1 \in BOOLEAN
  PROVE  /\ Select(ids, l1) => /\ Len(selDB'.cur) = Len(selDB.cur) + 1
                               /\ selDB'.cur \in selDB'.cks
         /\ SkipSelected(ids, l1) => /\ Len(selDB'.cur) = Len(selDB.cur)
                                     /\ selDB'.cur = <<>> \/ selDB'.cur \in selDB'.cks
<1> DEFINE e == [txs |-> ids, l1 |-> l1]
<1>1. TypeOK' /\ TypeOK
  BY TypeG1Select DEF IInv
<1>2. e \in Entry
  BY <1>1, SelectionType DEF Entry, TypeOK
<1> HIDE DEF e
<1>3. /\ MakeCheckpoint(selDB, e).cur = Append(selDB.cur, e)
      /\ Len(Append(selDB.cur, e)) = Len(selDB.cur) + 1
      /\ Append(selDB.cur, e) \in MakeCheckpoint(selDB, e).cks
      /\ \A r \in MakeCheckpoint(selDB, e).cks : r \in Seq(Entry)
      /\ Len(selDB.cur) = 0 \/ HasCheckpoint(MakeCheckpoint(selDB, e), Len(selDB.cur))
  BY <1>2, MakeCheckpointType DEF TypeOK, IInv, Stored
<1>4. Len(selDB.cur) = batchNum - 1 /\ Len(selDB.cur) \in Nat
  <2>1. batchNum = st.batchNum + 1 /\ Len(selDB.cur) = st.batchNum /\ st.batchNum \in Nat
    BY DEF IInv, InStepAt, Forging1, G1Select, TypeOK
  <2> QED
    BY <2>1
<1>5. CASE Select(ids, l1)
  <2>1. selDB' = MakeCheckpoint(selDB, e)
    BY <1>5 DEF Select, e
  <2>2. ~SkipSelected(ids, l1)
    BY <1>5 DEF Select, SkipSelected, Skip, GiveBack
  <2> QED
    BY <1>3, <2>1, <2>2
<1>6. CASE SkipSelected(ids, l1)
  <2>1. selDB' = Local(MakeCheckpoint(selDB, e), Len(selDB.cur))
    BY <1>4, <1>6 DEF SkipSelected, ResetSelector, e
  <2>2. ~Select(ids, l1)
    BY <1>6 DEF Select, SkipSelected, Skip, GiveBack
  <2> QED
    BY <1>3, <1>4, <2>1, <2>2, LocalType
<1> QED
  BY <1>5, <1>6

LEMMA StoredNext ==
  ASSUME IInv, Next
  PROVE  Stored'
<1> USE DEF Stored, histVars, coordVars, envVars, g1Vars, g2Vars
<1>1. CASE G1Select
  <2>1. CASE NotSelected
    BY <2>1 DEF NotSelected, IInv
  <2> QED
    BY <1>1, <2>1, SelectSteps DEF G1Select
<1>2. CASE ForgeLoop /\ ~G1Select
  BY <1>2 DEF IInv, ForgeLoop, G1Stats, G1Timer, G1Get, G1Build, G1Prove, G1Msg,
              G1Revert, G1Send, G1Done, UNCH1, UNCHLine
<1>3. CASE ProofLoop
  BY <1>3 DEF IInv, ProofLoop, G2Recv, G2Wait, G2Msg, G2Revert, G2Add, G2Deliver, G2Done,
              UNCH2
<1>4. CASE CoStart
  <2>1. FromBatch \in Nat /\ TypeOK
    BY FromBatchType DEF IInv
  <2>2. /\ CanReset(selDB, FromBatch) /\ CanReset(bbDB, FromBatch) /\ Reset(FromBatch)
    BY <1>4 DEF CoStart
  <2> QED
    BY <2>1, <2>2, ResetType
<1>5. CASE CoStartFail
  <2>1. FromBatch \in Nat /\ TypeOK
    BY FromBatchType DEF IInv
  <2>2. \/ UNCHANGED selDB
        \/ selDB' = Closed
        \/ /\ CanReset(selDB, FromBatch)
           /\ selDB' = ResetDB(selDB, FromBatch)
    BY <1>5 DEF CoStartFail
  <2>3. /\ chain \in Seq(Entry) /\ \A r \in selDB.cks : r \in Seq(Entry)
        /\ selDB.cur = <<>> \/ selDB.cur \in selDB.cks
    BY DEF TypeOK, IInv
  <2> QED
    BY <2>1, <2>2, <2>3, ResetDBType DEF Closed
<1>6. CASE CoTell \/ CoTold \/ CoMsg \/ CoSlotEnd \/ CoStopped
  <2>1. selDB' = selDB
    BY <1>6 DEF CoTell, CoTold, CoMsg, CoSlotEnd, CoStopped
  <2> QED
    BY <2>1 DEF IInv
<1>7. CASE Others
  BY <1>7 DEF IInv, Others, TxManagerTake, TxManagerStop, Mine, MarkExternalDelete,
              ExternalDeletePurger, Replace, UNCHEnv
<1> QED
  BY <1>1, <1>2, <1>3, <1>4, <1>5, <1>6, <1>7 DEF Next, CoordinatorLoop

LEMMA InStepNext ==
  ASSUME IInv, Next
  PROVE  InStepAt'
<1> USE DEF InStepAt, Forging1, Running, histVars, coordVars, envVars, g1Vars, g2Vars
<1>a. /\ st.batchNum \in Nat /\ batchNum \in Nat
      /\ Len(selDB.cur) \in Nat /\ Len(bbDB.cur) \in Nat
      /\ InStepAt /\ Stopping /\ Holding /\ ctx \in {"none", "run", "done"}
  BY LenProperties DEF IInv, TypeOK
<1>1. CASE G1Stats \/ G1Done
  BY <1>1, <1>a DEF G1Stats, G1Done, UNCH1, UNCHLine
<1>2. CASE G1Timer
  BY <1>2, <1>a DEF G1Timer, UNCH1, UNCHLine
<1>3. CASE G1Get
  BY <1>3, <1>a DEF G1Get, UNCH1, UNCHLine, Stopping
<1>4. CASE G1Select
  <2>1. /\ UNCHANGED <<batchNum, st, bbDB, ctx>> /\ pc1 = "forge"
    BY <1>4 DEF G1Select, UNCH1, UNCHLine
  <2>2. CASE NotSelected
    BY <2>1, <2>2, <1>a DEF NotSelected, Skip, Fail, GiveBack, Holding
  <2>3. ASSUME NEW ids \in Selection(pool', selDB.cur), NEW l1 \in BOOLEAN, Select(ids, l1)
        PROVE  InStepAt'
    <3>1. Len(selDB'.cur) = Len(selDB.cur) + 1
      BY <1>4, <2>3, SelectSteps
    <3> QED
      BY <1>a, <2>1, <2>3, <3>1 DEF Select
  <2>4. ASSUME NEW ids \in Selection(pool', selDB.cur), NEW l1 \in BOOLEAN,
               SkipSelected(ids, l1)
        PROVE  InStepAt'
    <3>1. Len(selDB'.cur) = Len(selDB.cur)
      BY <1>4, <2>4, SelectSteps
    <3> QED
      BY <1>a, <2>1, <2>4, <3>1 DEF SkipSelected, Skip, GiveBack
  <2> QED
    BY <1>4, <2>2, <2>3, <2>4 DEF G1Select
<1>5. CASE G1Build
  <2>1. /\ UNCHANGED <<batchNum, selDB, ctx>> /\ pc1 = "build"
        /\ st'.batchNum = st.batchNum
    <3>1. st' = [st EXCEPT !.lastL1 = @ + L1Forged] /\ st \in [batchNum : Nat, lastL1 : Nat]
      BY <1>5 DEF G1Build, IInv, TypeOK
    <3> QED
      BY <1>5, <3>1 DEF G1Build, UNCH1, UNCHLine
  <2>2. CASE Build
    <3>1. batch1 \in BatchInfo /\ bbDB.cur \in Seq(Entry)
      BY <2>1 DEF IInv, TypeOK
    <3>2. Len(bbDB'.cur) = Len(bbDB.cur) + 1
      BY <2>2, <3>1, RootType, AppendProperties DEF Build, MakeCheckpoint
    <3> QED
      BY <1>a, <2>1, <2>2, <3>2 DEF Build, Skip, GiveBack
  <2>3. CASE BuildFails
    BY <1>a, <2>1, <2>3 DEF BuildFails, Fail, Skip, GiveBack, Holding
  <2> QED
    BY <1>5, <2>2, <2>3 DEF G1Build
<1>6. CASE G1Prove
  <2>1. st' = [st EXCEPT !.batchNum = batchNum] => st'.batchNum = batchNum
    BY DEF IInv, TypeOK
  <2> QED
    BY <1>6, <1>a, <2>1 DEF G1Prove, Fail, Skip, GiveBack, Holding, UNCH1, UNCHLine
<1>7. CASE G1Msg \/ G1Revert \/ G1Send
  BY <1>7, <1>a DEF G1Msg, G1Revert, G1Send, UNCH1, UNCHLine
<1>8. CASE ProofLoop
  <2>1. UNCHANGED <<pc1, batchNum, st, selDB, bbDB, ctx>>
    BY <1>8 DEF ProofLoop, G2Recv, G2Wait, G2Msg, G2Revert, G2Add, G2Deliver, G2Done, UNCH2
  <2>2. errAt' = errAt \/ errAt' # 0
    BY <1>8 DEF ProofLoop, G2Recv, G2Wait, G2Msg, G2Revert, G2Add, G2Deliver, G2Done,
                IInv, TypeOK, BatchInfo
  <2> QED
    BY <1>a, <2>1, <2>2
<1>9. CASE CoStart
  <2>1. FromBatch \in Nat /\ TypeOK
    BY FromBatchType DEF IInv
  <2>2. /\ CanReset(selDB, FromBatch) /\ CanReset(bbDB, FromBatch) /\ Reset(FromBatch)
        /\ st'.batchNum = FromBatch
        /\ pc1' = "select"
    BY <1>9 DEF CoStart
  <2> QED
    BY <2>1, <2>2, ResetType
<1>10. CASE CoTell \/ CoTold \/ CoMsg \/ CoSlotEnd \/ CoStopped \/ CoStartFail
  <2>1. pc1' = pc1
    BY <1>10 DEF CoTell, CoTold, CoMsg, CoSlotEnd, CoStopped, CoStartFail
  <2>2. \/ UNCHANGED <<batchNum, st, errAt, selDB, bbDB>> /\ ctx' \in {ctx, "done"}
        \/ pc1 = "done"
    BY <1>10, <1>a DEF CoTell, CoTold, CoMsg, CoSlotEnd, CoStopped, CoStartFail, CanStart,
                       Stopping
  <2> QED
    BY <1>a, <2>1, <2>2
<1>11. CASE Others
  <2>1. UNCHANGED <<pc1, batchNum, st, selDB, bbDB, ctx, errAt>>
    BY <1>11 DEF Others, TxManagerTake, TxManagerStop, Mine, MarkExternalDelete,
                 ExternalDeletePurger, Replace, UNCHEnv
  <2> QED
    BY <1>a, <2>1
<1> QED
  BY <1>1, <1>2, <1>3, <1>4, <1>5, <1>6, <1>7, <1>8, <1>9, <1>10, <1>11
     DEF Next, ForgeLoop, CoordinatorLoop

LEMMA ProversApartNext ==
  ASSUME IInv, Next
  PROVE  ProversApart'
<1> USE DEF ProversApart, histVars, coordVars, envVars, g1Vars, g2Vars
<1>a. /\ ProversApart /\ Holding /\ NoProver \notin free /\ NoProver \notin Provers
      /\ free \subseteq Provers
      /\ pc1 = "send" => batch1.prover \in Provers
      /\ ch # <<>> => Head(ch).prover \in Provers
      /\ pc2 \in {"wait", "add"} => batch2.prover \in Provers
  <2>1. \A b \in BatchInfo : b.prover \in Provers
    BY DEF BatchInfo
  <2>2. pc1 = "send" => batch1 \in BatchInfo
    BY DEF IInv, TypeOK
  <2>3. pc2 \in {"wait", "add"} => batch2 \in BatchInfo
    BY DEF IInv, TypeOK
  <2>4. ch # <<>> => Head(ch) \in BatchInfo
    BY HeadTailProperties DEF IInv, TypeOK
  <2>5. free \subseteq Provers /\ NoProver \notin Provers
    BY PipelineAssumption DEF IInv, TypeOK
  <2> QED
    BY <2>1, <2>2, <2>3, <2>4, <2>5 DEF IInv
<1>1. CASE G1Stats \/ G1Timer \/ G1Msg \/ G1Revert \/ G1Done
  BY <1>1, <1>a DEF G1Stats, G1Timer, G1Msg, G1Revert, G1Done, UNCH1, UNCHLine, Holding
<1>2. CASE G1Get
  BY <1>2, <1>a DEF G1Get, UNCH1, UNCHLine, Holding
<1>3. CASE G1Select
  BY <1>3, <1>a DEF G1Select, NotSelected, Select, SkipSelected, Skip, Fail, GiveBack, UNCH1, UNCHLine,
                    Holding
<1>4. CASE G1Build
  BY <1>4, <1>a DEF G1Build, Build, BuildFails, Skip, Fail, GiveBack, UNCH1, UNCHLine, Holding
<1>5. CASE G1Prove
  BY <1>5, <1>a DEF G1Prove, Skip, Fail, GiveBack, UNCH1, UNCHLine, Holding
<1>6. CASE G1Send
  <2>1. ch = <<>> => Append(ch, batch1) # <<>> /\ Head(Append(ch, batch1)) = batch1
    BY <1>6, AppendProperties DEF IInv, TypeOK, G1Send
  <2> QED
    BY <1>6, <1>a, <2>1 DEF G1Send, Holding
<1>7. CASE ProofLoop
  BY <1>7, <1>a DEF ProofLoop, G2Recv, G2Wait, G2Msg, G2Revert, G2Add, G2Deliver, G2Done,
                    UNCH2
<1>8. CASE CoStart
  BY <1>8, <1>a DEF CoStart
<1>9. CASE CoTell \/ CoTold \/ CoMsg \/ CoSlotEnd \/ CoStopped \/ CoStartFail
  BY <1>9, <1>a DEF CoTell, CoTold, CoMsg, CoSlotEnd, CoStopped, DropPipeline, CoStartFail
<1>10. CASE Others
  BY <1>10, <1>a DEF Others, TxManagerTake, TxManagerStop, Mine, MarkExternalDelete,
                     ExternalDeletePurger, Replace, UNCHEnv
<1> QED
  BY <1>1, <1>2, <1>3, <1>4, <1>5, <1>6, <1>7, <1>8, <1>9, <1>10
     DEF Next, ForgeLoop, CoordinatorLoop

LEMMA LineNext ==
  ASSUME IInv, Next
  PROVE  Line'
<1> USE DEF Line, Tip2, Tip3, Running, AtWork1, histVars, coordVars, envVars, g1Vars, g2Vars
<1>a. Line /\ Stopping /\ Holding
  BY DEF IInv
<1>1. CASE G1Stats \/ G1Timer \/ G1Get \/ G1Revert \/ G1Done
  BY <1>1, <1>a DEF G1Stats, G1Timer, G1Get, G1Revert, G1Done, UNCH1, UNCHLine
<1>2. CASE G1Select
  <2>1. CASE NotSelected
    BY <1>2, <2>1, <1>a DEF G1Select, NotSelected, Skip, Fail, GiveBack, UNCH1, UNCHLine, Holding
  <2>2. ASSUME NEW ids, NEW l1, Select(ids, l1)
        PROVE  Line'
    BY <1>2, <2>2, <1>a DEF G1Select, Select, UNCH1, UNCHLine
  <2>3. ASSUME NEW ids, NEW l1, SkipSelected(ids, l1)
        PROVE  Line'
    BY <1>2, <2>3, <1>a DEF G1Select, SkipSelected, Skip, GiveBack, UNCH1, UNCHLine
  <2> QED
    BY <1>2, <2>1, <2>2, <2>3 DEF G1Select
<1>3. CASE G1Build
  <2>1. CASE Build
    <3>1. bbDB'.cur = Append(bbDB.cur, [txs |-> batch1.txs, l1 |-> batch1.l1])
      BY <2>1 DEF Build, MakeCheckpoint
    <3>2. Running => bbDB'.cur = Root(batch1)
      BY <1>3, <1>a, <3>1 DEF G1Build, Root
    <3> QED
      BY <1>3, <1>a, <2>1, <3>2 DEF G1Build, Build, Skip, GiveBack, UNCH1, UNCHLine
  <2>2. CASE BuildFails
    BY <1>3, <1>a, <2>2 DEF G1Build, BuildFails, Skip, Fail, GiveBack, UNCH1, UNCHLine, Holding
  <2> QED
    BY <1>3, <2>1, <2>2 DEF G1Build
<1>4. CASE G1Prove
  BY <1>4, <1>a DEF G1Prove, Skip, Fail, GiveBack, UNCH1, UNCHLine, Holding
<1>5. CASE G1Msg
  BY <1>5, <1>a DEF G1Msg, UNCH1, UNCHLine, IInv, InStepAt
<1>6. CASE G1Send
  <2>1. ch = <<>> => Append(ch, batch1) # <<>> /\ Head(Append(ch, batch1)) = batch1
    BY <1>6, AppendProperties DEF IInv, TypeOK, G1Send
  <2> QED
    BY <1>6, <1>a, <2>1 DEF G1Send
<1>7. CASE G2Recv
  BY <1>7, <1>a DEF G2Recv, UNCH2
<1>8. CASE G2Wait
  <2>1. pc2 = "wait" => batch2.num # 0
    BY DEF IInv, TypeOK, BatchInfo
  <2>2. ctx \in {"none", "run", "done"}
    BY DEF IInv, TypeOK
  <2> QED
    BY <1>8, <1>a, <2>1, <2>2 DEF G2Wait, UNCH2, Stopping
<1>9. CASE G2Msg \/ G2Revert \/ G2Add \/ G2Deliver \/ G2Done
  BY <1>9, <1>a DEF G2Msg, G2Revert, G2Add, G2Deliver, G2Done, UNCH2
<1>10. CASE CoStart
  BY <1>10 DEF CoStart
<1>11. CASE CoTell \/ CoTold \/ CoMsg \/ CoSlotEnd \/ CoStartFail
  <2>1. UNCHANGED <<pc1, batch1, pc2, batch2, ch, out>> /\ ctx' \in {ctx, "none", "done"}
    BY <1>11 DEF CoTell, CoTold, CoMsg, CoSlotEnd, CoStartFail
  <2>2. ctx' = "run" => UNCHANGED <<bbDB, errAt, ctx>>
    BY <1>11 DEF CoTell, CoTold, CoMsg, CoSlotEnd, CoStartFail, CanStart
  <2> QED
    BY <1>a, <2>1, <2>2
<1>13. CASE CoStopped
  BY <1>13 DEF CoStopped, DropPipeline
<1>12. CASE Others
  <2>1. UNCHANGED <<pc1, batch1, pc2, batch2, ch, out, bbDB, errAt, ctx>>
    BY <1>12 DEF Others, TxManagerTake, TxManagerStop, Mine, MarkExternalDelete,
                 ExternalDeletePurger, Replace, UNCHEnv
  <2> QED
    BY <1>a, <2>1
<1> QED
  BY <1>1, <1>2, <1>3, <1>4, <1>5, <1>6, <1>7, <1>8, <1>9, <1>10, <1>11, <1>12,
     <1>13 DEF Next, ForgeLoop, ProofLoop, CoordinatorLoop

-----------------------------------------------------------------------------
LEMMA InitIInv == Init => IInv
<1> SUFFICES ASSUME Init PROVE IInv
  OBVIOUS
<1> USE DEF Init
<1>1. IsPool(pool)
  <2>1. NewRow(0) \in Row
    BY DEF NewRow, Row, States
  <2> QED
    BY <2>1, PipelineAssumption DEF IsPool
<1>2. /\ FromSynchronizer(<<>>).cur = <<>>
      /\ FromSynchronizer(<<>>).cks = {}
  BY DEF FromSynchronizer
<1>3. TypeOK
  <2>1. /\ chain \in Seq(Entry) /\ out \in Seq(Entry) /\ msgCh \in Seq(Nat)
        /\ selDB.cur \in Seq(Entry) /\ bbDB.cur \in Seq(Entry)
        /\ ch \in Seq(BatchInfo) /\ Len(ch) <= 1 /\ batchCh \in Seq(BatchInfo)
    <3>1. \A S : <<>> \in Seq(S)
      OBVIOUS
    <3>2. selDB.cur = <<>> /\ bbDB.cur = <<>>
      BY <1>2
    <3>3. chain = <<>> /\ out = <<>> /\ msgCh = <<>> /\ ch = <<>> /\ batchCh = <<>>
      OBVIOUS
    <3>4. Len(ch) <= 1
      BY <3>3
    <3> QED
      BY <3>1, <3>2, <3>3, <3>4, Zenon
  <2>2. /\ st \in [batchNum : Nat, lastL1 : Nat]
        /\ \A r \in selDB.cks \cup bbDB.cks : r \in Seq(Entry)
    BY <1>2
  <2>3. pc1 \in Places1 /\ pc2 \in Places2
    BY DEF Places1, Places2
  <2>4. /\ \A b \in sent : b \in BatchInfo
        /\ built \subseteq [num : Nat \ {0}, txs : SUBSET TxIDs]
    BY PipelineAssumption DEF BatchInfo
  <2>5. from \in [own : Seq(Entry), synced : Seq(Entry)]
    BY EmptySeq
  <2> QED
    BY <1>1, <2>1, <2>2, <2>3, <2>4, <2>5 DEF TypeOK
<1>4. Holding /\ InStepAt /\ Stopping /\ Stored
  BY <1>2 DEF Holding, InStepAt, Forging1, Running, Stopping, Stored
<1>5. ProversApart /\ Line
  BY <1>2 DEF ProversApart, Line, Running
<1> QED
  BY <1>3, <1>4, <1>5 DEF IInv

LEMMA NextIInv == IInv /\ [Next]_vars => IInv'
<1>1. ASSUME IInv, Next PROVE IInv'
  BY <1>1, TypeNext, StoppingNext, HoldingNext, StoredNext, InStepNext, ProversApartNext,
     LineNext DEF IInv
<1>2. ASSUME IInv, UNCHANGED vars PROVE IInv'
  BY <1>2 DEF IInv, TypeOK, Holding, InStepAt, Forging1, Running, Stopping, Stored,
              ProversApart, Line, Tip2, Tip3, vars, histVars, coordVars, envVars, g1Vars, g2Vars,
              IsPool, AtWork1
<1> QED
  BY <1>1, <1>2

\* The invariant all the theorems rest on: see IInv.
THEOREM Inductive == Spec => []IInv
<1> QED
  BY InitIInv, NextIInv, PTL DEF Spec

(* Every variable has its type: in particular a batch is only worked on at the
   places where the goroutines have one, and the state that TxSelector goes back
   to after a skipped batch (txSelector.Reset(batchNum-1)) always exists. *)
THEOREM TypeCorrect == Spec => []TypeOK
<1>1. IInv => TypeOK
  BY DEF IInv
<1> QED
  BY <1>1, Inductive, PTL

(* A proof server is never asked for two proofs at once: ProversPool.Get and Add
   keep the provers in the pool apart from those of the batches on their way. *)
THEOREM ProversSafe == Spec => []OneProofEach
<1>1. IInv => OneProofEach
  <2> SUFFICES ASSUME IInv PROVE OneProofEach
    OBVIOUS
  <2>1. /\ DOMAIN Busy = {"forge", "sending", "queued", "waiting"}
        /\ Busy["forge"] = prover1
        /\ Busy["sending"] = IF pc1 = "send" THEN batch1.prover ELSE NoProver
        /\ Busy["queued"] = IF ch # <<>> THEN Head(ch).prover ELSE NoProver
        /\ Busy["waiting"] = IF pc2 \in {"wait", "add"} THEN batch2.prover ELSE NoProver
    BY DEF Busy
  <2>2. ProversApart /\ Holding /\ NoProver \notin free
    BY PipelineAssumption DEF IInv, TypeOK
  <2>3. \A i \in DOMAIN Busy : Busy[i] \notin free
    BY <2>1, <2>2 DEF ProversApart
  <2>4. \A i, j \in DOMAIN Busy : i # j /\ Busy[i] # NoProver => Busy[i] # Busy[j]
    BY <2>1, <2>2 DEF ProversApart, Holding
  <2> QED
    BY <2>3, <2>4 DEF OneProofEach
<1> QED
  BY <1>1, Inductive, PTL

(* The number that Pipeline.state counts and the two local databases go together
   whenever the next batch may be started. *)
THEOREM CountersInStep == Spec => []InStep
<1>1. IInv => InStep
  BY DEF IInv, InStep, InStepAt
<1> QED
  BY <1>1, Inductive, PTL

(* TxManager.AddBatch gets batches in an unbroken chain, however the goroutines,
   failures, stops and restarts interleave. *)
THEOREM InOrder == Spec => DeliveredInOrder
<1>1. IInv /\ Next /\ batchCh' # batchCh /\ Len(batchCh') >= Len(batchCh)
      => batchCh'[Len(batchCh')].base = out
  <2> SUFFICES ASSUME IInv, Next, batchCh' # batchCh, Len(batchCh') >= Len(batchCh)
               PROVE  batchCh'[Len(batchCh')].base = out
    OBVIOUS
  <2>1. batchCh \in Seq(BatchInfo)
    BY DEF IInv, TypeOK
  <2>2. CASE G2Deliver
    <3>1. batchCh' = Append(batchCh, batch2) /\ pc2 = "deliver"
      BY <2>2 DEF G2Deliver
    <3>2. batch2.base = out /\ batch2 \in BatchInfo
      BY <3>1 DEF IInv, Line, TypeOK
    <3>3. batchCh'[Len(batchCh')] = batch2
      BY <2>1, <3>1, <3>2, AppendProperties
    <3> QED
      BY <3>2, <3>3
  <2>3. CASE TxManagerTake
    <3>1. batchCh # <<>> /\ batchCh' = Tail(batchCh)
      BY <2>3 DEF TxManagerTake
    <3>2. Len(batchCh') = Len(batchCh) - 1 /\ Len(batchCh) \in Nat
      BY <2>1, <3>1, HeadTailProperties, LenProperties
    <3> QED
      BY <3>2
  <2>4. G2Deliver \/ TxManagerTake
    BY DEF Next, ForgeLoop, ProofLoop, CoordinatorLoop, Others, UNCH1, UNCHLine, UNCHEnv,
           histVars, coordVars, envVars, g1Vars, g2Vars,
           G1Stats, G1Timer, G1Get, G1Select, G1Build, G1Prove, G1Msg, G1Revert, G1Send,
           G1Done, G2Recv, G2Wait, G2Msg, G2Revert, G2Add, G2Done,
           CoTell, CoTold, CoMsg, CoSlotEnd, CoStopped, DropPipeline, CoStart, CoStartFail,
           TxManagerStop, Mine, MarkExternalDelete, ExternalDeletePurger, Replace
  <2> QED
    BY <2>2, <2>3, <2>4
<1>2. IInv /\ [Next]_vars
      => [batchCh' # batchCh /\ Len(batchCh') >= Len(batchCh)
          => batchCh'[Len(batchCh')].base = out]_vars
  BY <1>1
<1> QED
  BY <1>2, Inductive, PTL DEF Spec, DeliveredInOrder

-----------------------------------------------------------------------------
(* The steps of a pipeline that runs and has not failed only move provers. *)

\* one step of NoProverLost
KeepsProvers == ctx = "run" /\ ctx' = "run" /\ errAt' = 0 => ProversInUse' = ProversInUse

Sending == IF pc1 = "send" THEN {batch1.prover} ELSE {}
Queued  == IF ch # <<>> THEN {Head(ch).prover} ELSE {}
Waiting == IF pc2 \in {"wait", "add"} THEN {batch2.prover} ELSE {}
InUse   == (free \cup {prover1} \cup Sending \cup Queued \cup Waiting) \ {NoProver}

LEMMA InUseIsProversInUse == ProversInUse = InUse
<1>1. {Busy[i] : i \in DOMAIN Busy} \ {NoProver} =
        ({prover1} \cup Sending \cup Queued \cup Waiting) \ {NoProver}
  BY DEF Busy, Sending, Queued, Waiting
<1> QED
  BY <1>1 DEF ProversInUse, InUse

LEMMA InUseNext ==
  ASSUME IInv, Next, ctx = "run", ctx' = "run", errAt' = 0
  PROVE  InUse' = InUse
<1> USE DEF InUse, Sending, Queued, Waiting, histVars, coordVars, envVars, g1Vars, g2Vars
<1>a. Holding /\ Len(ch) <= 1 /\ ch \in Seq(BatchInfo)
  BY DEF IInv, TypeOK
<1>1. CASE G1Stats \/ G1Timer \/ G1Msg \/ G1Revert \/ G1Done
  BY <1>1 DEF G1Stats, G1Timer, G1Msg, G1Revert, G1Done, UNCH1, UNCHLine
<1>2. CASE G1Get
  BY <1>2, <1>a DEF G1Get, UNCH1, UNCHLine, Holding
<1>3. CASE G1Select
  BY <1>3, <1>a DEF G1Select, NotSelected, Select, SkipSelected, Skip, Fail, GiveBack, UNCH1, UNCHLine,
                    Holding
<1>4. CASE G1Build
  BY <1>4, <1>a DEF G1Build, Build, BuildFails, Skip, Fail, GiveBack, UNCH1, UNCHLine, Holding
<1>5. CASE G1Prove
  BY <1>5, <1>a DEF G1Prove, Skip, Fail, GiveBack, UNCH1, UNCHLine, Holding
<1>6. CASE G1Send
  <2>1. ch = <<>> => Append(ch, batch1) # <<>> /\ Head(Append(ch, batch1)) = batch1
    BY <1>6, AppendProperties DEF IInv, TypeOK, G1Send
  <2> QED
    BY <1>6, <1>a, <2>1 DEF G1Send
<1>7. CASE ProofLoop
  <2>1. pc2 = "wait" => batch2.num # 0
    BY DEF IInv, TypeOK, BatchInfo
  <2>2. CASE G2Recv
    BY <2>2 DEF G2Recv, UNCH2
  <2>3. CASE G2Wait
    BY <2>1, <2>3 DEF G2Wait, UNCH2
  <2>4. CASE G2Add
    BY <2>4 DEF G2Add, UNCH2
  <2>5. CASE G2Msg \/ G2Revert \/ G2Deliver \/ G2Done
    BY <2>5 DEF G2Msg, G2Revert, G2Deliver, G2Done, UNCH2
  <2> QED
    BY <1>7, <2>2, <2>3, <2>4, <2>5 DEF ProofLoop
<1>8. CASE CoordinatorLoop
  BY <1>8 DEF CoordinatorLoop, CoTell, CoTold, CoMsg, CoSlotEnd, CoStopped, DropPipeline, CoStart, CoStartFail, CanStart
<1>9. CASE Others
  BY <1>9 DEF Others, TxManagerTake, TxManagerStop, Mine, MarkExternalDelete,
              ExternalDeletePurger, Replace, UNCHEnv
<1> QED
  BY <1>1, <1>2, <1>3, <1>4, <1>5, <1>6, <1>7, <1>8, <1>9 DEF Next, ForgeLoop

(* Each prover a pipeline was started with is in its pool or at work for a batch,
   however often a batch is skipped, until something fails. *)
THEOREM NoneLost == Spec => NoProverLost
<1>1. IInv /\ [Next]_vars => [KeepsProvers]_vars
  <2>1. ASSUME IInv, Next PROVE KeepsProvers
    BY <2>1, InUseIsProversInUse, InUseNext DEF KeepsProvers, InUse, Sending, Queued, Waiting,
       ProversInUse, Busy
  <2> QED
    BY <2>1
<1>2. Spec => [][KeepsProvers]_vars
  BY <1>1, Inductive, PTL DEF Spec
<1> QED
  BY <1>2 DEF NoProverLost, KeepsProvers

-----------------------------------------------------------------------------
(* The lock *)

\* mutexL2DBUpdateDelete is held between the selection and StartForging
Locked == pc1 = "build" => mutex

LEMMA LockedInductive == Spec => []Locked
<1>1. Init => Locked
  BY DEF Init, Locked
<1>2. Locked /\ [Next]_vars => Locked'
  <2> SUFFICES ASSUME Locked, [Next]_vars PROVE Locked'
    OBVIOUS
  <2> USE DEF Locked, histVars, coordVars, envVars, g1Vars, g2Vars
  <2>1. CASE ForgeLoop
    BY <2>1 DEF ForgeLoop, G1Stats, G1Timer, G1Get, G1Select, NotSelected, Select, SkipSelected,
                Skip, Fail, GiveBack, G1Build, Build, BuildFails, G1Prove, G1Msg, G1Revert,
                G1Send, G1Done
  <2>2. CASE ProofLoop
    BY <2>2 DEF ProofLoop, G2Recv, G2Wait, G2Msg, G2Revert, G2Add, G2Deliver, G2Done, UNCH2
  <2>3. CASE CoordinatorLoop
    BY <2>3 DEF CoordinatorLoop, CoTell, CoTold, CoMsg, CoSlotEnd, CoStopped, DropPipeline, CoStart, CoStartFail
  <2>4. CASE Others
    BY <2>4 DEF Others, TxManagerTake, TxManagerStop, Mine, MarkExternalDelete,
                ExternalDeletePurger, Replace, UNCHEnv
  <2>5. CASE UNCHANGED vars
    BY <2>5 DEF vars
  <2> QED
    BY <2>1, <2>2, <2>3, <2>4, <2>5 DEF Next
<1> QED
  BY <1>1, <1>2, PTL DEF Spec

LEMMA SameRows ==
  ASSUME NEW p, NEW ids, NEW n, NEW acc
  PROVE  /\ DOMAIN Reorg(p, n) = DOMAIN p
         /\ DOMAIN StartForging(p, ids, n) = DOMAIN p
         /\ DOMAIN DoneForging(p, ids, n) = DOMAIN p
         /\ DOMAIN InvalidateOldNonces(p, acc, n) = DOMAIN p
BY DEF Reorg, StartForging, DoneForging, InvalidateOldNonces, SetState

\* one step of SelectedStays
KeepsSelected ==
  pc1 = "build" => \A t \in batch1.txs \cap DOMAIN pool :
    \/ t \in DOMAIN pool'
    \/ \E u \in DOMAIN pool' : FromIdx[u] = FromIdx[t] /\ Nonce[u] = Nonce[t]

(* Between its selection and the update of the pool no transaction is deleted because
   of external_delete: at most its sender replaces it. *)
THEOREM SelectedAreKept == Spec => SelectedStays
<1>1. ASSUME Locked, Next, pc1 = "build" PROVE KeepsSelected
  <2>1. CASE G1Build
    <3>1. DOMAIN Marked = DOMAIN pool
      BY SameRows DEF Marked
    <3>2. pool' = pool \/ pool' = Marked
      BY <2>1 DEF G1Build, Build, BuildFails
    <3> QED
      BY <3>1, <3>2 DEF KeepsSelected
  <2>2. CASE G2Revert \/ CoMsg \/ CoStartFail
    BY <2>2, SameRows DEF G2Revert, CoMsg, CoStartFail, KeepsSelected
  <2>3. CASE CoStopped \/ CoStart
    <3>1. pc1 = "done" \/ pool' = Reorg(pool, FromBatch)
      BY <2>3 DEF CoStopped, DropPipeline, CoStart
    <3> QED
      BY <1>1, <3>1, SameRows DEF KeepsSelected
  <2>4. CASE TxManagerTake
    <3>1. pool' = DoneForging(pool, Head(batchCh).txs, Head(batchCh).num) \/ pool' = pool
      BY <2>4 DEF TxManagerTake
    <3>2. DOMAIN pool' = DOMAIN pool
      BY <3>1 DEF DoneForging, SetState
    <3> QED
      BY <3>2 DEF KeepsSelected
  <2>5. CASE MarkExternalDelete
    <3>1. DOMAIN pool' = DOMAIN pool
      BY <2>5 DEF MarkExternalDelete
    <3> QED
      BY <3>1 DEF KeepsSelected
  <2>6. CASE ExternalDeletePurger
    BY <1>1, <2>6 DEF ExternalDeletePurger, Locked
  <2>7. CASE Replace
    <3>1. PICK t \in TxIDs \ Atomic : pool' = ReplaceTx(pool, t, 0)
      BY <2>7 DEF Replace
    <3>2. DOMAIN pool' = (DOMAIN pool \ Replaced(pool, t)) \cup {t}
      BY <3>1 DEF ReplaceTx, Insert, Delete
    <3> QED
      BY <3>2 DEF KeepsSelected, Replaced
  <2>8. CASE ForgeLoop /\ ~G1Build
    BY <1>1, <2>8 DEF ForgeLoop, G1Stats, G1Timer, G1Get, G1Select, G1Prove, G1Msg, G1Revert,
                      G1Send, G1Done, KeepsSelected
  <2>9. CASE \/ ProofLoop /\ ~G2Revert
             \/ CoTell \/ CoTold \/ CoSlotEnd \/ TxManagerStop \/ Mine
    BY <2>9 DEF ProofLoop, G2Recv, G2Wait, G2Msg, G2Add, G2Deliver, G2Done, CoTell, CoTold,
                CoSlotEnd, TxManagerStop, Mine, UNCHEnv, KeepsSelected
  <2> QED
    BY <1>1, <2>1, <2>2, <2>3, <2>4, <2>5, <2>6, <2>7, <2>8, <2>9
       DEF Next, CoordinatorLoop, Others
<1>2. Locked /\ [Next]_vars => [KeepsSelected]_vars
  BY <1>1 DEF KeepsSelected
<1>3. Spec => [][KeepsSelected]_vars
  BY <1>2, LockedInductive, PTL DEF Spec
<1> QED
  BY <1>3 DEF SelectedStays, KeepsSelected

-----------------------------------------------------------------------------
(* What a batch takes.  The parts of TakeInv say which batches the states on their
   way are made of, what the forge goroutine works on, how the queues of the contract
   are counted, and what the marks in the pool stand for. *)

\* each entry of a state is the batch of its number that was built once
FromBuilt(r, all) == \A i \in DOMAIN r : [num |-> i, txs |-> r[i].txs] \in all
WasBuilt(b, all) == b.num = Len(b.base) + 1 /\ FromBuilt(Root(b), all)

Known ==
  /\ FromBuilt(chain, built)
  /\ FromBuilt(bbDB.cur, built) /\ \A r \in bbDB.cks : FromBuilt(r, built)
  /\ \A b \in sent : WasBuilt(b, built)
  /\ \A i \in DOMAIN batchCh : WasBuilt(batchCh[i], built)
  /\ \A i \in DOMAIN ch : WasBuilt(ch[i], built)
  /\ pc2 \in AtWork2 => WasBuilt(batch2, built)
  /\ pc1 \in {"prove", "send"} => WasBuilt(batch1, built)

Places ==
  /\ pc1 = "build" => batch1.base = bbDB.cur /\ batch1.num = batchNum
  /\ pc1 = "prove" => bbDB.cur = Root(batch1)
  /\ Running /\ pc1 = "revert" => batchNum = st.batchNum + 1
  /\ pc2 \in {"msg", "revert"} => ~Running
  /\ Running => Len(from.own) <= Len(bbDB.cur)

\* the forge goroutine has not failed
Going == Forging1 \/ pc1 \in AtWork1 \/ (Running /\ pc1 \in {"select", "revert"})

\* the queues of the contract: what is counted, what is built, and what is synced
Queues ==
  /\ statL1 <= L1Count(chain)
  /\ Going => st.lastL1 + Ahead = L1Count(bbDB.cur)
  /\ pc1 = "build" /\ batch1.l1 => L1Count(bbDB.cur) <= L1Count(chain) + Ahead
  /\ Running => L1Count(bbDB.cur) <= L1Count(chain) + 1 + Ahead

\* a mark stands for a batch that was built, or for one that has just failed
MarksMean ==
  \A t \in MarkedRows(pool) :
    \/ \E r \in built : r.num = pool[t].batch /\ t \in r.txs
    \/ pc1 \in {"msg", "revert"} /\ pool[t].batch >= batchNum

StillPending == pc1 = "build" => \A t \in batch1.txs \cap DOMAIN pool : pool[t].state = Pending

MarksFit ==
  Running =>
    /\ \A t \in MarkedRows(pool) \ disturbed : pool[t].batch <= Len(bbDB.cur)
    /\ (TxsSince(Len(from.own), bbDB.cur) \cap DOMAIN pool) \ disturbed \subseteq MarkedRows(pool)

TakeInv == Known /\ Places /\ Queues /\ MarksMean /\ StillPending /\ MarksFit

LEMMA RootsGrow ==
  ASSUME NEW r \in Seq(Entry), NEW e \in Entry
  PROVE  /\ L1Count(Append(r, e)) = L1Count(r) + IF e.l1 THEN 1 ELSE 0
         /\ \A k \in Nat : k <= Len(r) => TxsSince(k, Append(r, e)) = TxsSince(k, r) \cup e.txs
<1> DEFINE q == Append(r, e)
           n == Len(r) + 1
           L(s) == {i \in DOMAIN s : s[i].l1}
<1>1. /\ n \in Nat \ {0} /\ DOMAIN r = 1 .. n - 1 /\ DOMAIN q = 1 .. n
      /\ q[n] = e /\ \A i \in 1 .. n - 1 : q[i] = r[i]
  BY AppendProperties, LenProperties
<1> HIDE DEF q, n
<1>2. DOMAIN q = DOMAIN r \cup {n} /\ n \notin DOMAIN r /\ \A i \in DOMAIN r : q[i] = r[i]
  BY <1>1
<1>3. L1Count(q) = L1Count(r) + IF e.l1 THEN 1 ELSE 0
  <2>1. L(q) = IF e.l1 THEN L(r) \cup {n} ELSE L(r)
    BY <1>1, <1>2
  <2>2. IsFiniteSet(L(r)) /\ n \notin L(r)
    <3>1. IsFiniteSet(DOMAIN r)
      BY <1>1, FS_Interval
    <3> QED
      BY <3>1, <1>2, FS_Subset
  <2>3. Cardinality(L(r) \cup {n}) = Cardinality(L(r)) + 1 /\ Cardinality(L(r)) \in Nat
    BY <2>2, FS_AddElement, FS_CardinalityType
  <2>4. L1Count(q) = Cardinality(L(q)) /\ L1Count(r) = Cardinality(L(r))
    BY DEF L1Count
  <2> HIDE DEF L
  <2> QED
    BY <2>1, <2>3, <2>4
<1>4. ASSUME NEW k \in Nat, k <= Len(r)
      PROVE  TxsSince(k, q) = TxsSince(k, r) \cup e.txs
  <2>1. n > k
    BY <1>4, LenProperties DEF n
  <2>2. {i \in DOMAIN q : i > k} = {i \in DOMAIN r : i > k} \cup {n}
    BY <1>2, <2>1
  <2> QED
    BY <1>1, <1>2, <2>2 DEF TxsSince
<1> QED
  BY <1>3, <1>4 DEF q

LEMMA NothingSince ==
  ASSUME NEW r \in Seq(Entry), NEW k \in Nat
  PROVE  /\ TxsSince(k, r) \subseteq TxsOf(r)
         /\ k = Len(r) => TxsSince(k, r) = {}
<1>1. DOMAIN r = 1 .. Len(r) /\ Len(r) \in Nat
  BY LenProperties
<1>2. k = Len(r) => {i \in DOMAIN r : i > k} = {}
  BY <1>1
<1> QED
  BY <1>2 DEF TxsSince, TxsOf

\* a pipeline that has failed or is cancelled does not run again
LEMMA RunsOn ==
  ASSUME IInv, Next, ~CoStart, Running'
  PROVE  Running
<1> USE DEF Running, UNCHLine, histVars, coordVars, envVars, g1Vars, g2Vars
<1>0. ~CoStopped
  BY DEF CoStopped, DropPipeline
<1>a. batchNum \in Nat /\ (pc2 = "wait" => batch2.num # 0)
      /\ (pc1 \in {"forge", "build", "prove"} => batchNum # 0)
  BY DEF IInv, TypeOK, BatchInfo, Holding
<1>1. CASE ForgeLoop
  BY <1>1, <1>a DEF ForgeLoop, G1Stats, G1Timer, G1Get, G1Select, NotSelected, Select,
                    SkipSelected, Skip, Fail, GiveBack, G1Build, Build, BuildFails, G1Prove,
                    G1Msg, G1Revert, G1Send, G1Done, UNCH1
<1>2. CASE ProofLoop
  BY <1>2, <1>a DEF ProofLoop, G2Recv, G2Wait, G2Msg, G2Revert, G2Add, G2Deliver, G2Done, UNCH2
<1>3. CASE CoordinatorLoop
  BY <1>0, <1>3 DEF CoordinatorLoop, CoTell, CoTold, CoMsg, CoSlotEnd, CoStartFail
<1>4. CASE Others
  BY <1>4 DEF Others, TxManagerTake, TxManagerStop, Mine, MarkExternalDelete,
              ExternalDeletePurger, Replace, UNCHEnv
<1> QED
  BY <1>1, <1>2, <1>3, <1>4 DEF Next

LEMMA RowsAfterSetState ==
  ASSUME NEW p, IsPool(p), NEW ids, NEW s, NEW b, NEW q, q = SetState(p, ids, s, b)
  PROVE  /\ DOMAIN q = DOMAIN p
         /\ \A t \in DOMAIN p : IF t \in ids THEN q[t].state = s /\ q[t].batch = b
                                            ELSE q[t] = p[t]
<1>1. DOMAIN q = DOMAIN p
  <2>1. DOMAIN SetState(p, ids, s, b) = DOMAIN p
    BY ONLY DEF SetState
  <2> QED
    BY <2>1
<1>2. ASSUME NEW t \in DOMAIN p
      PROVE  IF t \in ids THEN q[t].state = s /\ q[t].batch = b ELSE q[t] = p[t]
  BY RowAfterSetState
<1> QED
  BY <1>1, <1>2

LEMMA MarksAfterReorg ==
  ASSUME NEW p, IsPool(p), NEW n \in Int, NEW q, q = Reorg(p, n)
  PROVE  /\ DOMAIN q = DOMAIN p
         /\ MarkedRows(q) = {t \in MarkedRows(p) : p[t].batch = NULL \/ p[t].batch <= n}
         /\ \A t \in MarkedRows(q) : q[t] = p[t]
         /\ \A t \in DOMAIN p : p[t].state = Pending => q[t] = p[t]
<1> DEFINE ids == {t \in InState(p, {Forging, Forged, Invalid}) :
                     p[t].batch # NULL /\ p[t].batch > n}
<1>1. q = SetState(p, ids, Pending, NULL)
  BY DEF Reorg
<1>2. \A t \in DOMAIN p : p[t] \in Row
  BY DEF IsPool
<1>3. /\ \A t \in ids : p[t].state # Pending
      /\ \A t \in MarkedRows(p) : t \in ids <=> ~(p[t].batch = NULL \/ p[t].batch <= n)
  BY <1>2 DEF InState, Row, MarkedRows
<1> HIDE DEF ids
<1>4. /\ DOMAIN q = DOMAIN p
      /\ \A t \in DOMAIN p : IF t \in ids THEN q[t].state = Pending /\ q[t].batch = NULL
                                         ELSE q[t] = p[t]
  BY <1>1, RowsAfterSetState
<1> QED
  BY <1>3, <1>4 DEF MarkedRows, InState

LEMMA MarksAfterDone ==
  ASSUME NEW p, IsPool(p), NEW ids, NEW b, NEW q, q = DoneForging(p, ids, b)
  PROVE  /\ DOMAIN q = DOMAIN p
         /\ MarkedRows(q) = MarkedRows(p)
         /\ \A t \in DOMAIN p :
              q[t] = p[t] \/ (t \in ids \cap InState(p, {Forging}) /\ q[t].batch = b)
<1>1. q = SetState(p, ids \cap InState(p, {Forging}), Forged, b)
  BY DEF DoneForging
<1>2. /\ DOMAIN q = DOMAIN p
      /\ \A t \in DOMAIN p : IF t \in ids \cap InState(p, {Forging})
                           THEN q[t].state = Forged /\ q[t].batch = b ELSE q[t] = p[t]
  BY <1>1, RowsAfterSetState
<1> QED
  BY <1>2 DEF MarkedRows, InState

LEMMA MarksAfterInvalidate ==
  ASSUME NEW p, IsPool(p), NEW acc, NEW b, NEW q, q = InvalidateOldNonces(p, acc, b)
  PROVE  /\ DOMAIN q = DOMAIN p
         /\ MarkedRows(q) = MarkedRows(p)
         /\ \A t \in MarkedRows(p) : q[t] = p[t]
<1> DEFINE ids == {t \in InState(p, {Pending}) : /\ FromIdx[t] \in DOMAIN acc
                                                 /\ Nonce[t] < acc[FromIdx[t]]}
<1>1. q = SetState(p, ids, Invalid, b)
  BY DEF InvalidateOldNonces
<1>2. \A t \in ids : p[t].state = Pending
  BY DEF InState
<1> HIDE DEF ids
<1>3. /\ DOMAIN q = DOMAIN p
      /\ \A t \in DOMAIN p : IF t \in ids THEN q[t].state = Invalid /\ q[t].batch = b
                                         ELSE q[t] = p[t]
  BY <1>1, RowsAfterSetState
<1> QED
  BY <1>2, <1>3 DEF MarkedRows, InState

LEMMA MarksAfterDelete ==
  ASSUME NEW p, IsPool(p), NEW ids, NEW q, q = Delete(p, ids)
  PROVE  /\ DOMAIN q \subseteq DOMAIN p
         /\ MarkedRows(q) = MarkedRows(p) \cap DOMAIN q
         /\ \A t \in DOMAIN q : q[t] = p[t]
BY DEF Delete, MarkedRows, InState, IsPool

LEMMA MarksAfterStart ==
  ASSUME NEW p, IsPool(p), NEW ids, NEW b, \A t \in ids \cap DOMAIN p : p[t].state = Pending,
         NEW q, q = StartForging(p, ids, b)
  PROVE  /\ DOMAIN q = DOMAIN p
         /\ MarkedRows(q) = MarkedRows(p) \cup (ids \cap DOMAIN p)
         /\ \A t \in DOMAIN p : q[t] = p[t] \/ (t \in ids /\ q[t].batch = b)
<1>1. q = SetState(p, ids \cap InState(p, {Pending}), Forging, b)
  BY DEF StartForging
<1>2. /\ DOMAIN q = DOMAIN p
      /\ \A t \in DOMAIN p : IF t \in ids \cap InState(p, {Pending})
                           THEN q[t].state = Forging /\ q[t].batch = b ELSE q[t] = p[t]
  BY <1>1, RowsAfterSetState
<1>3. ids \cap InState(p, {Pending}) = ids \cap DOMAIN p
  BY DEF InState
<1> QED
  BY <1>2, <1>3 DEF MarkedRows, InState

-----------------------------------------------------------------------------
(* Where the states come from. *)

LEMMA BuiltStays ==
  ASSUME NEW all, NEW more, all \subseteq more
  PROVE  /\ \A r : FromBuilt(r, all) => FromBuilt(r, more)
         /\ \A b : WasBuilt(b, all) => WasBuilt(b, more)
BY DEF FromBuilt, WasBuilt

LEMMA BuiltGrows ==
  ASSUME NEW all, NEW r \in Seq(Entry), FromBuilt(r, all), NEW e \in Entry,
         [num |-> Len(r) + 1, txs |-> e.txs] \in all
  PROVE  FromBuilt(Append(r, e), all)
<1> DEFINE q == Append(r, e)
           n == Len(r) + 1
<1>1. n \in Nat /\ DOMAIN r = 1 .. n - 1 /\ DOMAIN q = 1 .. n
      /\ q[n] = e /\ \A i \in 1 .. n - 1 : q[i] = r[i]
  BY AppendProperties, LenProperties
<1> HIDE DEF q, n
<1>2. ASSUME NEW i \in DOMAIN q PROVE [num |-> i, txs |-> q[i].txs] \in all
  <2>1. CASE i = n
    BY <1>1, <2>1 DEF n
  <2>2. CASE i # n
    <3>1. i \in DOMAIN r /\ q[i] = r[i]
      BY <1>1, <2>2
    <3> QED
      BY <3>1 DEF FromBuilt
  <2> QED
    BY <2>1, <2>2
<1> QED
  BY <1>2 DEF FromBuilt, q

LEMMA BuiltBefore ==
  ASSUME NEW all, NEW r \in Seq(Entry), FromBuilt(r, all), NEW n \in Nat, n <= Len(r)
  PROVE  FromBuilt(SubSeq(r, 1, n), all)
<1>1. DOMAIN SubSeq(r, 1, n) = 1 .. n /\ \A i \in 1 .. n : SubSeq(r, 1, n)[i] = r[i]
  BY SubSeqProperties, LenProperties
<1>2. \A i \in 1 .. n : i \in DOMAIN r
  BY LenProperties
<1> QED
  BY <1>1, <1>2 DEF FromBuilt

\* a batch that was built is on record
LEMMA BuiltLast ==
  ASSUME NEW all, NEW b \in BatchInfo, WasBuilt(b, all)
  PROVE  [num |-> b.num, txs |-> b.txs] \in all
<1> DEFINE e == [txs |-> b.txs, l1 |-> b.l1]
<1>1. e \in Entry /\ b.base \in Seq(Entry) /\ Root(b) = Append(b.base, e)
  BY RootType DEF BatchInfo, Root
<1> HIDE DEF e
<1>2. b.num \in DOMAIN Append(b.base, e) /\ Append(b.base, e)[b.num] = e
  BY <1>1, AppendProperties, LenProperties DEF WasBuilt
<1>3. [num |-> b.num, txs |-> e.txs] \in all
  BY <1>1, <1>2 DEF WasBuilt, FromBuilt
<1> QED
  BY <1>3 DEF e

\* what a database is set to by a reset was there, or comes from the synchronizer
LEMMA ResetBuilt ==
  ASSUME NEW db, \A r \in db.cks : r \in Seq(Entry) /\ FromBuilt(r, built),
         chain \in Seq(Entry), FromBuilt(chain, built), NEW n \in Nat, CanReset(db, n)
  PROVE  LET new == ResetDB(db, n)
         IN  FromBuilt(new.cur, built) /\ \A r \in new.cks : FromBuilt(r, built)
<1>0. FromBuilt(<<>>, built)
  BY DEF FromBuilt
<1>1. CASE n = 0
  <2>1. ResetDB(db, n) = [cur |-> <<>>, cks |-> {r \in db.cks : Len(r) <= n}]
    BY <1>1 DEF ResetDB, Local
  <2> QED
    BY <1>0, <2>1
<1>2. CASE n # 0 /\ HasCheckpoint(db, n)
  <2> DEFINE r0 == CHOOSE r \in db.cks : Len(r) = n
  <2>1. r0 \in db.cks
    BY <1>2 DEF HasCheckpoint
  <2> HIDE DEF r0
  <2>2. ResetDB(db, n) = [cur |-> r0, cks |-> {r \in db.cks : Len(r) <= n}]
    BY <1>2 DEF ResetDB, Local, r0
  <2> QED
    BY <2>1, <2>2
<1>3. CASE ~(n = 0 \/ HasCheckpoint(db, n))
  <2>1. n <= Len(chain)
    BY <1>3 DEF CanReset, LastBatch
  <2> DEFINE r1 == SubSeq(chain, 1, n)
  <2>2. FromBuilt(r1, built)
    BY <2>1, BuiltBefore
  <2>3. ResetDB(db, n) = FromSynchronizer(r1)
    BY <1>3 DEF ResetDB
  <2> HIDE DEF r1
  <2>4. FromSynchronizer(r1).cur = r1 /\ FromSynchronizer(r1).cks \subseteq {r1}
    BY DEF FromSynchronizer
  <2> QED
    BY <2>2, <2>3, <2>4
<1> QED
  BY <1>1, <1>2, <1>3

\* a pipeline starts at a state of the BatchBuilder, with the counts of the synchronizer
LEMMA StartsWith ==
  ASSUME IInv, CoStart
  PROVE  /\ pc1 = "done" /\ pc1' = "select" /\ pc2' = "select"
         /\ bbDB'.cur \in Seq(Entry) /\ Len(bbDB'.cur) \in Nat
         /\ from' = [own |-> bbDB'.cur, synced |-> chain] /\ disturbed' = {}
         /\ st'.lastL1 = L1Count(chain) /\ statL1' = L1Count(chain)
         /\ pool' = Reorg(pool, Len(bbDB'.cur))
         /\ ch' = <<>> /\ UNCHANGED <<chain, sent, batchCh, built>>
<1>1. pc1 = "done"
  BY DEF CoStart, CanStart, IInv, Stopping
<1>2. FromBatch \in Nat
  BY FromBatchType DEF IInv
<1>3. bbDB'.cur \in Seq(Entry) /\ Len(bbDB'.cur) = FromBatch
  BY <1>2, ResetType DEF CoStart, IInv
<1> QED
  BY <1>1, <1>2, <1>3 DEF CoStart, envVars

LEMMA DatabaseKnown ==
  ASSUME IInv, Known, CoStart \/ CoStartFail
  PROVE  FromBuilt(bbDB'.cur, built) /\ \A r \in bbDB'.cks : FromBuilt(r, built)
<1>1. FromBatch \in Nat /\ chain \in Seq(Entry) /\ \A r \in bbDB.cks : r \in Seq(Entry)
  BY FromBatchType DEF IInv, TypeOK
<1>2. CASE CoStartFail
  <2>1. bbDB' \in {bbDB, Closed}
    BY <1>2 DEF CoStartFail
  <2>2. Closed.cur = <<>> /\ Closed.cks = {}
    BY DEF Closed
  <2> QED
    BY <2>1, <2>2 DEF Known, FromBuilt
<1>3. CASE CoStart
  <2> DEFINE n == FromBatch
             r1 == SubSeq(chain, 1, n)
  <2>1. CanReset(bbDB, n) /\ Reset(n)
    BY <1>3 DEF CoStart
  <2>2. bbDB' = ResetDB(bbDB, n) \/ (n <= Len(chain) /\ bbDB' = FromSynchronizer(r1))
    BY <1>1, <2>1, FromBatchType DEF Reset, LastBatch, IInv
  <2> HIDE DEF n
  <2>3. CASE bbDB' = ResetDB(bbDB, n)
    BY <1>1, <2>1, <2>3, ResetBuilt DEF Known, n
  <2>4. CASE n <= Len(chain) /\ bbDB' = FromSynchronizer(r1)
    <3>1. FromBuilt(r1, built)
      BY <1>1, <2>4, BuiltBefore DEF Known, n
    <3> HIDE DEF r1
    <3>2. bbDB'.cur = r1 /\ bbDB'.cks \subseteq {r1}
      BY <2>4 DEF FromSynchronizer
    <3> QED
      BY <3>1, <3>2
  <2> QED
    BY <2>2, <2>3, <2>4
<1> QED
  BY <1>2, <1>3

\* the BatchBuilder puts the batch on record that it makes a checkpoint of
LEMMA BuildKnown ==
  ASSUME IInv, Known, Places, G1Build, Build
  PROVE  /\ batch1 \in BatchInfo /\ WasBuilt(batch1, built')
         /\ bbDB'.cur = Root(batch1) /\ \A r \in bbDB'.cks : FromBuilt(r, built')
<1>1. /\ pc1 = "build" /\ batch1 \in BatchInfo /\ bbDB.cur \in Seq(Entry)
      /\ batchNum = st.batchNum + 1 /\ Len(bbDB.cur) = st.batchNum
      /\ batch1.base = bbDB.cur /\ batch1.num = batchNum
  BY DEF G1Build, IInv, InStepAt, TypeOK, Places
<1>2. built \subseteq built' /\ [num |-> batchNum, txs |-> batch1.txs] \in built'
  BY DEF Build
<1> DEFINE e == [txs |-> batch1.txs, l1 |-> batch1.l1]
<1>3. e \in Entry /\ e.txs = batch1.txs
  BY <1>1, RootType
<1>4. Root(batch1) = Append(bbDB.cur, e)
  BY <1>1 DEF Root
<1>5. bbDB'.cur = Append(bbDB.cur, e) /\ bbDB'.cks \subseteq bbDB.cks \cup {Append(bbDB.cur, e)}
  BY DEF Build, MakeCheckpoint
<1> HIDE DEF e
<1>6. FromBuilt(bbDB.cur, built') /\ \A r \in bbDB.cks : FromBuilt(r, built')
  BY <1>2, BuiltStays DEF Known
<1>7. FromBuilt(Append(bbDB.cur, e), built')
  BY <1>1, <1>2, <1>3, <1>6, BuiltGrows
<1> QED
  BY <1>1, <1>4, <1>5, <1>6, <1>7 DEF WasBuilt

LEMMA KnownNext ==
  ASSUME IInv, Known, Places, Next
  PROVE  Known'
<1> USE DEF UNCH1, UNCHLine, UNCH2, UNCHEnv, histVars, coordVars, envVars, g1Vars, g2Vars
<1>a. /\ batchCh \in Seq(BatchInfo) /\ ch \in Seq(BatchInfo)
      /\ chain \in Seq(Entry) /\ \A b \in sent : b \in BatchInfo
      /\ (pc1 \in AtWork1 => batch1 \in BatchInfo)
  BY DEF IInv, TypeOK, AtWork1
<1>1. built \subseteq built'
  BY DEF Next, ForgeLoop, ProofLoop, CoordinatorLoop, Others,
         G1Stats, G1Timer, G1Get, G1Select, G1Build, Build, BuildFails, G1Prove, G1Msg,
         G1Revert, G1Send, G1Done, G2Recv, G2Wait, G2Msg, G2Revert, G2Add, G2Deliver, G2Done,
         CoTell, CoTold, CoMsg, CoSlotEnd, CoStopped, CoStart, CoStartFail, TxManagerTake,
         TxManagerStop, Mine, MarkExternalDelete, ExternalDeletePurger, Replace
<1>2. /\ \A r : FromBuilt(r, built) => FromBuilt(r, built')
      /\ \A b : WasBuilt(b, built) => WasBuilt(b, built')
  BY <1>1, BuiltStays
<1>3. FromBuilt(chain', built')
  <2>1. chain' = chain \/ \E b \in sent : chain' = Root(b)
    BY DEF Next, ForgeLoop, ProofLoop, CoordinatorLoop, Others,
           G1Stats, G1Timer, G1Get, G1Select, G1Build, G1Prove, G1Msg,
           G1Revert, G1Send, G1Done, G2Recv, G2Wait, G2Msg, G2Revert, G2Add, G2Deliver, G2Done,
           CoTell, CoTold, CoMsg, CoSlotEnd, CoStopped, CoStart, CoStartFail, TxManagerTake,
           TxManagerStop, Mine, MarkExternalDelete, ExternalDeletePurger, Replace
  <2> QED
    BY <1>2, <2>1 DEF Known, WasBuilt
<1>4. FromBuilt(bbDB'.cur, built') /\ \A r \in bbDB'.cks : FromBuilt(r, built')
  <2>1. \/ bbDB' = bbDB \/ CoStart \/ CoStartFail \/ (G1Build /\ Build)
    BY DEF Next, ForgeLoop, ProofLoop, CoordinatorLoop, Others,
           G1Stats, G1Timer, G1Get, G1Select, G1Build, BuildFails, G1Prove, G1Msg,
           G1Revert, G1Send, G1Done, G2Recv, G2Wait, G2Msg, G2Revert, G2Add, G2Deliver, G2Done,
           CoTell, CoTold, CoMsg, CoSlotEnd, CoStopped, TxManagerTake,
           TxManagerStop, Mine, MarkExternalDelete, ExternalDeletePurger, Replace
  <2>2. CASE bbDB' = bbDB
    BY <1>2, <2>2 DEF Known
  <2>3. CASE CoStart \/ CoStartFail
    BY <1>2, <2>3, DatabaseKnown
  <2>4. CASE G1Build /\ Build
    BY <2>4, BuildKnown DEF WasBuilt
  <2> QED
    BY <2>1, <2>2, <2>3, <2>4
<1>5. \A b \in sent' : WasBuilt(b, built')
  <2>1. sent' \subseteq sent \/ (batchCh # <<>> /\ sent' \subseteq sent \cup {Head(batchCh)})
    BY DEF Next, ForgeLoop, ProofLoop, CoordinatorLoop, Others,
           G1Stats, G1Timer, G1Get, G1Select, G1Build, G1Prove, G1Msg,
           G1Revert, G1Send, G1Done, G2Recv, G2Wait, G2Msg, G2Revert, G2Add, G2Deliver, G2Done,
           CoTell, CoTold, CoMsg, CoSlotEnd, CoStopped, CoStart, CoStartFail, TxManagerTake,
           TxManagerStop, Mine, MarkExternalDelete, ExternalDeletePurger, Replace
  <2>2. batchCh # <<>> => 1 \in DOMAIN batchCh /\ batchCh[1] = Head(batchCh)
    BY <1>a, LenProperties, EmptySeq, HeadTailProperties
  <2>3. batchCh # <<>> => WasBuilt(Head(batchCh), built)
    BY <2>2 DEF Known
  <2> QED
    BY <1>2, <2>1, <2>3 DEF Known
<1>6. \A i \in DOMAIN batchCh' : WasBuilt(batchCh'[i], built')
  <2>1. \/ batchCh' = batchCh
        \/ batchCh # <<>> /\ batchCh' = Tail(batchCh)
        \/ pc2 = "deliver" /\ batchCh' = Append(batchCh, batch2)
    BY DEF Next, ForgeLoop, ProofLoop, CoordinatorLoop, Others,
           G1Stats, G1Timer, G1Get, G1Select, G1Build, G1Prove, G1Msg,
           G1Revert, G1Send, G1Done, G2Recv, G2Wait, G2Msg, G2Revert, G2Add, G2Deliver, G2Done,
           CoTell, CoTold, CoMsg, CoSlotEnd, CoStopped, CoStart, CoStartFail, TxManagerTake,
           TxManagerStop, Mine, MarkExternalDelete, ExternalDeletePurger, Replace
  <2>2. CASE batchCh' = batchCh
    BY <1>2, <2>2 DEF Known
  <2>3. CASE batchCh # <<>> /\ batchCh' = Tail(batchCh)
    <3>1. \A i \in DOMAIN batchCh' : i + 1 \in DOMAIN batchCh /\ batchCh'[i] = batchCh[i + 1]
      BY <1>a, <2>3, HeadTailProperties, LenProperties
    <3> QED
      BY <1>2, <3>1 DEF Known
  <2>4. CASE pc2 = "deliver" /\ batchCh' = Append(batchCh, batch2)
    <3>1. batch2 \in BatchInfo /\ WasBuilt(batch2, built)
      BY <2>4 DEF IInv, TypeOK, Known, AtWork2
    <3>2. \A i \in DOMAIN batchCh' :
            (i \in DOMAIN batchCh /\ batchCh'[i] = batchCh[i]) \/ batchCh'[i] = batch2
      BY <1>a, <2>4, <3>1, AppendProperties, LenProperties
    <3> QED
      BY <1>2, <3>1, <3>2 DEF Known
  <2> QED
    BY <2>1, <2>2, <2>3, <2>4
<1>7. \A i \in DOMAIN ch' : WasBuilt(ch'[i], built')
  <2>1. \/ ch' = ch \/ ch' = <<>>
        \/ pc1 = "send" /\ ch = <<>> /\ ch' = Append(ch, batch1)
    BY DEF Next, ForgeLoop, ProofLoop, CoordinatorLoop, Others,
           G1Stats, G1Timer, G1Get, G1Select, G1Build, G1Prove, G1Msg,
           G1Revert, G1Send, G1Done, G2Recv, G2Wait, G2Msg, G2Revert, G2Add, G2Deliver, G2Done,
           CoTell, CoTold, CoMsg, CoSlotEnd, CoStopped, DropPipeline, CoStart, CoStartFail,
           TxManagerTake,
           TxManagerStop, Mine, MarkExternalDelete, ExternalDeletePurger, Replace
  <2>2. CASE ch' = ch \/ ch' = <<>>
    BY <1>2, <2>2 DEF Known
  <2>3. CASE pc1 = "send" /\ ch = <<>> /\ ch' = Append(ch, batch1)
    <3>1. batch1 \in BatchInfo /\ WasBuilt(batch1, built)
      BY <1>a, <2>3 DEF AtWork1, Known
    <3>2. \A i \in DOMAIN ch' : ch'[i] = batch1
      BY <2>3, <3>1, AppendProperties, LenProperties
    <3> QED
      BY <1>2, <3>1, <3>2
  <2> QED
    BY <2>1, <2>2, <2>3
<1>8. pc2' \in AtWork2 => WasBuilt(batch2', built')
  <2>1. pc2' \in AtWork2 =>
          \/ pc2 \in AtWork2 /\ batch2' = batch2
          \/ ch # <<>> /\ batch2' = Head(ch)
    BY DEF Next, ForgeLoop, ProofLoop, CoordinatorLoop, Others, AtWork2,
           G1Stats, G1Timer, G1Get, G1Select, G1Build, G1Prove, G1Msg,
           G1Revert, G1Send, G1Done, G2Recv, G2Wait, G2Msg, G2Revert, G2Add, G2Deliver, G2Done,
           CoTell, CoTold, CoMsg, CoSlotEnd, CoStopped, CoStart, CoStartFail, TxManagerTake,
           TxManagerStop, Mine, MarkExternalDelete, ExternalDeletePurger, Replace
  <2>2. ch # <<>> => 1 \in DOMAIN ch /\ ch[1] = Head(ch)
    BY <1>a, LenProperties, EmptySeq, HeadTailProperties
  <2>3. ch # <<>> => WasBuilt(Head(ch), built)
    BY <2>2 DEF Known
  <2> QED
    BY <1>2, <2>1, <2>3 DEF Known
<1>9. pc1' \in {"prove", "send"} => WasBuilt(batch1', built')
  <2>1. pc1' \in {"prove", "send"} =>
          \/ pc1 \in {"prove", "send"} /\ batch1' = batch1
          \/ G1Build /\ Build /\ batch1' = batch1
    BY DEF Next, ForgeLoop, ProofLoop, CoordinatorLoop, Others,
           G1Stats, G1Timer, G1Get, G1Select, NotSelected, Select, SkipSelected, Skip, Fail,
           GiveBack, G1Build, Build, BuildFails, G1Prove, G1Msg,
           G1Revert, G1Send, G1Done, G2Recv, G2Wait, G2Msg, G2Revert, G2Add, G2Deliver, G2Done,
           CoTell, CoTold, CoMsg, CoSlotEnd, CoStopped, CoStart, CoStartFail, TxManagerTake,
           TxManagerStop, Mine, MarkExternalDelete, ExternalDeletePurger, Replace
  <2> QED
    BY <1>2, <2>1, BuildKnown DEF Known
<1> QED
  BY <1>3, <1>4, <1>5, <1>6, <1>7, <1>8, <1>9 DEF Known

LEMMA PlacesNext ==
  ASSUME IInv, Places, Next
  PROVE  Places'
<1> USE DEF UNCHLine, histVars, coordVars, envVars, g1Vars, g2Vars, Running, Places, Root
<1>a. batchNum \in Nat /\ (pc2 = "wait" => batch2.num # 0)
      /\ (pc1 \in {"forge", "build", "prove"} => batchNum # 0)
      /\ from.own \in Seq(Entry) /\ bbDB.cur \in Seq(Entry)
  BY DEF IInv, TypeOK, BatchInfo, Holding
<1>1. CASE G1Stats \/ G1Timer \/ G1Get \/ G1Prove \/ G1Msg \/ G1Revert \/ G1Send \/ G1Done
  <2> USE DEF UNCH1
  <2>1. CASE G1Stats \/ G1Timer \/ G1Revert \/ G1Done \/ G1Send
    BY <2>1 DEF G1Stats, G1Timer, G1Revert, G1Done, G1Send
  <2>2. CASE G1Get
    <3>1. ctx \in {"run", "done"}
      BY <2>2 DEF G1Get, IInv, TypeOK, Stopping
    <3> QED
      BY <2>2, <3>1 DEF G1Get
  <2>3. CASE G1Prove
    BY <2>3, <1>a DEF G1Prove, Fail, Skip, GiveBack
  <2>4. CASE G1Msg
    <3>1. pc1 = "msg" /\ (ctx = "run" => errAt # 0)
      BY <2>4 DEF G1Msg, IInv, InStepAt
    <3> QED
      BY <2>4, <3>1 DEF G1Msg
  <2> QED
    BY <1>1, <2>1, <2>2, <2>3, <2>4
<1>2. CASE G1Select
  <2>1. /\ pc1 = "forge" /\ batchNum = st.batchNum + 1
        /\ UNCHANGED <<batchNum, st, bbDB, ctx, pc2, from>>
    BY <1>2 DEF G1Select, UNCH1, IInv, InStepAt, Forging1
  <2>2. CASE NotSelected
    BY <1>a, <2>1, <2>2 DEF NotSelected, Skip, Fail, GiveBack
  <2>3. ASSUME NEW ids, NEW l1, Select(ids, l1) PROVE Places'
    BY <2>1, <2>3 DEF Select
  <2>4. ASSUME NEW ids, NEW l1, SkipSelected(ids, l1) PROVE Places'
    BY <2>1, <2>4 DEF SkipSelected, Skip, GiveBack
  <2> QED
    BY <1>2, <2>2, <2>3, <2>4 DEF G1Select
<1>3. CASE G1Build
  <2>1. pc1 = "build" /\ batch1 \in BatchInfo /\ UNCHANGED <<batchNum, ctx, pc2, from>>
    BY <1>3 DEF G1Build, IInv, TypeOK
  <2>2. CASE Build
    <3> DEFINE e == [txs |-> batch1.txs, l1 |-> batch1.l1]
    <3>1. bbDB'.cur = Append(bbDB.cur, e)
      BY <2>2 DEF Build, MakeCheckpoint
    <3>2. bbDB'.cur = Root(batch1) /\ e \in Entry
      BY <2>1, <3>1, RootType
    <3> HIDE DEF e
    <3>3. Len(bbDB'.cur) = Len(bbDB.cur) + 1 /\ Len(bbDB.cur) \in Nat /\ Len(from.own) \in Nat
      <4>1. Len(bbDB.cur) \in Nat /\ Len(from.own) \in Nat
        BY <1>a, LenProperties
      <4>2. Len(Append(bbDB.cur, e)) = Len(bbDB.cur) + 1
        BY <1>a, <3>2, AppendProperties
      <4> QED
        BY <3>1, <4>1, <4>2
    <3>4. CASE ctx = "done"
      BY <2>1, <2>2, <3>4 DEF Build, Skip, GiveBack
    <3>5. CASE ctx # "done"
      <4>1. pc1' = "prove" /\ UNCHANGED <<batch1, errAt>>
        BY <2>2, <3>5 DEF Build
      <4>2. Running' => Len(from'.own) <= Len(bbDB'.cur)
        BY <2>1, <3>3, <4>1
      <4>3. bbDB'.cur = Root(batch1)'
        BY <3>2, <4>1
      <4> QED
        BY <2>1, <4>1, <4>2, <4>3
    <3> QED
      BY <3>4, <3>5
  <2>3. CASE BuildFails
    BY <2>1, <2>3, <1>a DEF BuildFails, Fail, Skip, GiveBack
  <2> QED
    BY <1>3, <2>2, <2>3 DEF G1Build
<1>4. CASE ProofLoop
  BY <1>4, <1>a DEF ProofLoop, G2Recv, G2Wait, G2Msg, G2Revert, G2Add, G2Deliver, G2Done, UNCH2
<1>5. CASE CoStart
  BY <1>5, StartsWith
<1>6. CASE CoTell \/ CoTold \/ CoMsg \/ CoSlotEnd
  BY <1>6 DEF CoTell, CoTold, CoMsg, CoSlotEnd
<1>7. CASE CoStopped
  BY <1>7 DEF CoStopped, DropPipeline
<1>8. CASE CoStartFail
  <2>1. pc1 = "done" /\ pc2 = "done" /\ ctx = "none"
    BY <1>8 DEF CoStartFail, CanStart, IInv, Stopping
  <2> QED
    BY <1>8, <2>1 DEF CoStartFail
<1>9. CASE Others
  BY <1>9 DEF Others, TxManagerTake, TxManagerStop, Mine, MarkExternalDelete,
              ExternalDeletePurger, Replace, UNCHEnv
<1> QED
  BY <1>1, <1>2, <1>3, <1>4, <1>5, <1>6, <1>7, <1>8, <1>9 DEF Next, ForgeLoop, CoordinatorLoop

-----------------------------------------------------------------------------
(* The queues of the contract. *)

LEMMA QueuesNext ==
  ASSUME IInv, Queues, Next
  PROVE  Queues'
<1> USE DEF UNCHLine, histVars, coordVars, envVars, g1Vars, g2Vars, Running, Going, Forging1,
           AtWork1, Queues
<1>a. /\ st \in [batchNum : Nat, lastL1 : Nat] /\ statL1 \in Nat /\ errAt \in Nat
      /\ L1Count(chain) \in Nat /\ L1Count(bbDB.cur) \in Nat /\ Ahead \in Int
      /\ batchNum \in Nat /\ (pc2 = "wait" => batch2.num # 0)
      /\ (pc1 \in {"forge", "build", "prove"} => batchNum # 0)
  <2>1. L1Count(from.own) \in Nat /\ L1Count(from.synced) \in Nat
    BY L1CountType DEF IInv, TypeOK
  <2>2. Ahead \in Int
    BY <2>1 DEF Ahead
  <2>3. L1Count(chain) \in Nat /\ L1Count(bbDB.cur) \in Nat
    BY L1CountType DEF IInv, TypeOK
  <2> QED
    BY <2>2, <2>3 DEF IInv, TypeOK, BatchInfo, Holding
<1>b. from' = from => Ahead' = Ahead
  BY DEF Ahead, L1Count
<1>1. CASE G1Stats
  BY <1>1, <1>a, <1>b DEF G1Stats, UNCH1
<1>2. CASE G1Timer \/ G1Revert \/ G1Send \/ G1Done
  BY <1>2, <1>a, <1>b DEF G1Timer, G1Revert, G1Send, G1Done, UNCH1
<1>3. CASE G1Get
  <2>1. ctx \in {"run", "done"}
    BY <1>3 DEF G1Get, IInv, TypeOK, Stopping
  <2> QED
    BY <1>3, <1>a, <1>b, <2>1 DEF G1Get, UNCH1
<1>4. CASE G1Select
  <2>1. pc1 = "forge" /\ UNCHANGED <<batchNum, st, statL1, bbDB, ctx, chain, from>>
    BY <1>4 DEF G1Select, UNCH1
  <2>2. CASE NotSelected
    BY <1>a, <1>b, <2>1, <2>2 DEF NotSelected, Fail, Skip, GiveBack
  <2>3. ASSUME NEW ids, NEW l1, l1 => LastL1BatchSynced, Select(ids, l1)
        PROVE  Queues'
    BY <1>a, <1>b, <2>1, <2>3 DEF Select, LastL1BatchSynced
  <2>4. ASSUME NEW ids, NEW l1, SkipSelected(ids, l1)
        PROVE  Queues'
    BY <1>a, <1>b, <2>1, <2>4 DEF SkipSelected, Skip, GiveBack
  <2> QED
    BY <1>4, <2>2, <2>3, <2>4 DEF G1Select
<1>5. CASE G1Build
  <2>1. /\ pc1 = "build" /\ UNCHANGED <<batchNum, statL1, ctx, chain, from>>
        /\ st'.lastL1 = st.lastL1 + L1Forged
    BY <1>5, <1>a, <1>b DEF G1Build, UNCH1
  <2>2. CASE Build
    <3> DEFINE e == [txs |-> batch1.txs, l1 |-> batch1.l1]
    <3>1. bbDB'.cur = Append(bbDB.cur, e)
      BY <2>2 DEF Build, MakeCheckpoint
    <3>2. e \in Entry /\ bbDB.cur \in Seq(Entry) /\ e.l1 = batch1.l1 /\ batch1.l1 \in BOOLEAN
      BY <2>1 DEF IInv, TypeOK, BatchInfo, Entry
    <3> HIDE DEF e
    <3>3. L1Count(Append(bbDB.cur, e)) = L1Count(bbDB.cur) + IF e.l1 THEN 1 ELSE 0
      BY <3>2, RootsGrow
    <3>4. L1Count(bbDB.cur)' = L1Count(bbDB.cur) + L1Forged
      BY <3>1, <3>2, <3>3 DEF L1Forged, L1Count
    <3>5. /\ L1Forged \in {0, 1} /\ (L1Forged = 1 => batch1.l1)
          /\ L1Count(chain)' = L1Count(chain)
      BY <2>1 DEF L1Forged, L1Count
    <3>6. pc1' \in {"revert", "prove"} /\ (pc1' = "revert" => ctx = "done")
          /\ errAt' = errAt
      BY <2>2 DEF Build, Skip, GiveBack
    <3> QED
      BY <1>a, <1>b, <2>1, <3>4, <3>5, <3>6
  <2>3. CASE BuildFails
    <3>1. L1Count(chain)' = L1Count(chain) /\ bbDB' = bbDB
      BY <2>1, <2>3 DEF BuildFails, L1Count
    <3>2. pc1' \in {"revert", "msg"} /\ (ctx = "run" => errAt' # 0)
      BY <1>a, <1>b, <2>1, <2>3 DEF BuildFails, Fail, Skip, GiveBack
    <3> QED
      BY <1>a, <1>b, <2>1, <3>1, <3>2
  <2> QED
    BY <1>5, <2>2, <2>3 DEF G1Build
<1>6. CASE G1Prove
  BY <1>6, <1>a, <1>b DEF G1Prove, Fail, Skip, GiveBack, UNCH1
<1>7. CASE G1Msg
  <2>1. pc1 = "msg" /\ (ctx = "run" => errAt # 0)
    BY <1>7 DEF G1Msg, IInv, InStepAt
  <2> QED
    BY <1>7, <1>a, <1>b, <2>1 DEF G1Msg, UNCH1
<1>8. CASE ProofLoop
  BY <1>8, <1>a, <1>b DEF ProofLoop, G2Recv, G2Wait, G2Msg, G2Revert, G2Add, G2Deliver, G2Done, UNCH2
<1>9. CASE CoStart
  <2>1. /\ chain' = chain /\ statL1' = L1Count(chain) /\ st'.lastL1 = L1Count(chain)
        /\ pc1' = "select" /\ from' = [own |-> bbDB'.cur, synced |-> chain]
        /\ bbDB'.cur \in Seq(Entry)
    BY <1>9, StartsWith
  <2>2. /\ L1Count(chain)' = L1Count(chain) /\ L1Count(bbDB.cur)' = L1Count(bbDB'.cur)
        /\ Ahead' = L1Count(bbDB'.cur) - L1Count(chain)
    BY <2>1 DEF L1Count, Ahead
  <2>3. L1Count(bbDB'.cur) \in Nat
    BY <2>1, L1CountType
  <2> QED
    BY <1>a, <1>b, <2>1, <2>2, <2>3
<1>10. CASE CoTell \/ CoTold \/ CoMsg \/ CoSlotEnd
  BY <1>10, <1>a, <1>b DEF CoTell, CoTold, CoMsg, CoSlotEnd
<1>14. CASE CoStopped
  <2>1. statL1' = 0 /\ pc1' = "done" /\ ctx' = "none" /\ L1Count(chain)' = L1Count(chain)
    BY <1>14 DEF CoStopped, DropPipeline, L1Count
  <2> QED
    BY <1>a, <1>b, <2>1
<1>11. CASE CoStartFail
  <2>1. pc1 = "done" /\ ctx = "none"
    BY <1>11 DEF CoStartFail, CanStart, IInv, Stopping
  <2>2. UNCHANGED <<statL1, chain, pc1, ctx>>
    BY <1>11 DEF CoStartFail
  <2>3. L1Count(chain)' = L1Count(chain)
    BY <2>2 DEF L1Count
  <2> QED
    BY <1>a, <1>b, <2>1, <2>2, <2>3
<1>12. CASE Mine
  <2>1. PICK b \in sent : b.base = chain /\ chain' = Root(b)
    BY <1>12 DEF Mine
  <2>2. b \in BatchInfo /\ chain \in Seq(Entry)
    BY <2>1 DEF IInv, TypeOK
  <2>3. [txs |-> b.txs, l1 |-> b.l1] \in Entry
    BY <2>2, RootType
  <2>4. L1Count(chain)' >= L1Count(chain) /\ L1Count(chain)' \in Nat
    <3>1. chain' = Append(chain, [txs |-> b.txs, l1 |-> b.l1])
      BY <2>1 DEF Root
    <3>2. L1Count(Append(chain, [txs |-> b.txs, l1 |-> b.l1]))
            \in {L1Count(chain), L1Count(chain) + 1}
      BY <1>a, <1>b, <2>2, <2>3, RootsGrow
    <3>3. L1Count(chain)' = L1Count(chain')
      BY DEF L1Count
    <3> QED
      BY <1>a, <1>b, <3>1, <3>2, <3>3
  <2>5. UNCHANGED <<statL1, st, bbDB, pc1, batch1, ctx, errAt, from>>
    BY <1>12 DEF Mine, UNCHEnv
  <2>6. L1Count(bbDB.cur)' = L1Count(bbDB.cur)
    BY <2>5 DEF L1Count
  <2> QED
    BY <1>a, <1>b, <2>4, <2>5, <2>6
<1>13. CASE TxManagerTake \/ TxManagerStop \/ MarkExternalDelete \/ ExternalDeletePurger
            \/ Replace
  BY <1>13, <1>a, <1>b DEF TxManagerTake, TxManagerStop, MarkExternalDelete, ExternalDeletePurger,
                     Replace, UNCHEnv
<1> QED
  BY <1>1, <1>2, <1>3, <1>4, <1>5, <1>6, <1>7, <1>8, <1>9, <1>10, <1>11, <1>12, <1>13, <1>14
     DEF Next, ForgeLoop, CoordinatorLoop, Others

-----------------------------------------------------------------------------
(* The marks of the pool: what a step that updates the table leaves of them. *)

\* a mark of q was there in p, for the same batch or for one that is on record
MarksFrom(p, q) ==
  \A t \in MarkedRows(q) :
    /\ t \in MarkedRows(p)
    /\ q[t].batch = p[t].batch \/ \E r \in built : r.num = q[t].batch /\ t \in r.txs

\* rows that are not in d keep their marks
MarksStay(p, q, d) ==
  \A t \in DOMAIN q \ d : /\ t \in MarkedRows(p) => t \in MarkedRows(q)
                          /\ t \in MarkedRows(q) => q[t].batch = p[t].batch

PendingStays(p, q) ==
  \A t \in DOMAIN q : (t \in DOMAIN p => p[t].state = Pending) => q[t].state = Pending

LEMMA MarkedType == \A p : MarkedRows(p) \subseteq DOMAIN p
BY DEF MarkedRows, InState

LEMMA UpdateReorg ==
  ASSUME IsPool(pool), NEW n \in Int, NEW q, q = Reorg(pool, n)
  PROVE  MarksFrom(pool, q) /\ PendingStays(pool, q)
<1>1. /\ DOMAIN q = DOMAIN pool
      /\ MarkedRows(q) \subseteq MarkedRows(pool)
      /\ \A t \in MarkedRows(q) : q[t] = pool[t]
      /\ \A t \in DOMAIN pool : pool[t].state = Pending => q[t] = pool[t]
  BY MarksAfterReorg
<1> QED
  BY <1>1 DEF MarksFrom, PendingStays

LEMMA UpdatePurger ==
  ASSUME IsPool(pool), NEW invalidate, NEW purge, NEW q, q = AfterPurger(invalidate, purge),
         NEW d
  PROVE  DOMAIN q \subseteq DOMAIN pool /\ MarksFrom(pool, q) /\ MarksStay(pool, q, d)
<1> DEFINE acc == AccNonce(selDB.cur)
           p == IF invalidate THEN InvalidateOldNonces(pool, acc, batchNum) ELSE pool
<1>1. p = pool \/ p = InvalidateOldNonces(pool, acc, batchNum)
  OBVIOUS
<1>2. q = p \/ q = Purge(p, batchNum)
  BY DEF AfterPurger
<1> HIDE DEF acc, p
<1>3. DOMAIN p = DOMAIN pool /\ MarkedRows(p) = MarkedRows(pool)
      /\ \A t \in MarkedRows(pool) : p[t] = pool[t]
  BY <1>1, MarksAfterInvalidate
<1>4. /\ DOMAIN q \subseteq DOMAIN p
      /\ MarkedRows(q) = MarkedRows(p) \cap DOMAIN q
      /\ \A t \in DOMAIN q : q[t] = p[t]
  <2>1. CASE q = p
    BY <2>1, MarkedType
  <2>2. CASE q = Purge(p, batchNum)
    <3>1. DOMAIN q \subseteq DOMAIN p /\ \A t \in DOMAIN q : q[t] = p[t]
      BY <2>2 DEF Purge, Delete
    <3> QED
      BY <3>1 DEF MarkedRows, InState
  <2> QED
    BY <1>2, <2>1, <2>2
<1>5. /\ DOMAIN q \subseteq DOMAIN pool
      /\ MarkedRows(q) = MarkedRows(pool) \cap DOMAIN q
      /\ \A t \in MarkedRows(q) : q[t] = pool[t]
  BY <1>3, <1>4
<1> QED
  BY <1>5 DEF MarksFrom, MarksStay

\* what the others do to the rows is written down in disturbed, or is no mark
LEMMA UpdateOthers ==
  ASSUME IInv, Known, Others
  PROVE  /\ MarksFrom(pool, pool') /\ MarksStay(pool, pool', disturbed')
         /\ PendingStays(pool, pool') /\ disturbed \subseteq disturbed'
         /\ \A t \in DOMAIN pool' \ DOMAIN pool : t \in disturbed' \/ t \notin TxsOf(bbDB.cur)
<1> USE DEF MarksFrom, MarksStay, PendingStays
<1>a. IsPool(pool) /\ batchCh \in Seq(BatchInfo) /\ MarkedRows(pool) \subseteq DOMAIN pool
  BY MarkedType DEF IInv, TypeOK
<1>0. CASE pool' = pool /\ disturbed' = disturbed
  BY <1>0
<1>1. CASE TxManagerTake
  <2> DEFINE b == Head(batchCh)
  <2>1. \/ pool' = pool /\ disturbed' = disturbed
        \/ pool' = DoneForging(pool, b.txs, b.num) /\ disturbed' = disturbed \cup Overtaken(b)
    BY <1>1 DEF TxManagerTake
  <2>2. batchCh # <<>>
    BY <1>1 DEF TxManagerTake
  <2>3. 1 \in DOMAIN batchCh /\ batchCh[1] = b
    BY <1>a, <2>2, LenProperties, EmptySeq, HeadTailProperties
  <2>4. b \in BatchInfo /\ WasBuilt(b, built)
    BY <1>a, <2>3 DEF Known
  <2>5. [num |-> b.num, txs |-> b.txs] \in built
    BY <2>4, BuiltLast
  <2> HIDE DEF b
  <2>6. CASE pool' = DoneForging(pool, b.txs, b.num) /\ disturbed' = disturbed \cup Overtaken(b)
    <3>1. /\ DOMAIN pool' = DOMAIN pool
          /\ MarkedRows(pool') = MarkedRows(pool)
          /\ \A t \in DOMAIN pool :
                \/ pool'[t] = pool[t]
                \/ t \in b.txs \cap InState(pool, {Forging}) /\ pool'[t].batch = b.num
      BY <1>a, <2>6, MarksAfterDone
    <3>2. ASSUME NEW t \in MarkedRows(pool')
          PROVE  /\ t \in MarkedRows(pool)
                 /\ \/ pool'[t].batch = pool[t].batch
                    \/ \E r \in built : r.num = pool'[t].batch /\ t \in r.txs
      BY <1>a, <2>5, <3>1
    <3>3. \A t \in MarkedRows(pool') \ disturbed' : pool'[t].batch = pool[t].batch
      BY <1>a, <2>6, <3>1 DEF Overtaken
    <3>4. \A t \in DOMAIN pool' : pool[t].state = Pending => pool'[t].state = Pending
      BY <3>1 DEF InState
    <3> QED
      BY <2>6, <3>1, <3>2, <3>3, <3>4
  <2> QED
    BY <2>1, <2>6, <1>0
<1>2. CASE TxManagerStop \/ Mine
  BY <1>2, <1>0 DEF TxManagerStop, Mine
<1>3. CASE MarkExternalDelete
  <2>1. PICK t \in DOMAIN pool : pool' = [pool EXCEPT ![t] = [pool[t] EXCEPT !.extDelete = TRUE]]
    BY <1>3 DEF MarkExternalDelete
  <2>2. DOMAIN pool' = DOMAIN pool /\ disturbed' = disturbed
    BY <1>3, <2>1 DEF MarkExternalDelete
  <2>3. \A u \in DOMAIN pool : pool'[u].state = pool[u].state /\ pool'[u].batch = pool[u].batch
    BY <1>a, <2>1 DEF IsPool, Row
  <2>4. MarkedRows(pool') = MarkedRows(pool)
    BY <2>2, <2>3 DEF MarkedRows, InState
  <2> QED
    BY <1>a, <2>2, <2>3, <2>4
<1>4. CASE ExternalDeletePurger
  <2> DEFINE gone == {t \in InState(pool, {Pending}) : pool[t].extDelete}
  <2>1. pool' = Delete(pool, gone) /\ disturbed' = disturbed
    BY <1>4 DEF ExternalDeletePurger, PurgeByExternalDelete
  <2> HIDE DEF gone
  <2>2. /\ DOMAIN pool' \subseteq DOMAIN pool
        /\ MarkedRows(pool') = MarkedRows(pool) \cap DOMAIN pool'
        /\ \A t \in DOMAIN pool' : pool'[t] = pool[t]
    BY <1>a, <2>1, MarksAfterDelete
  <2> QED
    BY <2>1, <2>2
<1>5. CASE Replace
  <2>1. PICK t \in TxIDs : /\ CanReplaceTx(pool, t) /\ pool' = ReplaceTx(pool, t, 0)
                           /\ disturbed' = disturbed \cup ({t} \cap TxsOf(bbDB.cur))
    BY <1>5 DEF Replace
  <2>2. t \notin DOMAIN pool \ Replaced(pool, t)
    BY <2>1 DEF CanReplaceTx
  <2>3. \A u \in Replaced(pool, t) : u \in DOMAIN pool /\ u \notin MarkedRows(pool)
    BY DEF Replaced, InState, MarkedRows
  <2>4. /\ DOMAIN pool' = (DOMAIN pool \ Replaced(pool, t)) \cup {t}
        /\ \A v \in DOMAIN pool' : pool'[v] = IF v = t THEN NewRow(0) ELSE pool[v]
    BY <2>1 DEF ReplaceTx, Insert, Delete
  <2>5. pool'[t].state = Pending /\ \A v \in DOMAIN pool' : v # t => pool'[v] = pool[v]
    BY <2>4 DEF NewRow
  <2>6. MarkedRows(pool') = MarkedRows(pool)
    BY <2>2, <2>3, <2>4, <2>5 DEF MarkedRows, InState
  <2>7. t \notin MarkedRows(pool)
    BY <2>2, <2>3 DEF MarkedRows, InState
  <2>8. disturbed \subseteq disturbed' /\ (t \in disturbed' \/ t \notin TxsOf(bbDB.cur))
    BY <2>1
  <2>9. MarksFrom(pool, pool') /\ MarksStay(pool, pool', disturbed')
    <3>1. \A v \in MarkedRows(pool') : v # t /\ v \in DOMAIN pool'
      BY <2>6, <2>7, MarkedType
    <3>2. \A v \in MarkedRows(pool') : pool'[v].batch = pool[v].batch
      BY <2>5, <3>1
    <3> QED
      BY <2>6, <3>2
  <2>10. PendingStays(pool, pool')
    BY <2>4, <2>5
  <2> QED
    BY <2>4, <2>8, <2>9, <2>10
<1> QED
  BY <1>1, <1>2, <1>3, <1>4, <1>5 DEF Others

LEMMA UpdateSteps ==
  ASSUME IInv, Known, Next, ~G1Build
  PROVE  MarksFrom(pool, pool') /\ (pc1 = "build" => PendingStays(pool, pool'))
<1>a. IsPool(pool) /\ batchNum \in Nat /\ stopAt \in Nat \cup {NULL} /\ msgCh \in Seq(Nat)
      /\ FromBatch \in Nat /\ LastBatch \in Nat
  BY FromBatchType DEF IInv, TypeOK
<1>0. CASE pool' = pool
  BY <1>0, MarkedType DEF MarksFrom, PendingStays
<1>1. CASE \E n \in Int : pool' = Reorg(pool, n)
  BY <1>1, <1>a, UpdateReorg
<1>2. CASE ForgeLoop
  <2>1. CASE G1Select
    <3>1. PICK invalidate, purge \in BOOLEAN : pool' = AfterPurger(invalidate, purge)
      BY <2>1 DEF G1Select
    <3> QED
      BY <1>a, <2>1, <3>1, UpdatePurger DEF G1Select
  <2>2. CASE G1Revert
    BY <1>a, <1>1, <2>2 DEF G1Revert
  <2>3. CASE ~G1Select /\ ~G1Revert
    BY <1>0, <1>2, <2>3 DEF ForgeLoop, G1Stats, G1Timer, G1Get, G1Prove, G1Msg, G1Send, G1Done
  <2> QED
    BY <2>1, <2>2, <2>3
<1>3. CASE ProofLoop
  <2>1. pool' = pool \/ pool' = Reorg(pool, batchNum - 1)
    BY <1>3 DEF ProofLoop, G2Recv, G2Wait, G2Msg, G2Revert, G2Add, G2Deliver, G2Done
  <2> QED
    BY <1>a, <1>0, <1>1, <2>1
<1>4. CASE CoordinatorLoop
  <2>1. CASE CoMsg
    <3> DEFINE failed == Head(msgCh)
               back == IF failed # 0 THEN failed - 1 ELSE LastBatch
    <3>1. failed \in Nat
      BY <1>a, <2>1, HeadTailProperties DEF CoMsg
    <3>2. back \in Int
      BY <1>a, <3>1
    <3>3. pool' = pool \/ pool' = Reorg(pool, back)
      BY <2>1 DEF CoMsg
    <3> QED
      BY <1>0, <1>1, <3>2, <3>3
  <2>2. CASE CoStopped
    <3>1. pool' = pool \/ (stopAt # NULL /\ pool' = Reorg(pool, stopAt))
      BY <2>2 DEF CoStopped
    <3> QED
      BY <1>a, <1>0, <1>1, <3>1
  <2>3. CASE CoStart \/ CoStartFail
    <3>1. pool' = Reorg(pool, FromBatch)
      BY <2>3 DEF CoStart, CoStartFail
    <3> QED
      BY <1>a, <1>1, <3>1
  <2>4. CASE CoTell \/ CoTold \/ CoSlotEnd
    BY <1>0, <2>4 DEF CoTell, CoTold, CoSlotEnd
  <2> QED
    BY <1>4, <2>1, <2>2, <2>3, <2>4 DEF CoordinatorLoop
<1>5. CASE Others
  BY <1>5, UpdateOthers
<1> QED
  BY <1>2, <1>3, <1>4, <1>5 DEF Next

\* while the pipeline runs a Reorg takes no mark away but disturbed ones
LEMMA UpdateRunning ==
  ASSUME IInv, Known, Places, MarksFit, Next, ~G1Build, ~CoStart, Running'
  PROVE  /\ MarksStay(pool, pool', disturbed') /\ disturbed \subseteq disturbed'
         /\ \A t \in DOMAIN pool' \ DOMAIN pool : t \in disturbed' \/ t \notin TxsOf(bbDB.cur)
<1>a. IsPool(pool)
  BY DEF IInv, TypeOK
<1>b. Running
  BY RunsOn
<1>0. CASE pool' = pool /\ disturbed' = disturbed
  BY <1>0 DEF MarksStay
<1>1. CASE G1Select
  <2>1. PICK invalidate, purge \in BOOLEAN : pool' = AfterPurger(invalidate, purge)
    BY <1>1 DEF G1Select
  <2>2. disturbed' = disturbed
    BY <1>1 DEF G1Select, UNCH1, UNCHLine
  <2> QED
    BY <1>a, <2>1, <2>2, UpdatePurger
<1>2. CASE G1Revert
  <2>1. pc1 = "revert" /\ pool' = Reorg(pool, batchNum - 1) /\ disturbed' = disturbed
    BY <1>2 DEF G1Revert, UNCH1, UNCHLine
  <2>2. batchNum - 1 = Len(bbDB.cur) /\ Len(bbDB.cur) \in Nat
    BY <1>b, <2>1 DEF Places, IInv, InStepAt, TypeOK
  <2>3. /\ DOMAIN pool' = DOMAIN pool
        /\ MarkedRows(pool') = {t \in MarkedRows(pool) :
                                  pool[t].batch = NULL \/ pool[t].batch <= Len(bbDB.cur)}
        /\ \A t \in MarkedRows(pool') : pool'[t] = pool[t]
    BY <1>a, <2>1, <2>2, MarksAfterReorg
  <2>4. \A t \in MarkedRows(pool) \ disturbed : pool[t].batch <= Len(bbDB.cur)
    BY <1>b DEF MarksFit
  <2> QED
    BY <2>1, <2>3, <2>4 DEF MarksStay
<1>3. CASE ForgeLoop /\ ~G1Select /\ ~G1Revert
  <2>1. pool' = pool /\ disturbed' = disturbed
    BY <1>3 DEF ForgeLoop, G1Stats, G1Timer, G1Get, G1Prove, G1Msg, G1Send, G1Done,
                UNCH1, UNCHLine, histVars
  <2> QED
    BY <2>1, <1>0
<1>4. CASE ProofLoop
  <2>1. ~G2Revert
    BY <1>b DEF Places, G2Revert
  <2>2. pool' = pool /\ disturbed' = disturbed
    BY <1>4, <2>1 DEF ProofLoop, G2Recv, G2Wait, G2Msg, G2Add, G2Deliver, G2Done,
                      UNCH2, histVars
  <2> QED
    BY <2>2, <1>0
<1>5. CASE CoordinatorLoop
  <2>1. CoTell \/ CoTold
    BY <1>5, <1>b DEF CoordinatorLoop, CoMsg, CoSlotEnd, CoStopped, DropPipeline, CoStartFail,
                      CanStart, Running
  <2> QED
    BY <2>1, <1>0 DEF CoTell, CoTold, histVars
<1>6. CASE Others
  BY <1>6, UpdateOthers
<1> QED
  BY <1>1, <1>2, <1>3, <1>4, <1>5, <1>6 DEF Next

\* a batch that is built marks its transactions
LEMMA BuildMarks ==
  ASSUME IInv, StillPending, G1Build, NEW q, q = Marked
  PROVE  /\ DOMAIN q = DOMAIN pool
         /\ MarkedRows(q) = MarkedRows(pool) \cup (batch1.txs \cap DOMAIN pool)
         /\ \A t \in MarkedRows(q) :
              \/ t \in MarkedRows(pool) /\ q[t].batch = pool[t].batch
              \/ t \in batch1.txs /\ q[t].batch = batchNum
<1>1. pc1 = "build" /\ IsPool(pool) /\ batchNum \in Nat
  BY DEF G1Build, IInv, TypeOK
<1>2. \A t \in batch1.txs \cap DOMAIN pool : pool[t].state = Pending
  BY <1>1 DEF StillPending
<1> DEFINE p == StartForging(pool, batch1.txs, batchNum)
           acc == IdxsNonce(batch1.txs)
<1>3. /\ IsPool(p) /\ DOMAIN p = DOMAIN pool
      /\ MarkedRows(p) = MarkedRows(pool) \cup (batch1.txs \cap DOMAIN pool)
      /\ \A t \in DOMAIN pool : p[t] = pool[t] \/ (t \in batch1.txs /\ p[t].batch = batchNum)
  <2>1. IsPool(p)
    BY <1>1, StatementsGivePool
  <2> QED
    BY <2>1, <1>1, <1>2, MarksAfterStart
<1>4. q = InvalidateOldNonces(p, acc, batchNum)
  BY DEF Marked
<1> HIDE DEF p, acc
<1>5. /\ DOMAIN q = DOMAIN p /\ MarkedRows(q) = MarkedRows(p)
      /\ \A t \in MarkedRows(p) : q[t] = p[t]
  BY <1>3, <1>4, MarksAfterInvalidate
<1>6. ASSUME NEW t \in MarkedRows(q)
      PROVE  \/ t \in MarkedRows(pool) /\ q[t].batch = pool[t].batch
             \/ t \in batch1.txs /\ q[t].batch = batchNum
  <2>1. t \in DOMAIN pool /\ q[t] = p[t]
    BY <1>3, <1>5, MarkedType
  <2>2. CASE p[t] = pool[t]
    <3>1. t \in MarkedRows(pool)
      BY <2>1, <2>2, <1>3, <1>5 DEF MarkedRows, InState
    <3> QED
      BY <2>1, <2>2, <3>1
  <2> QED
    BY <1>3, <2>1, <2>2
<1> QED
  BY <1>3, <1>5, <1>6

LEMMA MarksMeanNext ==
  ASSUME IInv, Known, StillPending, MarksMean, Next
  PROVE  MarksMean'
<1> USE DEF UNCHLine, histVars, coordVars, envVars, g1Vars, g2Vars
<1>a. /\ IsPool(pool) /\ batchNum \in Nat
      /\ \A t \in MarkedRows(pool) : pool[t].batch \in Nat \cup {NULL}
  BY MarkedType DEF IInv, TypeOK, IsPool, Row
<1> SUFFICES ASSUME NEW t \in MarkedRows(pool')
             PROVE  \/ \E r \in built' : r.num = pool'[t].batch /\ t \in r.txs
                    \/ pc1' \in {"msg", "revert"} /\ pool'[t].batch >= batchNum'
  BY DEF MarksMean, MarkedRows, InState
<1>1. CASE G1Build
  <2>1. pc1 = "build" /\ batch1 \in BatchInfo /\ batchNum' = batchNum
    BY <1>1 DEF G1Build, IInv, TypeOK
  <2>2. CASE pool' = pool /\ built' = built
    BY <2>1, <2>2 DEF MarksMean
  <2>3. CASE pool' = Marked
    <3>1. \/ t \in MarkedRows(pool) /\ pool'[t].batch = pool[t].batch
          \/ t \in batch1.txs /\ pool'[t].batch = batchNum
      BY <1>1, <2>3, BuildMarks
    <3>2. built \subseteq built'
      BY <1>1 DEF G1Build, Build, BuildFails
    <3>3. CASE t \in MarkedRows(pool) /\ pool'[t].batch = pool[t].batch
      BY <2>1, <3>2, <3>3 DEF MarksMean
    <3>4. CASE Build /\ t \in batch1.txs /\ pool'[t].batch = batchNum
      <4>1. [num |-> batchNum, txs |-> batch1.txs] \in built'
        BY <3>4 DEF Build
      <4> QED
        BY <3>4, <4>1
    <3>5. CASE BuildFails /\ pool'[t].batch = batchNum
      <4>1. pc1' \in {"msg", "revert"}
        BY <3>5 DEF BuildFails, Fail, Skip, GiveBack
      <4> QED
        BY <1>a, <2>1, <3>5, <4>1
    <3> QED
      BY <1>1, <3>1, <3>3, <3>4, <3>5 DEF G1Build
  <2> QED
    BY <1>1, <2>2, <2>3 DEF G1Build, Build, BuildFails
<1>2. CASE G1Revert
  <2>1. pool' = Reorg(pool, batchNum - 1) /\ built' = built
    BY <1>2 DEF G1Revert, UNCH1
  <2>2. t \in MarkedRows(pool) /\ pool'[t] = pool[t]
        /\ (pool[t].batch = NULL \/ pool[t].batch <= batchNum - 1)
    BY <1>a, <2>1, MarksAfterReorg
  <2>3. ~(pool[t].batch >= batchNum)
    BY <1>a, <2>2
  <2> QED
    BY <2>1, <2>2, <2>3 DEF MarksMean
<1>3. CASE ~G1Build /\ ~G1Revert
  <2>1. built' = built
    BY <1>3 DEF Next, ForgeLoop, ProofLoop, CoordinatorLoop, Others, UNCH1, UNCH2, UNCHEnv,
           G1Stats, G1Timer, G1Get, G1Select, G1Prove, G1Msg, G1Send,
           G1Done, G2Recv, G2Wait, G2Msg, G2Revert, G2Add, G2Deliver, G2Done,
           CoTell, CoTold, CoMsg, CoSlotEnd, CoStopped, CoStart, CoStartFail, TxManagerTake,
           TxManagerStop, Mine, MarkExternalDelete, ExternalDeletePurger, Replace
  <2>2. pc1 \in {"msg", "revert"} => pc1' \in {"msg", "revert"} /\ batchNum' = batchNum
    <3>1. pc1 \in {"msg", "revert"} => ~CoStart
      BY StartsWith
    <3> QED
      BY <1>3, <3>1
         DEF Next, ForgeLoop, ProofLoop, CoordinatorLoop, Others, UNCH1, UNCH2, UNCHEnv,
           G1Stats, G1Timer, G1Get, G1Select, G1Prove, G1Msg, G1Send,
           G1Done, G2Recv, G2Wait, G2Msg, G2Revert, G2Add, G2Deliver, G2Done,
           CoTell, CoTold, CoMsg, CoSlotEnd, CoStopped, CoStartFail, TxManagerTake,
           TxManagerStop, Mine, MarkExternalDelete, ExternalDeletePurger, Replace
  <2>3. /\ t \in MarkedRows(pool)
        /\ \/ pool'[t].batch = pool[t].batch
           \/ \E r \in built : r.num = pool'[t].batch /\ t \in r.txs
    BY <1>3, UpdateSteps DEF MarksFrom
  <2> QED
    BY <2>1, <2>2, <2>3 DEF MarksMean
<1> QED
  BY <1>1, <1>2, <1>3

LEMMA StillPendingNext ==
  ASSUME IInv, Known, StillPending, Next
  PROVE  StillPending'
<1> USE DEF UNCHLine, histVars, coordVars, envVars, g1Vars, g2Vars
<1> SUFFICES ASSUME pc1' = "build"
             PROVE  \A t \in batch1'.txs \cap DOMAIN pool' : pool'[t].state = Pending
  BY DEF StillPending
<1>1. CASE G1Select
  <2>1. PICK ids \in Selection(pool', selDB.cur), l1 \in BOOLEAN : Select(ids, l1)
    BY <1>1 DEF G1Select, NotSelected, SkipSelected, Skip, Fail, GiveBack
  <2>2. batch1'.txs = ids /\ ids \subseteq PendingTxs(pool')
    BY <2>1 DEF Select, Selection
  <2> QED
    BY <2>2 DEF PendingTxs, InState
<1>2. CASE ~G1Select
  <2>1. pc1 = "build" /\ batch1' = batch1 /\ ~G1Build
    BY <1>2
       DEF Next, ForgeLoop, ProofLoop, CoordinatorLoop, Others, UNCH1, UNCH2, UNCHEnv,
           G1Stats, G1Timer, G1Get, G1Build, Build, BuildFails, G1Prove, G1Msg, G1Revert, G1Send,
           Skip, Fail, GiveBack,
           G1Done, G2Recv, G2Wait, G2Msg, G2Revert, G2Add, G2Deliver, G2Done,
           CoTell, CoTold, CoMsg, CoSlotEnd, CoStopped, CoStart, CoStartFail, TxManagerTake,
           TxManagerStop, Mine, MarkExternalDelete, ExternalDeletePurger, Replace
  <2>2. PendingStays(pool, pool')
    BY <2>1, UpdateSteps
  <2> QED
    BY <2>1, <2>2 DEF StillPending, PendingStays
<1> QED
  BY <1>1, <1>2

LEMMA MarksFitNext ==
  ASSUME IInv, Known, Places, StillPending, MarksFit, Next
  PROVE  MarksFit'
<1> USE DEF UNCHLine, histVars, coordVars, envVars, g1Vars, g2Vars
<1> DEFINE k == Len(from.own)
<1> SUFFICES ASSUME Running'
             PROVE  /\ \A t \in MarkedRows(pool') \ disturbed' : pool'[t].batch <= Len(bbDB'.cur)
                    /\ (TxsSince(k', bbDB'.cur) \cap DOMAIN pool') \ disturbed'
                         \subseteq MarkedRows(pool')
  BY DEF MarksFit, MarkedRows, InState, TxsSince
<1>a. IsPool(pool) /\ from.own \in Seq(Entry) /\ bbDB.cur \in Seq(Entry)
      /\ k \in Nat /\ Len(bbDB.cur) \in Nat
  BY LenProperties DEF IInv, TypeOK
<1>1. CASE CoStart
  <2> DEFINE n == Len(bbDB'.cur)
  <2>1. /\ bbDB'.cur \in Seq(Entry) /\ n \in Nat /\ pool' = Reorg(pool, n) /\ k' = n
    BY <1>1, StartsWith
  <2>2. TxsSince(k', bbDB'.cur) = {}
    BY <2>1, NothingSince
  <2> HIDE DEF n
  <2>3. \A t \in MarkedRows(pool') : pool'[t].batch = NULL \/ pool'[t].batch <= n
    BY <1>a, <2>1, MarksAfterReorg
  <2>4. \A t \in MarkedRows(pool') : pool'[t].batch <= n
    BY <2>1, <2>3
  <2> QED
    BY <2>2, <2>4 DEF n
<1>2. CASE ~CoStart
  <2>1. Running /\ k <= Len(bbDB.cur)
    BY <1>2, RunsOn DEF Places
  <2>2. /\ \A t \in MarkedRows(pool) \ disturbed : pool[t].batch <= Len(bbDB.cur)
        /\ (TxsSince(k, bbDB.cur) \cap DOMAIN pool) \ disturbed \subseteq MarkedRows(pool)
    BY <2>1 DEF MarksFit
  <2>3. CASE G1Build
    <3>1. /\ pc1 = "build" /\ batch1 \in BatchInfo /\ batchNum = Len(bbDB.cur) + 1
          /\ batchNum # 0 /\ UNCHANGED <<disturbed, from, ctx>>
      BY <2>3 DEF G1Build, IInv, InStepAt, TypeOK, Holding
    <3>2. Build
      BY <2>3, <3>1 DEF G1Build, Running, BuildFails, Fail, Skip, GiveBack
    <3> DEFINE e == [txs |-> batch1.txs, l1 |-> batch1.l1]
    <3>3. pool' = Marked /\ bbDB'.cur = Append(bbDB.cur, e)
      BY <3>2 DEF Build, MakeCheckpoint
    <3>4. e \in Entry /\ e.txs = batch1.txs
      BY <3>1, RootType
    <3> HIDE DEF e
    <3>5. TxsSince(k, Append(bbDB.cur, e)) = TxsSince(k, bbDB.cur) \cup e.txs
      BY <1>a, <2>1, <3>4, RootsGrow
    <3>6. Len(Append(bbDB.cur, e)) = Len(bbDB.cur) + 1
      BY <1>a, <3>4, AppendProperties
    <3>7. /\ DOMAIN pool' = DOMAIN pool
          /\ MarkedRows(pool') = MarkedRows(pool) \cup (batch1.txs \cap DOMAIN pool)
          /\ \A t \in MarkedRows(pool') :
               \/ t \in MarkedRows(pool) /\ pool'[t].batch = pool[t].batch
               \/ t \in batch1.txs /\ pool'[t].batch = batchNum
      BY <2>3, <3>3, BuildMarks
    <3>8. ASSUME NEW t \in MarkedRows(pool') \ disturbed'
          PROVE  pool'[t].batch <= Len(bbDB.cur) + 1
      <4>1. CASE t \in MarkedRows(pool) /\ pool'[t].batch = pool[t].batch
        <5>1. pool[t].batch <= Len(bbDB.cur) /\ pool[t].batch \in Nat \cup {NULL}
          BY <1>a, <2>2, <3>1, <4>1, MarkedType DEF IsPool, Row
        <5> QED
          BY <1>a, <4>1, <5>1
      <4> QED
        BY <1>a, <3>1, <3>7, <4>1
    <3>9. k' = k
      BY <3>1
    <3> QED
      BY <2>2, <3>1, <3>3, <3>4, <3>5, <3>6, <3>7, <3>8, <3>9
  <2>4. CASE ~G1Build
    <3>1. bbDB' = bbDB /\ from' = from
      BY <1>2, <2>1, <2>4
         DEF Next, ForgeLoop, ProofLoop, CoordinatorLoop, Others, UNCH1, UNCH2, UNCHEnv,
             G1Stats, G1Timer, G1Get, G1Select, G1Prove, G1Msg, G1Revert, G1Send,
             G1Done, G2Recv, G2Wait, G2Msg, G2Revert, G2Add, G2Deliver, G2Done,
             CoTell, CoTold, CoMsg, CoSlotEnd, CoStopped, DropPipeline, CoStartFail, CanStart,
             Running, TxManagerTake,
             TxManagerStop, Mine, MarkExternalDelete, ExternalDeletePurger, Replace
    <3>2. /\ MarksStay(pool, pool', disturbed') /\ disturbed \subseteq disturbed'
          /\ \A t \in DOMAIN pool' \ DOMAIN pool : t \in disturbed' \/ t \notin TxsOf(bbDB.cur)
      BY <1>2, <2>4, UpdateRunning
    <3>3. MarksFrom(pool, pool')
      BY <2>4, UpdateSteps
    <3>4. \A t \in MarkedRows(pool') \ disturbed' : pool'[t].batch <= Len(bbDB.cur)
      BY <2>2, <3>2, <3>3, MarkedType DEF MarksStay, MarksFrom
    <3>5. TxsSince(k, bbDB.cur) \subseteq TxsOf(bbDB.cur)
      BY <1>a, NothingSince
    <3>6. (TxsSince(k, bbDB.cur) \cap DOMAIN pool') \ disturbed' \subseteq MarkedRows(pool')
      BY <2>2, <3>2, <3>5 DEF MarksStay
    <3> QED
      BY <3>1, <3>4, <3>6
  <2> QED
    BY <2>3, <2>4
<1> QED
  BY <1>1, <1>2

LEMMA NoRoot == L1Count(<<>>) = 0 /\ Len(<<>>) = 0
<1>1. {i \in DOMAIN <<>> : <<>>[i].l1} = {} /\ DOMAIN <<>> = {}
  OBVIOUS
<1> QED
  BY <1>1, FS_EmptySet DEF L1Count

LEMMA InitTakes ==
  ASSUME Init
  PROVE  TakeInv
<1>1. bbDB.cur = <<>> /\ bbDB.cks = {} /\ \A all : FromBuilt(<<>>, all)
  BY DEF Init, FromSynchronizer, FromBuilt
<1>2. L1Count(chain) = 0
  BY NoRoot DEF Init
<1>3. MarkedRows(pool) = {}
  BY DEF Init, InState, MarkedRows, NewRow
<1>4. ASSUME NEW b \in sent PROVE WasBuilt(b, built)
  <2> DEFINE e == [txs |-> b.txs, l1 |-> b.l1]
  <2>1. b \in BatchInfo /\ b.num = 1 /\ b.base = <<>> /\ [num |-> 1, txs |-> b.txs] \in built
    BY PipelineAssumption DEF Init
  <2>2. e \in Entry /\ e.txs = b.txs /\ Root(b) = Append(b.base, e)
    BY <2>1, RootType DEF Root
  <2>3. b.base \in Seq(Entry) /\ Len(b.base) = 0 /\ FromBuilt(b.base, built)
    BY <1>1, <2>1, NoRoot
  <2> HIDE DEF e
  <2>4. FromBuilt(Append(b.base, e), built)
    <3>1. [num |-> Len(b.base) + 1, txs |-> e.txs] \in built
      BY <2>1, <2>2, <2>3
    <3> QED
      BY <2>2, <2>3, <3>1, BuiltGrows
  <2> QED
    BY <2>1, <2>2, <2>3, <2>4 DEF WasBuilt
<1>5. Known
  BY <1>1, <1>4 DEF Init, Known, AtWork2
<1> QED
  BY <1>1, <1>2, <1>3, <1>5
     DEF Init, TakeInv, Places, Queues, MarksMean, StillPending, MarksFit, Running, Going,
         Forging1, AtWork1

LEMMA NextTakes ==
  ASSUME IInv, TakeInv, [Next]_vars
  PROVE  TakeInv'
<1>1. CASE Next
  BY <1>1, KnownNext, PlacesNext, QueuesNext, MarksMeanNext, StillPendingNext, MarksFitNext
     DEF TakeInv
<1>2. CASE UNCHANGED vars
  <2> USE <1>2 DEF vars, histVars, coordVars, envVars, g1Vars, g2Vars, TakeInv
  <2>1. Known' /\ Places'
    BY DEF Known, Places, Running, AtWork2, Root, WasBuilt, FromBuilt
  <2>2. Queues'
    BY DEF Queues, Running, Going, Forging1, AtWork1, L1Count, Ahead
  <2>3. MarksMean' /\ StillPending' /\ MarksFit'
    BY DEF MarksMean, StillPending, MarksFit, Running, MarkedRows, InState, TxsSince
  <2> QED
    BY <2>1, <2>2, <2>3
<1> QED
  BY <1>1, <1>2

(* What forgeBatch takes from the queues of the contract and what it marks in the
   pool is what the batches below left there, through any number of failures, stops
   and restarts and whatever senders replace.  The exceptions are those the statement
   names: the L1 batches a restart is ahead of the synchronizer by, the rows that were
   put back or overtaken under the pipeline, and the numbers of two batches. *)
THEOREM QueuesAndMarks == Spec => []TakesWhatIsLeft
<1>1. Init => TakeInv
  BY InitTakes
<1>2. IInv /\ TakeInv /\ [Next]_vars => TakeInv'
  BY NextTakes
<1>3. IInv /\ TakeInv => TakesWhatIsLeft
  <2> SUFFICES ASSUME IInv, TakeInv PROVE TakesWhatIsLeft
    OBVIOUS
  <2>1. L1QueueInOrder
    BY DEF TakeInv, Queues, Places, Going, AtWork1, L1QueueInOrder
  <2>2. ASSUME Running, pc1 = "select", NEW t \in MarkedRows(pool) \ disturbed
        PROVE  t \in TxsOf(bbDB.cur) \/ Reused(pool[t].batch)
    <3> DEFINE n == pool[t].batch
               s == [num |-> n, txs |-> bbDB.cur[n].txs]
    <3>1. PICK r \in built : r.num = n /\ t \in r.txs
      BY <2>2 DEF TakeInv, MarksMean
    <3>2. n \in Nat \ {0} /\ n <= Len(bbDB.cur) /\ bbDB.cur \in Seq(Entry)
      BY <2>2, <3>1 DEF TakeInv, MarksFit, IInv, TypeOK
    <3>3. n \in DOMAIN bbDB.cur
      BY <3>2, LenProperties
    <3> HIDE DEF n
    <3>4. s \in built
      BY <3>3 DEF TakeInv, Known, FromBuilt
    <3>5. CASE r.txs = s.txs
      BY <3>1, <3>3, <3>5 DEF TxsOf
    <3>6. CASE r.txs # s.txs
      BY <3>1, <3>4, <3>6 DEF Reused, n
    <3> QED
      BY <3>5, <3>6
  <2>3. MarksTell
    BY <2>2 DEF TakeInv, MarksFit, MarksTell
  <2> QED
    BY <2>1, <2>3 DEF TakesWhatIsLeft
<1> QED
  BY <1>1, <1>2, <1>3, Inductive, PTL DEF Spec

=============================================================================
