-------------------------- MODULE CoordinatorProof --------------------------
(***************************************************************************)
(* Proofs about the goroutines of a node that forges, for any number of    *)
(* transactions, batches, pipelines, reorganisations and faults and any    *)
(* capacity of the channels.                                               *)
(*                                                                         *)
(* IInv is inductive: what is in the variables and the channels, that no   *)
(* goroutine of a pipeline is left when the Coordinator has none, and how  *)
(* far it is with a block that has a batch of another forger.              *)
(***************************************************************************)
EXTENDS Coordinator, SequenceTheorems, TLAPS

USE DEF Pending, Forging, Forged, Invalid, NULL

Root == Seq([own : BOOLEAN, txs : SUBSET TxIDs, fork : Nat])
Turn == {"ours", "not ours", "behind"}
Msg  == [kind : {"none", "block", "reorg", "stop"}, root : Root, external : Nat,
         turn : Turn, failed : Nat]

NodeType == /\ chain \in Root /\ sent \subseteq Root
            /\ news \in [told : Nat, reorgs : Nat]
            /\ node \in [pc : {"sync", "send", "done"}, msg : Msg]
CoType   == /\ co \in [pc : {"select", "tell tx", "tell pipe", "pool", "discard", "stop",
                             "stats", "slot end", "done"}, msg : Msg]
            /\ stats \in [root : Root, turn : Turn] /\ last \in Nat
PipeType == pipe \in [on : BOOLEAN, cancelled : BOOLEAN, num : Nat, failed : BOOLEAN,
                      pc : {"select", "prove", "msg", "done"},
                      root : Root, from : Root, local : Root]
Channels == /\ msgCh \in Seq(Msg) /\ batchCh \in Seq(Root)
            /\ pipeStats \in Nat /\ tmStats \in Nat /\ discards \in Nat
Places   == /\ tm \in {"first", "select", "msg", "done"}
            /\ up \in {"run", "coord", "done"} /\ faults \in Nat

TypeOK == IsPool(pool) /\ NodeType /\ CoType /\ PipeType /\ Channels /\ Places

\* the channels hold what they have room for
Fits ==
  /\ Len(msgCh) <= QueueLen /\ Len(batchCh) <= QueueLen
  /\ pipeStats <= QueueLen /\ tmStats <= QueueLen /\ discards <= QueueLen

\* a pipeline that the Coordinator has forgotten does nothing any more
Ended == ~pipe.on => pipe.pc = "done"

\* A pipeline is stopped for a block only because of its batch of another forger, to
\* go on from the batch before it; and then there is none until the block is handled.
Handled ==
  /\ co.pc = "discard" => co.msg.kind = "reorg"
  /\ co.pc = "stop" /\ co.msg.kind = "block" =>
       co.msg.external # 0 /\ co.msg.failed = co.msg.external - 1
  /\ co.pc = "stats" /\ co.msg.external # 0 => ~pipe.on

IInv == TypeOK /\ Fits /\ Ended /\ Handled /\ NothingForgedBeside
-----------------------------------------------------------------------------
(* The statements on the table give a table again. *)

LEMMA StatementsGiveTable ==
  ASSUME NEW p, IsPool(p), NEW ids, NEW b \in Nat, NEW acc, NEW n
  PROVE  /\ IsPool(StartForging(p, ids, b)) /\ IsPool(DoneForging(p, ids, b))
         /\ IsPool(InvalidateOldNonces(p, acc, b))
         /\ IsPool(Reorg(p, n)) /\ IsPool(Purge(p, n))
<1>1. ASSUME NEW u, NEW s \in States, NEW c \in Nat \cup {NULL}
      PROVE  IsPool(SetState(p, u, s, c))
  BY DEF IsPool, SetState, Row, States
<1>2. IsPool(StartForging(p, ids, b)) /\ IsPool(DoneForging(p, ids, b))
  BY <1>1 DEF StartForging, DoneForging, States
<1>3. IsPool(InvalidateOldNonces(p, acc, b)) /\ IsPool(Reorg(p, n))
  BY <1>1 DEF InvalidateOldNonces, Reorg, States
<1>4. IsPool(Purge(p, n))
  BY DEF Purge, Delete, IsPool
<1> QED
  BY <1>2, <1>3, <1>4

\* after a Reorg nothing is being forged in a batch above
LEMMA NothingAbove ==
  ASSUME NEW p, IsPool(p), NEW n \in Nat
  PROVE  \A t \in InState(Reorg(p, n), {Forging}) : Reorg(p, n)[t].batch <= n
BY DEF IsPool, Row, Reorg, SetState, InState

\* DoneForging leaves of what is being forged what it does not take
LEMMA NoMoreForging ==
  ASSUME NEW p, IsPool(p), NEW ids, NEW b
  PROVE  LET q == DoneForging(p, ids, b)
         IN  \A t \in InState(q, {Forging}) : t \in InState(p, {Forging}) /\ q[t] = p[t]
BY DEF IsPool, Row, DoneForging, SetState, InState

LEMMA RootCut ==
  ASSUME NEW r \in Root, NEW n \in Nat, n <= Len(r)
  PROVE  SubSeq(r, 1, n) \in Root
<1> DEFINE B == [own : BOOLEAN, txs : SUBSET TxIDs, fork : Nat]
<1>1. r \in Seq(B)
  BY DEF Root
<1> HIDE DEF B
<1>2. \A i \in 1 .. n : r[i] \in B
  BY <1>1, ElementOfSeq, LenProperties
<1>3. SubSeq(r, 1, n) \in Seq(B)
  BY <1>2, SubSeqProperties
<1> QED
  BY <1>3 DEF B, Root

LEMMA RootGrows ==
  ASSUME NEW r \in Root, NEW e \in [own : BOOLEAN, txs : SUBSET TxIDs, fork : Nat]
  PROVE  Append(r, e) \in Root /\ Len(r) \in Nat
BY AppendProperties DEF Root

-----------------------------------------------------------------------------
LEMMA InitHolds == Init => IInv
<1> SUFFICES ASSUME Init PROVE IInv
  OBVIOUS
<1> USE DEF Init, Idle, Selecting, NoMsg, Telling
<1>1. IsPool(pool)
  BY DEF IsPool, NewRow, Row, States
<1>2. <<>> \in Root /\ <<>> \in Seq(Msg) /\ <<>> \in Seq(Root) /\ Len(<<>>) = 0
  BY DEF Root
<1>3. NodeType
  <2>1. PICK turn \in FirstTurns : node = Telling("block", <<>>, 0, turn)
    BY DEF Init
  <2>2. turn \in Turn
    BY CoordinatorAssumption DEF Turn
  <2>3. [NoMsg EXCEPT !.kind = "block", !.root = <<>>, !.external = 0, !.turn = turn] \in Msg
    BY <1>2, <2>2 DEF Msg
  <2> QED
    BY <1>2, <2>1, <2>3 DEF NodeType
<1>4. CoType /\ PipeType /\ Channels /\ Places
  BY <1>2 DEF CoType, PipeType, Channels, Places, Msg, Turn
<1>5. TypeOK
  BY <1>1, <1>3, <1>4 DEF TypeOK
<1>6. Fits
  <2>1. QueueLen \in Nat
    BY CoordinatorAssumption
  <2>2. Len(msgCh) = 0 /\ Len(batchCh) = 0 /\ pipeStats = 0 /\ tmStats = 0 /\ discards = 0
    BY <1>2
  <2> QED
    BY <2>1, <2>2 DEF Fits
<1>7. Ended /\ Handled /\ NothingForgedBeside
  BY DEF Ended, Handled, NothingForgedBeside
<1> QED
  BY <1>5, <1>6, <1>7 DEF IInv

\* a step that leaves the Coordinator and the pool alone, and starts no pipeline
LEMMA OthersKeep ==
  ASSUME IInv, UNCHANGED <<pool, coVars>>, pipe.on' => pipe.on, Ended'
  PROVE  Ended' /\ Handled' /\ NothingForgedBeside'
BY DEF IInv, coVars, Ended, Handled, NothingForgedBeside, InState

LEMMA SameTypes ==
  ASSUME IInv
  PROVE  /\ UNCHANGED pool => IsPool(pool')
         /\ UNCHANGED <<chain, sent, news, node>> => NodeType'
         /\ UNCHANGED coVars => CoType'
         /\ UNCHANGED pipe => PipeType'
         /\ UNCHANGED <<msgCh, batchCh, pipeStats, tmStats, discards>> => Channels' /\ Fits'
         /\ UNCHANGED <<tm, up, faults>> => Places'
BY DEF IInv, TypeOK, coVars, NodeType, CoType, PipeType, Channels, Places, Fits

LEMMA MessageTold ==
  ASSUME NEW kind \in {"block", "reorg"}, NEW root \in Root, NEW external \in Nat,
         Tell(kind, root, external)
  PROVE  node' \in [pc : {"sync", "send", "done"}, msg : Msg]
<1>1. PICK turn \in Turns : node' = Telling(kind, root, external, turn)
  BY DEF Tell
<1>2. turn \in Turn
  BY CoordinatorAssumption DEF Turn
<1>3. [NoMsg EXCEPT !.kind = kind, !.root = root, !.external = external, !.turn = turn] \in Msg
  BY <1>2 DEF Msg, NoMsg
<1> QED
  BY <1>1, <1>3 DEF Telling

LEMMA MessageSent ==
  ASSUME Channels, Fits, NEW m \in Msg, Len(msgCh) < QueueLen, msgCh' = Append(msgCh, m),
         UNCHANGED <<batchCh, pipeStats, tmStats, discards>>
  PROVE  Channels' /\ Fits'
<1>1. msgCh' \in Seq(Msg) /\ Len(msgCh') = Len(msgCh) + 1 /\ Len(msgCh) \in Nat
  BY AppendProperties, LenProperties DEF Channels
<1>2. QueueLen \in Nat
  BY CoordinatorAssumption
<1>3. Channels'
  BY <1>1 DEF Channels
<1>4. Fits'
  BY <1>1, <1>2 DEF Fits
<1> QED
  BY <1>3, <1>4

LEMMA NodeKeeps ==
  ASSUME IInv, NodeLoop
  PROVE  IInv'
<1>a. /\ UNCHANGED pool /\ UNCHANGED coVars /\ UNCHANGED pipe
      /\ UNCHANGED <<batchCh, pipeStats, tmStats, discards>>
      /\ UNCHANGED <<tm, up, faults>>
  BY DEF NodeLoop, NewBlock, Reorg_, NodeTell, Sync, pipeVars, tmVars
<1>b. NodeType /\ Channels /\ Fits /\ Ended
  BY DEF IInv, TypeOK
<1>1. Ended'
  BY <1>a, <1>b DEF Ended
<1>2. Ended' /\ Handled' /\ NothingForgedBeside'
  BY <1>a, <1>1, OthersKeep
<1>c. NewBlock \/ Reorg_ => UNCHANGED msgCh
  BY DEF NewBlock, Reorg_, Sync
<1>3. SUFFICES NodeType' /\ Channels' /\ Fits'
  BY <1>a, <1>2, SameTypes DEF IInv, TypeOK
<1>4. CASE NewBlock
  <2>0. news' \in [told : Nat, reorgs : Nat]
    BY <1>4, <1>b DEF NewBlock, NodeType
  <2>1. Channels' /\ Fits'
    BY <1>4, <1>a, <1>c, SameTypes
  <2>2. CASE Tell("block", chain, 0) /\ UNCHANGED <<chain, sent>>
    BY <2>0, <2>1, <2>2, <1>b, MessageTold DEF NodeType
  <2>3. CASE \E r \in sent : chain' = r /\ sent' = sent \ {r} /\ Tell("block", r, 0)
    BY <2>0, <2>1, <2>3, <1>b, MessageTold DEF NodeType
  <2>4. CASE LET r == Append(chain, [NoBatch EXCEPT !.fork = news.reorgs])
             IN  chain' = r /\ UNCHANGED sent /\ Tell("block", r, Len(r))
    <3> DEFINE e == [NoBatch EXCEPT !.fork = news.reorgs]
               r == Append(chain, e)
    <3>1. e \in [own : BOOLEAN, txs : SUBSET TxIDs, fork : Nat]
      BY <1>b DEF NodeType, NoBatch
    <3>2. chain' = r /\ sent' = sent /\ Tell("block", r, Len(r))
      BY <2>4
    <3> HIDE DEF e
    <3>3. r \in Root
      BY <1>b, <3>1, RootGrows DEF NodeType
    <3> HIDE DEF r
    <3>4. Len(r) \in Nat
      BY <3>3, LenProperties DEF Root
    <3>5. node' \in [pc : {"sync", "send", "done"}, msg : Msg]
      BY <3>2, <3>3, <3>4, MessageTold
    <3> QED
      BY <3>2, <3>3, <3>5, <2>0, <2>1, <1>b DEF NodeType
  <2> QED
    BY <1>4, <2>2, <2>3, <2>4 DEF NewBlock
<1>5. CASE Reorg_
  <2>1. PICK k \in 0 .. Len(chain) - 1 :
          /\ chain' = SubSeq(chain, 1, k)
          /\ sent' = sent \cup {SubSeq(chain, 1, i) : i \in {i \in k + 1..Len(chain) : chain[i].own}}
          /\ Tell("reorg", chain', 0)
    BY <1>5 DEF Reorg_
  <2>2. chain \in Root /\ Len(chain) \in Nat
    BY <1>b, LenProperties DEF NodeType, Root
  <2>3. chain' \in Root
    BY <2>1, <2>2, RootCut
  <2>4. \A i \in k + 1 .. Len(chain) : SubSeq(chain, 1, i) \in Root
    BY <2>2, RootCut
  <2>5. sent' \subseteq Root
    BY <2>1, <2>4, <1>b DEF NodeType
  <2>6. news' \in [told : Nat, reorgs : Nat]
    BY <1>5, <1>b DEF Reorg_, Sync, NodeType
  <2>7. node' \in [pc : {"sync", "send", "done"}, msg : Msg]
    BY <2>1, <2>3, MessageTold
  <2>8. Channels' /\ Fits'
    BY <1>5, <1>a, <1>c, SameTypes
  <2> QED
    BY <2>3, <2>5, <2>6, <2>7, <2>8 DEF NodeType
<1>6. CASE NodeTell
  <2>1. msgCh' = Append(msgCh, node.msg) /\ Len(msgCh) < QueueLen
        /\ node' = [pc |-> "sync", msg |-> NoMsg] /\ UNCHANGED <<chain, sent, news>>
    BY <1>6 DEF NodeTell, HasRoom, chainVars
  <2>2. node.msg \in Msg
    BY <1>b DEF NodeType
  <2>3. Channels' /\ Fits'
    BY <2>1, <2>2, <1>a, <1>b, MessageSent
  <2>4. NoMsg \in Msg
    BY DEF NoMsg, Msg, Root, Turn
  <2> QED
    BY <2>1, <2>3, <2>4, <1>b DEF NodeType
<1> QED
  BY <1>4, <1>5, <1>6 DEF NodeLoop
-----------------------------------------------------------------------------
(* The goroutine of the Coordinator. *)

CoPlace == {"select", "tell tx", "tell pipe", "pool", "discard", "stop", "stats", "slot end",
            "done"}

LEMMA GotoType ==
  ASSUME CoType, NEW pc \in CoPlace, Goto(pc)
  PROVE  co' \in [pc : CoPlace, msg : Msg] /\ co'.pc = pc
<1>1. NoMsg \in Msg
  BY DEF NoMsg, Msg, Root, Turn
<1> QED
  BY <1>1 DEF CoType, CoPlace, Goto, Selecting

LEMMA Elsewhere ==
  ASSUME co'.pc \notin {"discard", "stop", "stats"}
  PROVE  Handled' /\ NothingForgedBeside'
BY DEF Handled, NothingForgedBeside

\* the steps that only send, or only go on
LEMMA CoGoesOn ==
  ASSUME IInv, CoTellTx \/ CoTellPipe \/ CoReorg \/ CoSlotEnds \/ CoNothing \/ CoDone
  PROVE  IInv'
<1>a. /\ UNCHANGED <<pool, pipe, stats, last, msgCh, batchCh>>
      /\ UNCHANGED <<chain, sent, news, node>> /\ UNCHANGED <<tm, up, faults>>
      /\ discards' = discards
  BY DEF CoTellTx, CoTellPipe, CoReorg, CoSlotEnds, CoNothing, CoDone, CoStep, chainVars, pipeVars
<1>b. CoType /\ Channels /\ Fits /\ Ended
  BY DEF IInv, TypeOK
<1>1. PICK pc \in CoPlace \ {"stop", "stats"} : Goto(pc) /\ (pc = "discard" => co.msg.kind = "reorg")
  <2>1. CASE CoTellTx
    <3>1. Goto("tell pipe") \/ Goto("pool")
      BY <2>1 DEF CoTellTx
    <3>2. {"tell pipe", "pool"} \subseteq CoPlace \ {"stop", "stats"}
      BY DEF CoPlace
    <3> QED
      BY <3>1, <3>2
  <2>2. CASE CoReorg
    <3>1. (Goto("discard") \/ Goto("select")) /\ co.msg.kind = "reorg"
      BY <2>2 DEF CoReorg
    <3>2. {"discard", "select"} \subseteq CoPlace \ {"stop", "stats"}
      BY DEF CoPlace
    <3> QED
      BY <3>1, <3>2
  <2>3. CASE CoTellPipe \/ CoSlotEnds \/ CoNothing \/ CoDone
    <3>1. Goto("pool") \/ Goto("slot end") \/ Goto("select") \/ Goto("done")
      BY <2>3 DEF CoTellPipe, CoSlotEnds, CoNothing, CoDone
    <3>2. /\ {"pool", "slot end", "select", "done"} \subseteq CoPlace \ {"stop", "stats"}
          /\ "discard" \notin {"pool", "slot end", "select", "done"}
      BY DEF CoPlace
    <3> QED
      BY <3>1, <3>2
  <2> QED
    BY <2>1, <2>2, <2>3
<1>2. CoType' /\ co'.pc = pc
  BY <1>a, <1>b, <1>1, GotoType DEF CoType, CoPlace
<1>3. pc = "discard" => co'.msg = co.msg
  BY <1>b, <1>1 DEF Goto, CoType
<1>4. Handled' /\ NothingForgedBeside'
  BY <1>1, <1>2, <1>3 DEF Handled, NothingForgedBeside
<1>5. Channels' /\ Fits'
  <2>0. QueueLen \in Nat
    BY CoordinatorAssumption
  <2>1. tmStats' = tmStats \/ (tmStats < QueueLen /\ tmStats' = tmStats + 1)
    BY DEF CoTellTx, CoTellPipe, CoReorg, CoSlotEnds, CoNothing, CoDone, HasRoom
  <2>2. pipeStats' = pipeStats \/ (pipeStats < QueueLen /\ pipeStats' = pipeStats + 1)
    BY DEF CoTellTx, CoTellPipe, CoReorg, CoSlotEnds, CoNothing, CoDone, HasRoom, pipeVars
  <2> QED
    BY <2>0, <2>1, <2>2, <1>a, <1>b DEF Channels, Fits
<1>6. Ended'
  BY <1>a, <1>b DEF Ended
<1> QED
  BY <1>a, <1>2, <1>4, <1>5, <1>6, SameTypes DEF IInv, TypeOK

LEMMA CoTakes ==
  ASSUME IInv, CoTake
  PROVE  IInv'
<1>a. /\ UNCHANGED <<pool, pipe, last, batchCh, pipeStats, tmStats, discards>>
      /\ UNCHANGED <<chain, sent, news, node>> /\ UNCHANGED <<tm, up, faults>>
  BY DEF CoTake, CoStep, chainVars, pipeVars
<1>b. CoType /\ Channels /\ Fits /\ Ended
  BY DEF IInv, TypeOK
<1>1. msgCh # <<>> /\ msgCh \in Seq(Msg) /\ msgCh' = Tail(msgCh)
  BY <1>b DEF CoTake, Channels
<1>2. Head(msgCh) \in Msg /\ msgCh' \in Seq(Msg) /\ Len(msgCh') = Len(msgCh) - 1
  BY <1>1, HeadTailProperties
<1>3. Channels' /\ Fits'
  <2>1. QueueLen \in Nat /\ Len(msgCh) \in Nat
    BY <1>1, LenProperties, CoordinatorAssumption
  <2> QED
    BY <2>1, <1>a, <1>b, <1>2 DEF Channels, Fits
<1>4. CoType'
  BY <1>a, <1>b, <1>2 DEF CoTake, CoType, Msg
<1>5. Handled' /\ NothingForgedBeside'
  BY DEF CoTake, Handled, NothingForgedBeside
<1>6. Ended'
  BY <1>a, <1>b DEF Ended
<1> QED
  BY <1>a, <1>3, <1>4, <1>5, <1>6, SameTypes DEF IInv, TypeOK

\* another forger's batch: what is pending again is all that was above it
LEMMA CoPools ==
  ASSUME IInv, CoPool
  PROVE  IInv'
<1>a. /\ UNCHANGED <<pipe, stats, last, msgCh, batchCh, pipeStats, tmStats, discards>>
      /\ UNCHANGED <<chain, sent, news, node>> /\ UNCHANGED <<tm, up, faults>>
  BY DEF CoPool, CoStep, chainVars, pipeVars
<1>b. CoType /\ IsPool(pool) /\ Ended
  BY DEF IInv, TypeOK
<1>c. co.msg.external \in Nat
  BY <1>b DEF CoType, Msg
<1>1. IsPool(pool')
  BY <1>b, StatementsGiveTable DEF CoPool
<1>2. ASSUME co.msg.external # 0 /\ pipe.on
      PROVE  CoType' /\ Handled' /\ NothingForgedBeside'
  <2>1. co' = [pc |-> "stop", msg |-> [co.msg EXCEPT !.failed = co.msg.external - 1]]
        /\ co.msg.kind = "block"
    BY <1>2 DEF CoPool, LastValid
  <2>2. CoType'
    <3>1. co.msg \in Msg
      BY <1>b DEF CoType
    <3>3. co.msg.external - 1 \in Nat
      BY <1>c, <1>2
    <3>2. \A m \in Msg, n \in Nat : [m EXCEPT !.failed = n] \in Msg
      BY DEF Msg
    <3> QED
      BY <2>1, <3>1, <3>2, <3>3, <1>a, <1>b DEF CoType
  <2>3. co'.pc = "stop" /\ co'.msg.external = co.msg.external
        /\ co'.msg.failed = co.msg.external - 1
    BY <2>1, <1>b DEF CoType, Msg
  <2> QED
    BY <2>2, <2>3, <1>2 DEF Handled, NothingForgedBeside
<1>3. ASSUME ~(co.msg.external # 0 /\ pipe.on)
      PROVE  CoType' /\ Handled' /\ NothingForgedBeside'
  <2>1. Goto("stats") /\ (co.msg.external # 0 => ~pipe.on)
        /\ (co.msg.external # 0 => pool' = Reorg(pool, co.msg.external - 1))
    BY <1>3 DEF CoPool, LastValid
  <2>2. CoType' /\ co'.pc = "stats"
    BY <2>1, <1>a, <1>b, GotoType DEF CoType, CoPlace
  <2>3. co'.msg = co.msg
    BY <2>1, <1>b DEF Goto, CoType
  <2>4. Handled'
    BY <2>1, <2>2, <2>3, <1>a DEF Handled
  <2>5. NothingForgedBeside'
    <3> SUFFICES ASSUME co.msg.external > 1, NEW t \in InState(pool', {Forging})
                 PROVE  pool'[t].batch < co.msg.external
      BY <2>3 DEF NothingForgedBeside
    <3>1. pool' = Reorg(pool, co.msg.external - 1) /\ co.msg.external - 1 \in Nat
      BY <2>1, <1>c
    <3>2. pool'[t].batch <= co.msg.external - 1
      BY <3>1, <1>b, NothingAbove
    <3>3. pool'[t].batch \in Int
      BY <1>1 DEF IsPool, InState, Row
    <3> QED
      BY <3>2, <3>3, <1>c
  <2> QED
    BY <2>2, <2>4, <2>5
<1>4. CoType' /\ Handled' /\ NothingForgedBeside'
  BY <1>2, <1>3
<1>5. Ended'
  BY <1>a, <1>b DEF Ended
<1> QED
  BY <1>a, <1>1, <1>4, <1>5, SameTypes DEF IInv, TypeOK, coVars

LEMMA CoDiscards ==
  ASSUME IInv, CoDiscard
  PROVE  IInv'
<1>a. /\ UNCHANGED <<pool, pipe, stats, last, msgCh, batchCh, pipeStats, tmStats>>
      /\ UNCHANGED <<chain, sent, news, node>> /\ UNCHANGED <<tm, up, faults>>
  BY DEF CoDiscard, CoStep, chainVars, pipeVars
<1>b. CoType /\ Channels /\ Fits /\ Ended /\ Handled
  BY DEF IInv, TypeOK
<1>1. co' = [pc |-> "stop", msg |-> [co.msg EXCEPT !.failed = 0]] /\ co.msg.kind = "reorg"
  BY <1>b DEF CoDiscard, Handled
<1>2. CoType' /\ co'.msg.kind = "reorg"
  BY <1>1, <1>a, <1>b DEF CoType, Msg
<1>3. Handled' /\ NothingForgedBeside'
  BY <1>1, <1>2 DEF Handled, NothingForgedBeside
<1>4. Channels' /\ Fits'
  <2>1. QueueLen \in Nat
    BY CoordinatorAssumption
  <2> QED
    BY <2>1, <1>a, <1>b DEF CoDiscard, HasRoom, Channels, Fits
<1>5. Ended'
  BY <1>a, <1>b DEF Ended
<1> QED
  BY <1>a, <1>2, <1>3, <1>4, <1>5, SameTypes DEF IInv, TypeOK

LEMMA Cancels ==
  ASSUME IInv, Cancel
  PROVE  IInv'
<1>a. /\ UNCHANGED pool /\ UNCHANGED coVars
      /\ UNCHANGED <<msgCh, batchCh, pipeStats, tmStats, discards>>
      /\ UNCHANGED <<chain, sent, news, node>> /\ UNCHANGED <<tm, up, faults>>
  BY DEF Cancel, CoStep, chainVars
<1>b. PipeType /\ Ended
  BY DEF IInv, TypeOK
<1>1. PipeType' /\ pipe'.on = pipe.on /\ pipe'.pc = pipe.pc
  BY <1>b DEF Cancel, PipeType
<1>2. Ended'
  BY <1>1, <1>b DEF Ended
<1>3. Handled' /\ NothingForgedBeside'
  BY <1>a, <1>1, <1>2, OthersKeep
<1> QED
  BY <1>a, <1>1, <1>2, <1>3, SameTypes DEF IInv, TypeOK
LEMMA StopMsgType ==
  ASSUME NEW n \in Nat
  PROVE  StopMsg(n) \in Msg
<1>1. NoMsg \in Msg
  BY DEF NoMsg, Msg, Root, Turn
<1>2. \A m \in Msg : [m EXCEPT !.kind = "stop", !.failed = n] \in Msg
  BY DEF Msg
<1> QED
  BY <1>1, <1>2 DEF StopMsg

LEMMA OffType ==
  ASSUME PipeType
  PROVE  Off \in [on : BOOLEAN, cancelled : BOOLEAN, num : Nat, failed : BOOLEAN,
                  pc : {"select", "prove", "msg", "done"},
                  root : Root, from : Root, local : Root]
         /\ ~Off.on /\ Off.pc = "done"
<1>1. <<>> \in Root
  BY DEF Root
<1> QED
  BY <1>1 DEF PipeType, Off, Idle

\* the pipeline has come to its end: what it left above the batch to go back to is
\* pending again
LEMMA CoStops ==
  ASSUME IInv, CoStop
  PROVE  IInv'
<1>a. /\ UNCHANGED <<stats, msgCh, batchCh, pipeStats, tmStats, discards>>
      /\ UNCHANGED <<chain, sent, news, node>> /\ UNCHANGED <<tm, up, faults>>
  BY DEF CoStop, CoStep, chainVars
<1>b. IsPool(pool) /\ CoType /\ PipeType /\ Handled
  BY DEF IInv, TypeOK
<1>c. co.msg.external \in Nat /\ co.msg.failed \in Nat
  BY <1>b DEF CoType, Msg
<1>d. co.pc = "stop" /\ pipe' = Off /\ last' = BackTo(co.msg.failed)
      /\ pool' = Reorg(pool, BackTo(co.msg.failed))
      /\ Goto(IF co.msg.kind = "block" THEN "stats" ELSE "select")
  BY DEF CoStop
<1>1. IsPool(pool') /\ PipeType' /\ ~pipe'.on /\ Ended'
  BY <1>b, <1>d, OffType, StatementsGiveTable DEF PipeType, Ended
<1>2. BackTo(co.msg.failed) \in Nat
  <2>1. Len(stats.root) \in Nat
    BY <1>b, LenProperties DEF CoType, Root
  <2> QED
    BY <2>1, <1>c DEF BackTo
<1>3. ASSUME co.msg.kind # "block"
      PROVE  CoType' /\ Handled' /\ NothingForgedBeside'
  <2>1. Goto("select")
    BY <1>3, <1>d
  <2>2. CoType' /\ co'.pc = "select"
    BY <2>1, <1>a, <1>b, <1>d, <1>2, GotoType DEF CoType, CoPlace
  <2> QED
    BY <2>2, Elsewhere
<1>4. ASSUME co.msg.kind = "block"
      PROVE  CoType' /\ Handled' /\ NothingForgedBeside'
  <2>1. Goto("stats")
    BY <1>4, <1>d
  <2>2. CoType' /\ co'.pc = "stats"
    BY <2>1, <1>a, <1>b, <1>d, <1>2, GotoType DEF CoType, CoPlace
  <2>3. co'.msg = co.msg
    BY <2>1, <1>b DEF Goto, CoType
  <2>4. Handled'
    BY <2>2, <1>1 DEF Handled
  <2>5. NothingForgedBeside'
    <3> SUFFICES ASSUME co.msg.external > 1, NEW t \in InState(pool', {Forging})
                 PROVE  pool'[t].batch < co.msg.external
      BY <2>3 DEF NothingForgedBeside
    <3>1. co.msg.failed = co.msg.external - 1
      BY <1>4, <1>b, <1>d DEF Handled
    <3>2. BackTo(co.msg.failed) = co.msg.external - 2
      BY <3>1, <1>c DEF BackTo
    <3>3. pool'[t].batch <= co.msg.external - 2
      BY <3>2, <1>2, <1>b, <1>d, NothingAbove
    <3>4. pool'[t].batch \in Int
      BY <1>1 DEF IsPool, InState, Row
    <3> QED
      BY <3>3, <3>4, <1>c
  <2> QED
    BY <2>2, <2>4, <2>5
<1> QED
  BY <1>a, <1>1, <1>3, <1>4, SameTypes DEF IInv, TypeOK

LEMMA CoStarts ==
  ASSUME IInv, CoStart
  PROVE  IInv'
<1>a. /\ UNCHANGED <<stats, last, msgCh, batchCh, tmStats, discards>>
      /\ UNCHANGED <<chain, sent, news, node>> /\ UNCHANGED <<tm, up, faults>>
  BY DEF CoStart, CoStep, chainVars
<1>b. IsPool(pool) /\ CoType /\ PipeType /\ Channels /\ Fits /\ Ended
  BY DEF IInv, TypeOK
<1>1. IsPool(pool')
  BY <1>b, StatementsGiveTable DEF CoStart
<1>2. CoType' /\ co'.pc = "select"
  <2>1. Goto("select")
    BY DEF CoStart
  <2> QED
    BY <2>1, <1>a, <1>b, GotoType DEF CoType, CoPlace
<1>3. Channels' /\ Fits'
  <2>1. QueueLen \in Nat /\ pipeStats' = 0
    BY CoordinatorAssumption DEF CoStart
  <2> QED
    BY <2>1, <1>a, <1>b DEF Channels, Fits
<1>4. PipeType' /\ Ended'
  <2> DEFINE from  == IF last > Len(stats.root) THEN <<>> ELSE stats.root
             start == [Idle EXCEPT !.num = pipe.num, !.from = from]
  <2>1. from \in Root /\ <<>> \in Root /\ pipe.num \in Nat
    <3>1. <<>> \in Root
      BY DEF Root
    <3>2. stats.root \in Root /\ pipe.num \in Nat
      BY <1>b DEF CoType, PipeType
    <3> QED
      BY <3>1, <3>2
  <2> HIDE DEF from
  <2>2. ASSUME HasCheckpoint,
               pipe' = [start EXCEPT !.on = TRUE, !.pc = "select", !.num = @ + 1,
                                     !.root = RootToStart, !.local = RootToStart]
        PROVE  PipeType' /\ Ended'
    <3>1. RootToStart \in Root
      <4>1. /\ stats.root \in Root /\ pipe.local \in Root
            /\ Len(stats.root) \in Nat /\ last \in Nat
        BY <1>b, LenProperties DEF CoType, PipeType, Root
      <4>2. FromBatch \in Nat
        BY <4>1 DEF FromBatch
      <4> QED
        BY <4>1, <4>2, <2>2, RootCut DEF RootToStart, HasCheckpoint
    <3> HIDE DEF RootToStart
    <3>2. pipe' = [on |-> TRUE, cancelled |-> FALSE, pc |-> "select", num |-> pipe.num + 1,
                   root |-> RootToStart, failed |-> FALSE, from |-> from,
                   local |-> RootToStart]
      BY <2>2 DEF Idle
    <3> QED
      BY <3>1, <3>2, <2>1 DEF PipeType, Ended
  <2>3. ASSUME pipe' = start
        PROVE  PipeType' /\ Ended'
    BY <2>1, <2>3 DEF PipeType, Ended, Idle
  <2>4. ASSUME pipe' = pipe
        PROVE  PipeType' /\ Ended'
    BY <2>4, <1>b DEF PipeType, Ended
  <2> QED
    BY <2>2, <2>3, <2>4 DEF CoStart, from
<1> QED
  BY <1>a, <1>1, <1>2, <1>3, <1>4, Elsewhere, SameTypes DEF IInv, TypeOK

LEMMA CoPurges ==
  ASSUME IInv, CoPurge
  PROVE  IInv'
<1>a. /\ UNCHANGED <<stats, last, msgCh, batchCh, pipeStats, tmStats, discards>>
      /\ UNCHANGED <<chain, sent, news, node>> /\ UNCHANGED <<tm, up, faults>>
  BY DEF CoPurge, CoStep, chainVars
<1>b. IsPool(pool) /\ CoType /\ PipeType
  BY DEF IInv, TypeOK
<1>1. IsPool(pool')
  <2>1. PICK invalidate, purge \in BOOLEAN : pool' = AfterPurger(invalidate, purge)
    BY DEF CoPurge
  <2>2. Len(stats.root) \in Nat
    BY <1>b, LenProperties DEF CoType, Root
  <2> QED
    BY <2>1, <2>2, <1>b, StatementsGiveTable DEF AfterPurger
<1>2. CoType' /\ co'.pc = "select"
  <2>1. Goto("select")
    BY DEF CoPurge
  <2> QED
    BY <2>1, <1>a, <1>b, GotoType DEF CoType, CoPlace
<1>3. PipeType' /\ Ended'
  BY <1>b, OffType DEF CoPurge, PipeType, Ended
<1> QED
  BY <1>a, <1>1, <1>2, <1>3, Elsewhere, SameTypes DEF IInv, TypeOK

LEMMA CoTimes ==
  ASSUME IInv, CoTimer
  PROVE  IInv'
<1>a. /\ UNCHANGED <<pool, pipe, stats, last, msgCh, batchCh, pipeStats, tmStats, discards>>
      /\ UNCHANGED <<chain, sent, news, node>> /\ UNCHANGED <<tm, up, faults>>
  BY DEF CoTimer, CoStep, chainVars, pipeVars
<1>b. CoType /\ Ended
  BY DEF IInv, TypeOK
<1>1. co' = [pc |-> "stats", msg |-> NoMsg] /\ NoMsg \in Msg /\ NoMsg.external = 0
  BY DEF CoTimer, NoMsg, Msg, Root, Turn
<1>2. CoType'
  BY <1>a, <1>b, <1>1 DEF CoType
<1>4. Handled' /\ NothingForgedBeside'
  BY <1>1 DEF Handled, NothingForgedBeside
<1>3. Ended'
  BY <1>a, <1>b DEF Ended
<1> QED
  BY <1>a, <1>2, <1>3, <1>4, SameTypes DEF IInv, TypeOK

LEMMA CoordinatorKeeps == IInv /\ CoordinatorLoop => IInv'
BY CoGoesOn, CoTakes, CoPools, CoDiscards, Cancels, CoStops, CoStarts, CoPurges, CoTimes
   DEF CoordinatorLoop

-----------------------------------------------------------------------------
(* The pipeline and the TxManager. *)

\* Whatever the others do to the pool, no more is being forged while the Coordinator
\* has no pipeline.
LEMMA PoolKeeps ==
  ASSUME IInv, UNCHANGED coVars, PipeType', pipe'.on = pipe.on, Ended',
         IsPool(pool'),
         pipe.on \/ \A t \in InState(pool', {Forging}) :
                      t \in InState(pool, {Forging}) /\ pool'[t] = pool[t]
  PROVE  Handled' /\ NothingForgedBeside'
<1>1. Handled'
  BY DEF IInv, coVars, Handled
<1>2. ASSUME co.pc = "stats", co.msg.external > 1 PROVE ~pipe.on
  BY <1>2 DEF IInv, Handled
<1>3. NothingForgedBeside'
  BY <1>2 DEF IInv, coVars, NothingForgedBeside
<1> QED
  BY <1>1, <1>3

LEMMA PipelineKeeps == IInv /\ PipelineLoop => IInv'
<1> SUFFICES ASSUME IInv, PipelineLoop PROVE IInv'
  OBVIOUS
<1>a. /\ UNCHANGED coVars /\ UNCHANGED <<tm, up>> /\ UNCHANGED <<tmStats, discards>>
      /\ UNCHANGED <<chain, sent, news, node>>
  BY DEF PipelineLoop, PipeReadStats, Forge, ProofFails, AddBatch, GiveUp, PipeDone, PipeStep,
         chainVars, tmVars
<1>b. IsPool(pool) /\ PipeType /\ Channels /\ Fits /\ Ended /\ Places
  BY DEF IInv, TypeOK
<1>c. pipe.root \in Root /\ Len(pipe.root) \in Nat
  BY <1>b, LenProperties DEF PipeType, Root
<1>d. QueueLen \in Nat
  BY CoordinatorAssumption
<1>on. pipe.on
  BY <1>b DEF Ended, PipelineLoop, PipeReadStats, Forge, ProofFails, AddBatch, GiveUp, PipeDone
<1>1. Places'
  <2>1. faults' = faults \/ faults' = faults + 1
    BY DEF PipelineLoop, PipeReadStats, Forge, ProofFails, AddBatch, GiveUp, PipeDone, Fault
  <2> QED
    BY <2>1, <1>a, <1>b DEF Places
<1>2. ASSUME PipeType', pipe'.on = pipe.on, IsPool(pool'), Channels', Fits'
      PROVE  IInv'
  <2>1. Ended'
    BY <1>2, <1>on DEF Ended
  <2> QED
    BY <2>1, <1>2, <1>a, <1>1, <1>on, PoolKeeps, SameTypes DEF IInv, TypeOK
<1>3. CASE PipeReadStats
  BY <1>3, <1>2, <1>a, <1>b, <1>d, SameTypes DEF PipeReadStats, PipeType, Channels, Fits
<1>4. CASE Forge
  <2>1. PICK txs \in SUBSET (PendingTxs(pool) \ TxsOf(pipe.root)) :
          LET root == Append(pipe.root, Batch(txs))
          IN  /\ pool' = StartForging(pool, txs, Len(root))
              /\ pipe' = [pipe EXCEPT !.pc = "prove", !.root = root, !.local = root]
    BY <1>4 DEF Forge
  <2> DEFINE root == Append(pipe.root, Batch(txs))
  <2>2. Batch(txs) \in [own : BOOLEAN, txs : SUBSET TxIDs, fork : Nat]
    BY <1>b DEF PendingTxs, InState, IsPool, Batch
  <2>3. root \in Root
    BY <2>2, <1>c, RootGrows
  <2>4. Len(root) \in Nat
    BY <2>3, LenProperties DEF Root
  <2> HIDE DEF root
  <2>5. pool' = StartForging(pool, txs, Len(root))
        /\ pipe' = [pipe EXCEPT !.pc = "prove", !.root = root, !.local = root]
    BY <2>1 DEF root
  <2>6. IsPool(pool') /\ PipeType' /\ pipe'.on = pipe.on
    BY <2>3, <2>4, <2>5, <1>b, StatementsGiveTable DEF PipeType
  <2>7. Channels' /\ Fits'
    BY <1>4, <1>a, SameTypes DEF Forge
  <2> QED
    BY <2>6, <2>7, <1>2
<1>5. CASE ProofFails
  <2>1. PipeType' /\ pipe'.on = pipe.on /\ IsPool(pool')
    BY <1>5, <1>b DEF ProofFails, PipeType
  <2>2. Channels' /\ Fits'
    BY <1>5, <1>a, SameTypes DEF ProofFails
  <2> QED
    BY <2>1, <2>2, <1>2
<1>6. CASE AddBatch
  <2>1. PipeType' /\ pipe'.on = pipe.on /\ IsPool(pool')
    BY <1>6, <1>b DEF AddBatch, PipeType
  <2>2. UNCHANGED <<msgCh, pipeStats>>
    BY <1>6 DEF AddBatch
  <2>3. CASE UNCHANGED batchCh
    BY <2>1, <2>2, <2>3, <1>2, <1>a, SameTypes
  <2>4. CASE Len(batchCh) < QueueLen /\ batchCh' = Append(batchCh, pipe.root)
    <3>1. batchCh' \in Seq(Root) /\ Len(batchCh') = Len(batchCh) + 1 /\ Len(batchCh) \in Nat
      BY <2>4, <1>b, <1>c, AppendProperties, LenProperties DEF Channels
    <3>2. Channels'
      BY <3>1, <2>2, <1>a, <1>b DEF Channels
    <3>3. Fits'
      BY <3>1, <2>2, <2>4, <1>a, <1>b, <1>d DEF Fits
    <3> QED
      BY <2>1, <3>2, <3>3, <1>2
  <2> QED
    BY <1>6, <2>3, <2>4 DEF AddBatch, HasRoom
<1>7. CASE GiveUp
  <2>1. PipeType' /\ pipe'.on = pipe.on /\ IsPool(pool')
    BY <1>7, <1>b, StatementsGiveTable DEF GiveUp, PipeType
  <2>2. UNCHANGED <<batchCh, pipeStats>>
    BY <1>7 DEF GiveUp
  <2>3. CASE UNCHANGED msgCh
    BY <2>1, <2>2, <2>3, <1>2, <1>a, SameTypes
  <2>4. CASE Len(msgCh) < QueueLen /\ msgCh' = Append(msgCh, StopMsg(Len(pipe.root)))
    <3>1. StopMsg(Len(pipe.root)) \in Msg
      BY <1>c, StopMsgType
    <3> QED
      BY <3>1, <2>1, <2>2, <2>4, <1>2, <1>a, <1>b, MessageSent
  <2> QED
    BY <1>7, <2>3, <2>4 DEF GiveUp, HasRoom
<1>8. CASE PipeDone
  <2>1. PipeType' /\ pipe'.on = pipe.on /\ IsPool(pool')
    BY <1>8, <1>b DEF PipeDone, PipeType
  <2>2. Channels' /\ Fits'
    BY <1>8, <1>a, SameTypes DEF PipeDone
  <2> QED
    BY <2>1, <2>2, <1>2
<1> QED
  BY <1>3, <1>4, <1>5, <1>6, <1>7, <1>8 DEF PipelineLoop

LEMMA TxManagerKeeps == IInv /\ TxManagerLoop => IInv'
<1> SUFFICES ASSUME IInv, TxManagerLoop PROVE IInv'
  OBVIOUS
<1>a. /\ UNCHANGED coVars /\ UNCHANGED <<pipe, pipeStats, up>>
      /\ UNCHANGED <<chain, news, node>>
  BY DEF TxManagerLoop, TmReadStats, TmDiscard, TmTake, TmCheck, TmTell, TmDone, TmStep, pipeVars
<1>b. IsPool(pool) /\ NodeType /\ Channels /\ Fits /\ Ended /\ Places
  BY DEF IInv, TypeOK
<1>d. QueueLen \in Nat
  BY CoordinatorAssumption
<1>1. Places'
  BY <1>a, <1>b DEF TxManagerLoop, TmReadStats, TmDiscard, TmTake, TmCheck, TmTell, TmDone,
                    Places, Fault
<1>2. Ended' /\ PipeType'
  BY <1>a, <1>b, SameTypes DEF Ended
<1>3. ASSUME NodeType', IsPool(pool'), Channels', Fits',
             \A t \in InState(pool', {Forging}) :
               t \in InState(pool, {Forging}) /\ pool'[t] = pool[t]
      PROVE  IInv'
  BY <1>1, <1>2, <1>3, <1>a, PoolKeeps, SameTypes DEF IInv, TypeOK
<1>4. ASSUME UNCHANGED <<pool, sent>>, Channels', Fits'
      PROVE  IInv'
  BY <1>4, <1>3, <1>a, <1>b, SameTypes DEF InState
<1>5. CASE TmReadStats
  BY <1>5, <1>4, <1>a, <1>b, <1>d DEF TmReadStats, Channels, Fits
<1>6. CASE TmDiscard
  BY <1>6, <1>4, <1>a, <1>b, <1>d DEF TmDiscard, Channels, Fits
<1>7. CASE TmTake
  <2>1. batchCh # <<>> /\ batchCh \in Seq(Root) /\ batchCh' = Tail(batchCh)
    BY <1>7, <1>b DEF TmTake, Channels
  <2>2. /\ Head(batchCh) \in Root /\ batchCh' \in Seq(Root)
        /\ Len(batchCh') = Len(batchCh) - 1 /\ Len(batchCh) \in Nat
    BY <2>1, HeadTailProperties, LenProperties
  <2>3. UNCHANGED <<msgCh, tmStats, discards>>
    BY <1>7 DEF TmTake
  <2>4. Channels' /\ Fits'
    BY <2>2, <2>3, <1>a, <1>b, <1>d DEF Channels, Fits
  <2>5. CASE UNCHANGED <<sent, pool>>
    BY <2>4, <2>5, <1>4
  <2>6. CASE LET r == Head(batchCh)
             IN  sent' = sent \cup {r} /\ pool' = DoneForging(pool, Last(r).txs, Len(r))
    <3> DEFINE r == Head(batchCh)
    <3>1. sent' = sent \cup {r} /\ pool' = DoneForging(pool, Last(r).txs, Len(r))
      BY <2>6
    <3>2. r \in Root
      BY <2>2
    <3> HIDE DEF r
    <3>3. Len(r) \in Nat
      BY <3>2, LenProperties DEF Root
    <3>4. IsPool(pool')
      BY <3>1, <3>3, <1>b, StatementsGiveTable
    <3>5. \A t \in InState(pool', {Forging}) : t \in InState(pool, {Forging}) /\ pool'[t] = pool[t]
      BY <3>1, <1>b, NoMoreForging
    <3>6. NodeType'
      BY <3>1, <3>2, <1>a, <1>b DEF NodeType
    <3> QED
      BY <3>4, <3>5, <3>6, <2>4, <1>3
  <2> QED
    BY <1>7, <2>5, <2>6 DEF TmTake
<1>8. CASE TmCheck
  <2>1. UNCHANGED <<pool, sent>> /\ Channels' /\ Fits'
    BY <1>8, <1>a, SameTypes DEF TmCheck
  <2> QED
    BY <2>1, <1>4
<1>9. CASE TmTell
  <2>1. UNCHANGED <<pool, sent>> /\ UNCHANGED <<batchCh, pipeStats, tmStats, discards>>
    BY <1>9, <1>a DEF TmTell
  <2>2. CASE UNCHANGED msgCh
    <3>1. Channels' /\ Fits'
      BY <2>1, <2>2, SameTypes
    <3> QED
      BY <3>1, <2>1, <1>4
  <2>3. CASE Len(msgCh) < QueueLen /\ msgCh' = Append(msgCh, StopMsg(0))
    <3>1. StopMsg(0) \in Msg
      BY StopMsgType
    <3>2. Channels' /\ Fits'
      BY <3>1, <2>1, <2>3, <1>b, MessageSent
    <3> QED
      BY <3>2, <2>1, <1>4
  <2> QED
    BY <1>9, <2>2, <2>3 DEF TmTell, HasRoom
<1>10. CASE TmDone
  <2>1. UNCHANGED <<pool, sent>> /\ Channels' /\ Fits'
    BY <1>10, <1>a, SameTypes DEF TmDone
  <2> QED
    BY <2>1, <1>4
<1> QED
  BY <1>5, <1>6, <1>7, <1>8, <1>9, <1>10 DEF TxManagerLoop

LEMMA StopKeeps == IInv /\ Stop => IInv'
<1> SUFFICES ASSUME IInv, Stop PROVE IInv'
  OBVIOUS
<1>a. /\ UNCHANGED pool /\ UNCHANGED coVars /\ UNCHANGED <<chain, sent, news, tm, faults>>
      /\ UNCHANGED <<msgCh, batchCh, pipeStats, tmStats, discards>>
  BY DEF Stop, chainVars, tmVars
<1>b. NodeType /\ PipeType /\ Places /\ Ended
  BY DEF IInv, TypeOK
<1>1. NodeType' /\ Places'
  <2>1. NoMsg \in Msg
    BY DEF NoMsg, Msg, Root, Turn
  <2> QED
    BY <2>1, <1>a, <1>b DEF Stop, StopCoordinator, StopPipeline, NodeType, Places
<1>2. PipeType' /\ pipe'.on = pipe.on /\ pipe'.pc = pipe.pc
  BY <1>b DEF Stop, StopCoordinator, StopPipeline, PipeType
<1>3. Ended'
  BY <1>2, <1>b DEF Ended
<1>4. Handled' /\ NothingForgedBeside'
  BY <1>a, <1>2, <1>3, OthersKeep
<1> QED
  BY <1>a, <1>1, <1>2, <1>3, <1>4, SameTypes DEF IInv, TypeOK

-----------------------------------------------------------------------------
(* The invariant that the theorems rest on. *)
THEOREM Inductive == Spec => []IInv
<1>1. IInv /\ [Next]_vars => IInv'
  <2> SUFFICES ASSUME IInv, [Next]_vars PROVE IInv'
    OBVIOUS
  <2>1. CASE Next
    BY <2>1, NodeKeeps, CoordinatorKeeps, PipelineKeeps, TxManagerKeeps, StopKeeps DEF Next
  <2>2. CASE UNCHANGED vars
    <3>1. /\ UNCHANGED pool /\ UNCHANGED coVars /\ UNCHANGED pipe
          /\ UNCHANGED <<chain, sent, news, node>> /\ UNCHANGED <<tm, up, faults>>
          /\ UNCHANGED <<msgCh, batchCh, pipeStats, tmStats, discards>>
      BY <2>2 DEF vars, chainVars, pipeVars, tmVars
    <3>2. Ended'
      BY <3>1 DEF IInv, Ended
    <3>3. Handled' /\ NothingForgedBeside'
      BY <3>1, <3>2, OthersKeep
    <3> QED
      BY <3>1, <3>2, <3>3, SameTypes DEF IInv, TypeOK
  <2> QED
    BY <2>1, <2>2
<1> QED
  BY <1>1, InitHolds, PTL DEF Spec

(* The messages, roots and rows are what the goroutines take them for: in particular
   the state that a pipeline starts from is always that of the batch it is told, or
   there is none and it does not start (Pipeline.reset). *)
THEOREM TypeCorrect == Spec => []TypeOK
<1>1. IInv => TypeOK
  BY DEF IInv
<1> QED
  BY <1>1, Inductive, PTL

(* handleMsgSyncBlock keeps no "phantom forged l2txs": see NothingForgedBeside. *)
THEOREM NoPhantoms == Spec => []NothingForgedBeside
<1>1. IInv => NothingForgedBeside
  BY DEF IInv
<1> QED
  BY <1>1, Inductive, PTL
=============================================================================
