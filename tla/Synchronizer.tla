---------------------------- MODULE Synchronizer ----------------------------
(***************************************************************************)
(* The Synchronizer and the loop of the Node around it: block after block  *)
(* of the Ethereum chain goes to the history database and its batches to   *)
(* the state database, and the Coordinator is told.  The chain moves       *)
(* between any two reads of it; a read, a write or the whole process may   *)
(* fail at every step.                                                     *)
(*                                                                         *)
(* The hash of a block stands for all its ancestors: here a block is the   *)
(* sequence of what is in it and in each block before it, its parent is    *)
(* the sequence without the last element, its number is the length.        *)
(* Numbers count from startBlockNum, which is 1; <<>> is the block 0 that  *)
(* the database always has, and the nil pointer where the code has one.    *)
(* A block has at most one batch.                                          *)
(*                                                                         *)
(* A definition that a comment calls a mutant is wrong on purpose: put in  *)
(* the place of the next one it makes a property of the runs fail.         *)
(***************************************************************************)
EXTENDS Integers, Sequences, FiniteSets, FiniteSetsExt

CONSTANTS
  Kinds(_),         \* what may be in the block of a number; see Plain, L2, L1, Vars
  FinalBlocks,      \* a fork never replaces a block up to this number
  GenesisBlockNum,  \* of the auction contract
  BlocksPerSlot,
  SlotDeadline,
  UpdateBlockNumDiffThreshold,
  UpdateFrequencyDivider,
  MaxBlock, MaxForks, MaxFaults   \* bounds

Plain == "plain"
L2    == "l2"     \* a batch that forges L2 transactions only
L1    == "l1"     \* a batch that forges a queue of L1 transactions too
Vars  == "vars"   \* a change of the variables of a contract

ASSUME SynchronizerAssumption ==
  /\ \A n \in 1..MaxBlock : Kinds(n) \subseteq {Plain, L2, L1, Vars}
  /\ FinalBlocks \in Nat /\ GenesisBlockNum \in Nat
  /\ BlocksPerSlot \in Nat \ {0} /\ UpdateFrequencyDivider \in Nat \ {0}
  /\ UpdateBlockNumDiffThreshold \in Nat
  /\ SlotDeadline \in 0..BlocksPerSlot - 1
  /\ MaxBlock \in Nat /\ MaxForks \in Nat /\ MaxFaults \in Nat

Nil == <<>>

Block == Seq({Plain, L2, L1, Vars})
Num(b) == Len(b)
Kind(b) == b[Len(b)]
Parent(b) == SubSeq(b, 1, Len(b) - 1)
HasBatch(b) == b # Nil /\ Kind(b) \in {L1, L2}

VARIABLES
  chain,        \* the last block of the chain of the Ethereum node
  hist,         \* HistoryDB: hist[n] is block number n
  state,        \* StateDB: the blocks whose batches it has processed
  stats,        \* Synchronizer.stats
  scVars,       \* Synchronizer.vars: the number of the block that changed them last
  resetStateFailed,
  pc,           \* where the loop of the Node is
  lastBlock,    \* the loop's lastBlock, or Nil
  base,         \* Sync's lastSavedBlock, or Nil
  ethBlock,     \* Sync's ethBlock
  blockNum,     \* reorg's blockNum
  told,         \* what the Coordinator was told: the last block and the variables
  missed,       \* a change since the last message with all variables was not told
  forks, faults \* how many so far

ethVars  == <<chain, forks>>
dbVars   == <<hist, state>>
memVars  == <<stats, scVars, resetStateFailed>>
syncVars == <<base, ethBlock, blockNum>>
hearVars == <<told, missed>>
vars == <<ethVars, dbVars, memVars, pc, lastBlock, syncVars, hearVars, faults>>

-----------------------------------------------------------------------------
(* Queries of the history database *)

LastSaved == IF hist = <<>> THEN Nil ELSE hist[Len(hist)]

\* the batches in a sequence of blocks; the contract numbers them from 1
BatchNum(h, n) == Cardinality({m \in 1..n : HasBatch(h[m])})
Batches(h) ==
  [i \in 1..BatchNum(h, Len(h)) |->
     h[CHOOSE n \in DOMAIN h : HasBatch(h[n]) /\ BatchNum(h, n) = i]]
SavedBatches == Batches(hist)

SavedL1 == Cardinality({n \in DOMAIN hist : Kind(hist[n]) = L1})
SavedVars == Max({0} \cup {n \in DOMAIN hist : Kind(hist[n]) = Vars})

(* Slots; Go rounds a quotient towards zero *)

SlotNum(n) == IF n >= GenesisBlockNum THEN (n - GenesisBlockNum) \div BlocksPerSlot
                                      ELSE -((GenesisBlockNum - n) \div BlocksPerSlot)
RelativeBlock(n) == n - (GenesisBlockNum + SlotNum(n) * BlocksPerSlot)
InTime(n) == RelativeBlock(n) < SlotDeadline

\* GetFirstBatchBlockNumBySlot, as a set of at most one number
FirstBatchBlock(slot) ==
  LET inSlot == {n \in DOMAIN hist : HasBatch(hist[n]) /\ SlotNum(n) = slot}
  IN  IF inSlot = {} THEN {} ELSE {Min(inSlot)}

-----------------------------------------------------------------------------
Synced(s) == s.eth = Num(s.block)

\* mutant: a commitment is carried over into the next slot
CurrentSlot_Kept(s, hasBatch) ==
  [s EXCEPT !.slot = SlotNum(Num(s.block) + 1),
            !.committed = \/ s.committed
                          \/ hasBatch /\ InTime(Num(s.block))]

\* updateCurrentSlot(reset = false)
CurrentSlot(s, hasBatch) ==
  LET slot == SlotNum(Num(s.block) + 1)
  IN  [s EXCEPT !.slot = slot,
                !.committed = \/ slot <= s.slot /\ s.committed
                              \/ hasBatch /\ InTime(Num(s.block))]

\* updateCurrentSlot(reset = true)
CurrentSlotFromDB(s) ==
  LET slot == SlotNum(Num(s.block) + 1)
  IN  [s EXCEPT !.slot = slot, !.committed = \E n \in FirstBatchBlock(slot) : InTime(n)]

\* UpdateSync in Sync: values without news keep what they have
SyncedBlock(s) ==
  [s EXCEPT !.block = ethBlock,
            !.batch = IF HasBatch(ethBlock) THEN Len(SavedBatches) ELSE @,
            !.l1    = IF Kind(ethBlock) = L1 THEN SavedL1 ELSE @]

\* mutant: what Sync knows of the L1 batches is not reset
SavedStats_KeepL1(s) == [s EXCEPT !.block = LastSaved, !.batch = Len(SavedBatches)]

\* UpdateSync in resetState
SavedStats(s) == [s EXCEPT !.block = LastSaved, !.batch = Len(SavedBatches), !.l1 = SavedL1]

ZeroStats == [eth |-> 0, block |-> Nil, batch |-> 0, l1 |-> 0, slot |-> 0, committed |-> FALSE]

-----------------------------------------------------------------------------
(* resetState of a Synchronizer whose stats are s *)

StateAtLastBatch == SubSeq(state, 1, Len(SavedBatches))

Reset(s) ==
  /\ Len(SavedBatches) <= Len(state)
  /\ state' = StateAtLastBatch
  /\ stats' = CurrentSlotFromDB(SavedStats(s))
  /\ scVars' = SavedVars
  /\ resetStateFailed' = FALSE

\* an error in one of its steps; the steps before it are done
ResetFails(s) ==
  /\ \/ scVars' = scVars   /\ state' = state            /\ stats' = s
     \/ scVars' = SavedVars /\ state' = state            /\ stats' = s
     \/ scVars' = SavedVars /\ state' = StateAtLastBatch /\ stats' \in {s, SavedStats(s)}
  /\ resetStateFailed' = TRUE

Fault == faults < MaxFaults /\ faults' = faults + 1
NoFault == UNCHANGED faults

\* Sync returns an error: the loop forgets lastBlock
ReturnError ==
  /\ pc' = "idle"
  /\ lastBlock' = Nil
  /\ base' = Nil /\ ethBlock' = Nil /\ blockNum' = 0

\* mutant: nothing is reset after an error
FailAfterEvents_NoReset(s) ==
  /\ ReturnError
  /\ stats' = s /\ UNCHANGED <<state, scVars, resetStateFailed>>

\* an error after the check of the parent: the deferred function resets
FailAfterEvents(s) ==
  /\ ReturnError
  /\ \/ Reset(s)
     \/ Fault /\ ResetFails(s)

-----------------------------------------------------------------------------
(* The chain *)

\* the block of a number, for a number the chain has
EthBlockByNumber(n) == SubSeq(chain, 1, n)
IsOnChain(b) == Num(b) <= Num(chain) /\ b = EthBlockByNumber(Num(b))

KindsAt(n) == IF n < GenesisBlockNum THEN Kinds(n) \ {L1, L2} ELSE Kinds(n)

Grow ==
  /\ Num(chain) < MaxBlock
  /\ \E k \in KindsAt(Num(chain) + 1) : chain' = Append(chain, k)
  /\ UNCHANGED <<dbVars, memVars, pc, lastBlock, syncVars, hearVars, forks, faults>>

\* a fork replaces some blocks; it is not longer yet, but it will be: the fork
\* that the network settles on gets longer than any other was
Fork ==
  /\ forks < MaxForks /\ Num(chain) < MaxBlock
  /\ forks' = forks + 1
  /\ \E n \in FinalBlocks + 1..Num(chain) : \E k \in KindsAt(n) \ {chain[n]} :
       chain' = Append(SubSeq(chain, 1, n - 1), k)
  /\ UNCHANGED <<dbVars, memVars, pc, lastBlock, syncVars, hearVars, faults>>

-----------------------------------------------------------------------------
(* Start of the process *)

UNCHBoot == UNCHANGED <<ethVars, hist, lastBlock, syncVars, hearVars>>

\* NewSynchronizer
Boot ==
  /\ pc = "down"
  /\ Reset([ZeroStats EXCEPT !.eth = Num(chain)])
  /\ pc' = "start"
  /\ NoFault /\ UNCHBoot

\* an error ends the process; what was in memory is gone
BootFails ==
  /\ pc = "down"
  /\ Fault
  /\ state' \in {state, StateAtLastBatch}
  /\ UNCHANGED <<pc, stats, scVars, resetStateFailed>> /\ UNCHBoot

\* StartSynchronizer: handleNewBlock with the state loaded and all the variables
FirstNews == [block |-> stats.block, vars |-> scVars]

Start ==
  /\ pc = "start"
  /\ pc' = "idle"
  /\ told' = FirstNews
  /\ missed' = FALSE
  /\ UNCHANGED <<ethVars, dbVars, memVars, lastBlock, syncVars, faults>>

Crash ==
  /\ pc # "down"
  /\ Fault
  /\ pc' = "down"
  /\ lastBlock' = Nil /\ base' = Nil /\ ethBlock' = Nil /\ blockNum' = 0
  /\ stats' = ZeroStats /\ scVars' = 0 /\ resetStateFailed' = FALSE
  /\ told' = [block |-> Nil, vars |-> 0] /\ missed' = FALSE
  /\ UNCHANGED <<ethVars, dbVars>>

-----------------------------------------------------------------------------
(* Sync *)

UNCHSync == UNCHANGED <<ethVars, hearVars>>

\* up to lastSavedBlock
Begin ==
  /\ pc = "idle"
  /\ \/ ~resetStateFailed /\ UNCHANGED <<memVars, state>>
     \/ resetStateFailed /\ Reset(stats)
  /\ base' = IF lastBlock = Nil THEN LastSaved ELSE lastBlock
  /\ pc' = "fetch"
  /\ NoFault /\ UNCHANGED <<hist, lastBlock, ethBlock, blockNum>> /\ UNCHSync

BeginFails ==
  /\ pc = "idle"
  /\ Fault
  /\ \/ ~resetStateFailed /\ lastBlock = Nil /\ UNCHANGED <<memVars, state>>
     \/ resetStateFailed /\ ResetFails(stats)
     \/ resetStateFailed /\ Reset(stats) /\ lastBlock = Nil
  /\ ReturnError
  /\ UNCHANGED hist /\ UNCHSync

\* EthBlockByNumber(nextBlockNum)
Fetch ==
  /\ pc = "fetch"
  /\ IF Num(base) + 1 > Num(chain)
     THEN pc' = "idle" /\ base' = Nil /\ UNCHANGED ethBlock
     ELSE pc' = "eth" /\ ethBlock' = EthBlockByNumber(Num(base) + 1) /\ UNCHANGED base
  /\ NoFault /\ UNCHANGED <<dbVars, memVars, lastBlock, blockNum>> /\ UNCHSync

\* mutant: a block is taken whatever its parent is
IsReorg_Never == FALSE
IsReorg == base # Nil /\ base # Parent(ethBlock)

\* UpdateEth when it is due, and the check of the parent
Eth ==
  /\ pc = "eth"
  /\ stats' = IF \/ Num(ethBlock) + UpdateBlockNumDiffThreshold >= stats.eth
                 \/ Num(ethBlock) % UpdateFrequencyDivider = 0
              THEN [stats EXCEPT !.eth = Num(chain)]
              ELSE stats
  /\ IF IsReorg THEN pc' = "reorg" /\ blockNum' = Num(base)
                ELSE pc' = "events" /\ UNCHANGED blockNum
  /\ NoFault
  /\ UNCHANGED <<dbVars, scVars, resetStateFailed, lastBlock, base, ethBlock>> /\ UNCHSync

\* an error of the Ethereum node in one of the two, or in reorg
ReadFails ==
  /\ pc \in {"fetch", "eth", "reorg"}
  /\ Fault
  /\ ReturnError
  /\ UNCHANGED <<dbVars, memVars>> /\ UNCHSync

\* the number and the root of a batch are those of the contract
Matches ==
  HasBatch(ethBlock) =>
    Append(state, ethBlock) = Batches([n \in 1..Num(ethBlock) |-> SubSeq(ethBlock, 1, n)])

\* rollupSync
Events ==
  /\ pc = "events"
  /\ Matches
  /\ state' = IF HasBatch(ethBlock) THEN Append(state, ethBlock) ELSE state
  /\ scVars' = IF Kind(ethBlock) = Vars THEN Num(ethBlock) ELSE scVars
  /\ pc' = "commit"
  /\ NoFault
  /\ UNCHANGED <<hist, stats, resetStateFailed, lastBlock, syncVars>> /\ UNCHSync

\* the Ethereum node may not know a block any more that it has discarded
Gone == ~IsOnChain(ethBlock)

\* an error before or after the batch is processed, in auctionSync, wdelayerSync or
\* AddBlockSCData, that rolls back
EventsFail ==
  /\ pc \in {"events", "commit"}
  /\ FailAfterEvents(stats)
  /\ \/ NoFault /\ Gone
     \/ NoFault /\ pc = "events" /\ ~Matches
     \/ Fault
  /\ UNCHANGED hist /\ UNCHSync

\* AddBlockSCData
Commit ==
  /\ pc = "commit"
  /\ hist' = Append(hist, ethBlock)
  /\ pc' = "slots"
  /\ NoFault /\ UNCHANGED <<state, memVars, lastBlock, syncVars>> /\ UNCHSync

\* UpdateSync and updateCurrentNextSlotIfSync
Slots ==
  /\ pc = "slots"
  /\ stats' = CurrentSlot(SyncedBlock(stats), HasBatch(ethBlock))
  /\ pc' = "tell"
  /\ NoFault
  /\ UNCHANGED <<dbVars, scVars, resetStateFailed, lastBlock, syncVars>> /\ UNCHSync

\* an error of setSlotCoordinator or AuctionCanForge, or its answer false
SlotsFail ==
  /\ pc = "slots"
  /\ Synced(SyncedBlock(stats)) /\ Num(ethBlock) + 1 >= GenesisBlockNum
  /\ FailAfterEvents(SyncedBlock(stats))
  /\ Fault
  /\ missed' = TRUE
  /\ UNCHANGED <<hist, told>> /\ UNCHANGED ethVars

-----------------------------------------------------------------------------
(* reorg *)

\* one turn of its loop; when the number gets below startBlockNum the loop ends
\* with the first block
Search ==
  /\ pc = "reorg"
  /\ blockNum <= Num(chain)
  /\ IF blockNum = 1 \/ IsOnChain(hist[blockNum])
     THEN pc' = "discard" /\ UNCHANGED blockNum
     ELSE blockNum' = blockNum - 1 /\ UNCHANGED pc
  /\ NoFault /\ UNCHANGED <<dbVars, memVars, lastBlock, base, ethBlock>> /\ UNCHSync

\* the chain has become shorter: EthBlockByNumber does not find the block
SearchFails ==
  /\ pc = "reorg"
  /\ blockNum > Num(chain)
  /\ ReturnError
  /\ NoFault /\ UNCHANGED <<dbVars, memVars>> /\ UNCHSync

\* historyDB.Reorg
Discard ==
  /\ pc = "discard"
  /\ hist' = SubSeq(hist, 1, blockNum)
  /\ pc' = "reset"
  /\ NoFault /\ UNCHANGED <<state, memVars, lastBlock, syncVars>> /\ UNCHSync

DiscardFails ==
  /\ pc = "discard"
  /\ Fault
  /\ ReturnError
  /\ UNCHANGED <<dbVars, memVars>> /\ UNCHSync

ResetToValid ==
  /\ pc = "reset"
  /\ Reset(stats)
  /\ pc' = "tellReorg"
  /\ NoFault /\ UNCHANGED <<hist, lastBlock, syncVars>> /\ UNCHSync

ResetToValidFails ==
  /\ pc = "reset"
  /\ Fault
  /\ ResetFails(stats)
  /\ ReturnError
  /\ missed' = TRUE
  /\ UNCHANGED <<hist, told>> /\ UNCHANGED ethVars

-----------------------------------------------------------------------------
(* syncLoopFn after Sync *)

\* mutant: the variables are never in the message of a block
NewVars_None == told.vars
\* the message of a block has the variables only when it changes them
NewVars == IF Kind(ethBlock) = Vars THEN scVars ELSE told.vars

\* handleNewBlock; an error of its Store comes after the message
TellBlock ==
  /\ pc = "tell"
  /\ told' = [block |-> stats.block, vars |-> NewVars]
  /\ lastBlock' = ethBlock
  /\ pc' = "idle" /\ base' = Nil /\ ethBlock' = Nil
  /\ NoFault /\ UNCHANGED <<dbVars, memVars, blockNum, missed>> /\ UNCHANGED ethVars

TellBlockFails ==
  /\ pc = "tell"
  /\ told' = [block |-> stats.block, vars |-> NewVars]
  /\ Fault
  /\ ReturnError
  /\ UNCHANGED <<dbVars, memVars, missed>> /\ UNCHANGED ethVars

\* handleReorg, with all the variables; with or without an error of its Store the
\* loop forgets lastBlock
TellReorg ==
  /\ pc = "tellReorg"
  /\ told' = [block |-> stats.block, vars |-> scVars]
  /\ missed' = FALSE
  /\ ReturnError
  /\ NoFault /\ UNCHANGED <<dbVars, memVars>> /\ UNCHANGED ethVars

-----------------------------------------------------------------------------
Init ==
  /\ chain = Nil /\ forks = 0 /\ faults = 0
  /\ hist = <<>> /\ state = <<>>
  /\ stats = ZeroStats /\ scVars = 0 /\ resetStateFailed = FALSE
  /\ pc = "down" /\ lastBlock = Nil
  /\ base = Nil /\ ethBlock = Nil /\ blockNum = 0
  /\ told = [block |-> Nil, vars |-> 0] /\ missed = FALSE

\* what the node does while nothing fails
Step ==
  \/ Boot \/ Start \/ Begin \/ Fetch \/ Eth \/ Events \/ Commit \/ Slots \/ TellBlock
  \/ Search \/ SearchFails \/ Discard \/ ResetToValid \/ TellReorg

Failure ==
  \/ Crash \/ BootFails \/ BeginFails \/ ReadFails \/ EventsFail \/ SlotsFail
  \/ DiscardFails \/ ResetToValidFails \/ TellBlockFails

Next == Grow \/ Fork \/ Step \/ Failure

Spec == Init /\ [][Next]_vars

\* the loop goes on, a process that ended is started again, the chain grows
FairSpec == Spec /\ WF_vars(Step) /\ WF_vars(Grow)

-----------------------------------------------------------------------------
TypeOK ==
  /\ chain \in Block /\ lastBlock \in Block /\ base \in Block /\ ethBlock \in Block
  /\ hist \in Seq(Block) /\ state \in Seq(Block)
  /\ stats \in [eth : Nat, block : Block, batch : Nat, l1 : Nat, slot : Int, committed : BOOLEAN]
  /\ scVars \in Nat /\ resetStateFailed \in BOOLEAN
  /\ pc \in {"down", "start", "idle", "fetch", "eth", "events", "commit", "slots", "tell",
             "reorg", "discard", "reset", "tellReorg"}
  /\ blockNum \in Nat /\ forks \in Nat /\ faults \in Nat
  /\ told \in [block : Block, vars : Nat] /\ missed \in BOOLEAN

(* The blocks of the history database are one chain: after any mix of forks, errors
   and restarts each one is the parent of the next and has the next number.  The last
   one is the block the loop hands to Sync, if it has one: otherwise Sync would ask for
   the next block by a number that is stale. *)
Linked ==
  /\ \A n \in DOMAIN hist : Num(hist[n]) = n /\ (n > 1 => Parent(hist[n]) = hist[n - 1])
  /\ pc = "idle" /\ lastBlock # Nil => lastBlock = LastSaved

(* Sync: "the historyDB is written last and is the source of consistency".  When the
   loop is about to call Sync, or to tell of a block, the state database has processed
   exactly the batches of the saved blocks, unless resetStateFailed says otherwise. *)
AtRest == pc \in {"idle", "start", "fetch", "tell", "tellReorg"} /\ ~resetStateFailed
StateMatchesHistory == AtRest => state = SavedBatches

(* The history database is what the node can rely on: a chain, and the state fits. *)
HistoryIsSource == Linked /\ StateMatchesHistory

(* The statistics the Coordinator and its pipeline start from are those of the saved
   blocks, whether they were updated block by block or read from the database. *)
StatsMatchHistory ==
  AtRest => /\ stats.block = LastSaved
            /\ stats.batch = Len(SavedBatches)
            /\ stats.l1 = SavedL1
            /\ scVars = SavedVars

(* ForgerCommitment of the current slot, on which canForge and the forge policy rest:
   there is a saved batch in the first SlotDeadline blocks of the slot. *)
CommitmentMatchesHistory ==
  AtRest => (stats.committed <=> \E n \in DOMAIN hist : /\ HasBatch(hist[n])
                                                        /\ SlotNum(n) = stats.slot
                                                        /\ InTime(n))

(* The Coordinator is told only the variables a block changes.  Unless an error came
   between the change of the database and the message, it has the current ones. *)
VarsTold == pc = "idle" /\ ~missed /\ ~resetStateFailed => told.vars = SavedVars

(* What the rest of the node goes by, read or told, is what the saved blocks say. *)
ToldMatchesHistory == StatsMatchHistory /\ CommitmentMatchesHistory /\ VarsTold

(* However the chain forked, and whatever failed meanwhile, the node ends with the
   blocks of the chain. *)
Follows == <>[](LastSaved = chain)

=============================================================================
