------------------------------- MODULE Auction -------------------------------
(***************************************************************************)
(* Who may forge.  The auction of slots as the Synchronizer follows it:    *)
(* the events of each block become rows of bids, coordinators and          *)
(* variables (auctionSync), and once the node has the last block it works  *)
(* out the coordinator of the current and of the next slot, and asks the   *)
(* contract whether it agrees (updateCurrentNextSlotIfSync).  From the     *)
(* same rows the node answers who forges the next slots                    *)
(* (GetNextForgersInternalAPI) and lists the slots (getSlots).             *)
(*                                                                         *)
(* The contract is the environment: it takes bids for the slots that are   *)
(* open, keeps for the closed ones the default bid that they were closed   *)
(* with, and answers from its latest state.  A block is mined with all its *)
(* events.  Ethereum addresses are forgers; one bidder is enough for each  *)
(* slot to have or not to have a winner, and its forger may change.        *)
(***************************************************************************)
EXTENDS Integers, Sequences, FiniteSets, SequencesExt, FiniteSetsExt, Pages

CONSTANTS
  Bidder, FirstForger, BootForger, OtherForger,   \* Ethereum addresses
  BlocksPerSlot, GenesisBlockNum,
  SlotSets,       \* for how many series of slots there is a default bid, 6
  Deadline,       \* SlotDeadline at the start
  Events,         \* the events of the contract that happen
  PerBlock,       \* how many of them a block has at most
  MaxBlock, MaxEvents, MaxLag, MaxTroubles   \* bounds

Forgers == {FirstForger, BootForger, OtherForger}
Addresses == Forgers \cup {Bidder}

ASSUME AuctionAssumption ==
  /\ Cardinality(Forgers) = 3 /\ Bidder \notin Forgers
  /\ {BlocksPerSlot, SlotSets} \subseteq Nat \ {0}
  /\ {GenesisBlockNum, Deadline, PerBlock, MaxBlock, MaxEvents, MaxLag,
      MaxTroubles} \subseteq Nat

VARIABLES
  chain,     \* chain[n] is block n: what it holds, and the contract after it
  forks,     \* how many times the chain forked
  mined,     \* how many events there were, those of forks included
  hist,      \* hist[n] are the rows of block n in the database
  scVars,     \* s.vars.Auction
  stats,     \* the last block of Ethereum and of the node, current and next slot
  failed,    \* resetStateFailed
  fetched,   \* the block that Sync has read and not yet processed, or NoBlock
  api,       \* u.vars.Auction, Network.NextForgers and the block they are of
  troubles   \* how many forks, failed queries and restarts there were

ethVars == <<chain, forks, mined>>
vars == <<chain, forks, mined, hist, scVars, stats, failed, fetched, api, troubles>>

NoBlock == [num |-> 0]

-----------------------------------------------------------------------------
(* Slots. *)

\* Go divides towards zero: the blocks just before the genesis are of slot 0 too
SlotNum(n) == IF n >= GenesisBlockNum THEN (n - GenesisBlockNum) \div BlocksPerSlot
                                      ELSE -((GenesisBlockNum - n) \div BlocksPerSlot)
RelativeBlock(n) == n - (GenesisBlockNum + SlotNum(n) * BlocksPerSlot)
SlotBlocks(s) ==
  GenesisBlockNum + s * BlocksPerSlot .. GenesisBlockNum + (s + 1) * BlocksPerSlot - 1

Slots == 0..SlotNum(MaxBlock + 1) + 1   \* those that the node looks at

-----------------------------------------------------------------------------
(* The contract. *)

InitialDefault == 2
Amounts == {2, 3}        \* what is bid
Defaults == {1, 3}       \* what a default bid becomes

NewContract ==
  [boot |-> BootForger, closed |-> 1, deadline |-> Deadline,
   default |-> [s \in 0..SlotSets - 1 |-> InitialDefault],
   forger  |-> FirstForger,
   slots   |-> [s \in Slots |-> [bid |-> 0, closedMin |-> 0, committed |-> FALSE]]]

\* getMinBidBySlot's slotSet, and the minimum that decides who forges
MinBid(c, s) == IF c.slots[s].closedMin = 0 THEN c.default[s % SlotSets] ELSE c.slots[s].closedMin

\* whether the contract lets an address forge block n, in state c
ContractCanForge(c, addr, n) ==
  LET s == SlotNum(n) IN
  \/ ~c.slots[s].committed /\ RelativeBlock(n) >= c.deadline
  \/ addr = c.forger /\ c.slots[s].bid # 0 /\ c.slots[s].bid >= MinBid(c, s)
  \/ addr = c.boot /\ c.slots[s].bid < MinBid(c, s)

AllEvents ==
       [kind : {"bid"}, slot : Slots, amount : Amounts]
  \cup [kind : {"coordinator"}, forger : {FirstForger, OtherForger}]
  \cup [kind : {"boot"}, forger : {BootForger, OtherForger}]
  \cup [kind : {"closed"}, slots : {2}]
  \cup [kind : {"deadline"}, blocks : {1, 2}]
  \cup [kind : {"default"}, set : 0..SlotSets - 1, bid : Defaults]
  \cup [kind : {"forge"}]

\* the slots whose auction is open in block n
OpenFrom(c, n) == SlotNum(n) + c.closed + 1

\* whether event e may happen in block n, and the contract after it
Allowed(e, c, n) ==
  CASE e.kind = "bid" ->
         /\ e.slot >= OpenFrom(c, n)
         /\ e.amount > c.slots[e.slot].bid
         /\ c.slots[e.slot].bid = 0 => e.amount >= c.default[e.slot % SlotSets]
    [] e.kind = "coordinator" -> e.forger # c.forger
    [] e.kind = "boot" -> e.forger # c.boot
    [] e.kind = "closed" -> e.slots # c.closed
    [] e.kind = "deadline" -> e.blocks # c.deadline
    [] e.kind = "default" -> e.bid # c.default[e.set]
    [] e.kind = "forge" -> n >= GenesisBlockNum   \* there is always somebody who may

After(e, c, n) ==
  CASE e.kind = "bid" -> [c EXCEPT !.slots[e.slot].bid = e.amount]
    [] e.kind = "coordinator" -> [c EXCEPT !.forger = e.forger]
    [] e.kind = "boot" -> [c EXCEPT !.boot = e.forger]
    [] e.kind = "closed" -> [c EXCEPT !.closed = e.slots]
    [] e.kind = "deadline" -> [c EXCEPT !.deadline = e.blocks]
    [] e.kind = "default" ->
         [c EXCEPT !.default[e.set] = e.bid,
                   !.slots = [s \in Slots |->
                      IF s \in SlotNum(n)..SlotNum(n) + c.closed /\ c.slots[s].closedMin = 0
                      THEN [c.slots[s] EXCEPT !.closedMin = MinBid(c, s)] ELSE c.slots[s]]]
    [] e.kind = "forge" ->
         [c EXCEPT !.slots[SlotNum(n)].committed = @ \/ RelativeBlock(n) < c.deadline]

LastContract(ch) == IF ch = <<>> THEN NewContract ELSE Last(ch).contract

Block(ch, events) ==
  LET n == Len(ch) + 1
      Step(c, e) == After(e, c, n)
  IN  [num |-> n, fork |-> forks, events |-> events, contract |-> FoldLeft(Step, LastContract(ch), events)]

AllAllowed(ch, events) ==
  LET n == Len(ch) + 1 IN
  \A i \in DOMAIN events : Allowed(events[i], Block(ch, SubSeq(events, 1, i - 1)).contract, n)

BlockEvents == UNION {[1..k -> Events] : k \in 0..PerBlock}

Mine ==
  /\ Len(chain) < MaxBlock /\ Len(chain) < Len(hist) + MaxLag
  /\ \E events \in BlockEvents :
       /\ mined + Len(events) <= MaxEvents
       /\ mined' = mined + Len(events)
       /\ AllAllowed(chain, events)
       /\ chain' = Append(chain, Block(chain, events))
  /\ UNCHANGED <<forks, hist, scVars, stats, failed, fetched, api, troubles>>

\* the chain turns to other blocks above block n, as many as there were
Fork ==
  /\ troubles < MaxTroubles /\ troubles' = troubles + 1
  /\ forks' = forks + 1
  /\ \E n \in 1..Len(chain) - 1 :
       chain' = [i \in DOMAIN chain |->
         IF i <= n THEN chain[i]
         ELSE [num |-> i, fork |-> forks + 1, events |-> <<>>, contract |-> chain[n].contract]]
  /\ UNCHANGED <<mined, hist, scVars, stats, failed, fetched, api>>

-----------------------------------------------------------------------------
(* The events of a block become rows. *)

\* AuctionEventsByBlock: the events of a block, each kind apart from the others
OfKind(kind, events) == SelectSeq(events, LAMBDA e : e.kind = kind)
LastOf(events, field, default) == IF events = <<>> THEN default ELSE Last(events)[field]

NoVars == [default |-> <<>>]

\* auctionSync: the variables after a block, each kind of events on its own.  The
\* slot of a new default bid comes of the ClosedAuctionSlots after the block.
NewVars(v, n, events) ==
  LET defaults == OfKind("default", events)
      closed   == LastOf(OfKind("closed", events), "slots", v.closed)
  IN  [boot     |-> LastOf(OfKind("boot", events), "forger", v.boot),
       closed   |-> closed,
       deadline |-> LastOf(OfKind("deadline", events), "blocks", v.deadline),
       default  |-> FoldLeft(LAMBDA d, e : [d EXCEPT ![e.set] = e.bid], v.default, defaults),
       slot     |-> IF defaults = <<>> THEN v.slot ELSE SlotNum(n) + closed]

IsVar(e) == e.kind \in {"boot", "closed", "deadline", "default"}
VarsUpdate(events) == \E i \in DOMAIN events : IsVar(events[i])

AuctionSync(v, b) ==
  LET bids  == OfKind("bid", b.events)
      coord == OfKind("coordinator", b.events)
      boots == OfKind("boot", b.events)
  IN  [num    |-> b.num, fork |-> b.fork,
       bids   |-> [i \in DOMAIN bids |-> [slot |-> bids[i].slot, amount |-> bids[i].amount,
                                          bidder |-> Bidder]],
       coords |-> [i \in DOMAIN coord |-> [bidder |-> Bidder, forger |-> coord[i].forger]]
               \o [i \in DOMAIN boots |-> [bidder |-> "none", forger |-> boots[i].forger]],
       vars   |-> IF VarsUpdate(b.events) THEN NewVars(v, b.num, b.events) ELSE NoVars,
       batch  |-> OfKind("forge", b.events) # <<>>]

-----------------------------------------------------------------------------
(* What the database answers; h are its rows, of one block after the other. *)

\* SetInitialSCVars and the initial boot coordinator, linked to block 0; the
\* bidder registered before the first block of the model
InitialVars == [boot |-> BootForger, closed |-> 1, deadline |-> Deadline,
                default |-> [s \in 0..SlotSets - 1 |-> InitialDefault], slot |-> 0]
InitialCoords == <<[bidder |-> "none", forger |-> BootForger],
                   [bidder |-> Bidder, forger |-> FirstForger]>>

Coords(h) == InitialCoords \o FlattenSeq([n \in DOMAIN h |-> h[n].coords])
Bids(h) == FlattenSeq([n \in DOMAIN h |-> h[n].bids])
AuctionVars(h) ==
  <<InitialVars>> \o SelectSeq([n \in DOMAIN h |-> h[n].vars], LAMBDA v : v # NoVars)

\* GetSCVars
SavedVars(h) == Last(AuctionVars(h))

\* GetFirstBatchBlockNumBySlot asks for them: the slot of a batch is that of its block
BatchBlocks(h, s) == {n \in DOMAIN h : h[n].batch /\ SlotNum(n) = s}

\* the rows of a slot or of a bidder; the best bid is the last one
BidsOf(h, s) == SelectSeq(Bids(h), LAMBDA b : b.slot = s)
BestBid(h, s) == Last(BidsOf(h, s))
ForgerOf(h, bidder) == Last(SelectSeq(Coords(h), LAMBDA r : r.bidder = bidder)).forger

\* (mutant) the last default bids
DefaultSlotSetBid_Last(h, s) == SavedVars(h).default

\* GetBestBidCoordinator: the forger of the best bid, and the default bids of the
\* last variables that apply to the slot
DefaultSlotSetBid(h, s) == Last(SelectSeq(AuctionVars(h), LAMBDA v : v.slot <= s)).default
GetBestBidCoordinator(h, s) ==
  [amount |-> BestBid(h, s).amount, forger |-> ForgerOf(h, BestBid(h, s).bidder),
   default |-> DefaultSlotSetBid(h, s)[s % SlotSets]]

\* setSlotCoordinator
SlotForger(h, v, s) ==
  IF BidsOf(h, s) = <<>> THEN v.boot
  ELSE LET best == GetBestBidCoordinator(h, s)
       IN  IF best.amount >= best.default THEN best.forger ELSE v.boot

-----------------------------------------------------------------------------
(* The slots in the stats of the Synchronizer. *)

NoSlot == [num |-> 0, forger |-> "none", committed |-> FALSE]
FirstStats == [eth |-> 0, sync |-> 0, current |-> NoSlot, next |-> NoSlot]

Synced(st) == st.eth = st.sync

\* (mutant) a batch of the slot before counts
Committed_Kept(h, v, st, reset, hasBatch) ==
  IF reset THEN BatchBlocks(h, SlotNum(st.sync + 1)) # {}
  ELSE st.current.committed \/ (hasBatch /\ RelativeBlock(st.sync) < v.deadline)

\* ForgerCommitment of the current slot.  A reset takes it from the database, the
\* end of Sync adds what the last block says.
Committed(h, v, st, reset, hasBatch) ==
  LET s == SlotNum(st.sync + 1) IN
  IF reset THEN /\ BatchBlocks(h, s) # {}
                /\ RelativeBlock(Min(BatchBlocks(h, s))) < v.deadline
  ELSE \/ s <= st.current.num /\ st.current.committed
       \/ hasBatch /\ RelativeBlock(st.sync) < v.deadline

\* the node looks for the coordinators, and asks the contract, when it has the last block
Asks(st) == Synced(st) /\ st.sync + 1 >= GenesisBlockNum
ForgerIn(h, v, st, slot, s) == IF Asks(st) THEN SlotForger(h, v, s) ELSE slot.forger

\* updateCurrentSlot and updateNextSlot
CurrentSlot(h, v, st, reset, hasBatch) ==
  LET s == SlotNum(st.sync + 1)
  IN  [num |-> s, forger |-> ForgerIn(h, v, st, st.current, s),
       committed |-> Committed(h, v, st, reset, hasBatch)]
NextSlot(h, v, st) ==
  LET s == SlotNum(st.sync + 1) + 1
  IN  [num |-> s, forger |-> ForgerIn(h, v, st, st.next, s), committed |-> FALSE]

\* updateCurrentNextSlotIfSync: the stats with both slots; ok is whether the
\* contract agrees now, else the slots stay as they were
UpdateSlots(h, v, st, reset, hasBatch) ==
  LET current  == CurrentSlot(h, v, st, reset, hasBatch)
      next     == NextSlot(h, v, st)
      contract == LastContract(chain)
      ok == Asks(st) =>
              /\ ContractCanForge(contract, current.forger, st.sync + 1)
              /\ ContractCanForge(contract, next.forger, Min(SlotBlocks(next.num)))
  IN  [ok |-> ok, stats |-> IF ok THEN [st EXCEPT !.current = current, !.next = next] ELSE st]

-----------------------------------------------------------------------------
(* Network.NextForgers of the state that the API serves. *)

\* getMinBidInfo: distinct default bids and slots, the highest slots first, as many
\* as the slots that are asked for.  Rows of one slot come in any order.
MinBidInfos(h, current, lastClosed) ==
  LET all   == {[default |-> v.default, slot |-> v.slot] : v \in ToSet(AuctionVars(h))}
      rows  == {r \in all : r.slot < lastClosed}
      limit == lastClosed - current + 1
  IN  {SubSeq(q, 1, Min({limit, Len(q)})) : q \in {q \in SetToSeqs(rows) :
         \A i, j \in DOMAIN q : i < j => q[i].slot >= q[j].slot}}

\* (mutant) the last default bids, from whichever slot they apply
MinBidInfosFor_Last(h, v, current, lastClosed) == {<<[default |-> v.default, slot |-> 0]>>}

MinBidInfosFor(h, v, current, lastClosed) ==
  IF current >= v.slot THEN {<<[default |-> v.default, slot |-> v.slot]>>}
                       ELSE MinBidInfos(h, current, lastClosed)

\* the forger of a slot: that of its best bid when it beats the minimum that the
\* first applicable row of info has
NextForger(h, v, info, s) ==
  LET rows == SelectSeq(info, LAMBDA r : s >= r.slot)
  IN  IF /\ BidsOf(h, s) # <<>>
         /\ rows # <<>>
         /\ BestBid(h, s).amount >= rows[1].default[s % SlotSets]
      THEN ForgerOf(h, BestBid(h, s).bidder) ELSE v.boot

\* GetNextForgersInternalAPI, of the current slot to the last closed one
NextForgers(h, v, current) ==
  LET lastClosed == current + v.closed
  IN  {[s \in current..lastClosed |-> NextForger(h, v, info, s)] :
         info \in MinBidInfosFor(h, v, current, lastClosed)}

NoForgers == [s \in {} |-> "none"]

-----------------------------------------------------------------------------
(* The Synchronizer. *)

LastRow(h) == IF h = <<>> THEN <<>> ELSE <<Last(h).num, Last(h).fork>>
OfChain(n) == chain[n].num = hist[n].num /\ chain[n].fork = hist[n].fork

\* resetState, to the rows h; eth is the last block of Ethereum that is known
ResetState(h, st) ==
  LET v == SavedVars(h)
      u == UpdateSlots(h, v, [st EXCEPT !.sync = Len(h)], TRUE, FALSE)
  IN  /\ hist' = h
      /\ scVars' = v
      /\ stats' = u.stats
      /\ failed' = ~u.ok

\* the node starts: NewUpdater takes the variables of the Synchronizer.  It does not
\* while the first resetState fails.
Restart ==
  /\ troubles < MaxTroubles
  /\ troubles' = troubles + 1
  /\ ResetState(hist, [FirstStats EXCEPT !.eth = Len(chain)])
  /\ ~failed'
  /\ fetched' = NoBlock
  /\ api' = [vars |-> scVars', next |-> NoForgers, at |-> <<>>]
  /\ UNCHANGED ethVars

\* Sync after one that failed to reset: resetIntermediateState
Retry ==
  /\ failed /\ fetched = NoBlock
  /\ ResetState(hist, stats)
  /\ UNCHANGED ethVars /\ UNCHANGED <<fetched, api, troubles>>

\* UpdateEth, when the block may be the last one that is known
UpdateEth(n) == IF n >= stats.eth THEN [stats EXCEPT !.eth = Len(chain)] ELSE stats

\* Sync reads the next block, which has the last row as its parent
ReadBlock ==
  LET n == Len(hist) + 1 IN
  /\ ~failed /\ fetched = NoBlock
  /\ n <= Len(chain)
  /\ n > 1 => OfChain(n - 1)
  /\ stats' = UpdateEth(n)
  /\ fetched' = chain[n]
  /\ UNCHANGED ethVars /\ UNCHANGED <<hist, scVars, failed, api, troubles>>

\* or it has another one: reorg, down to the last block that is of the chain;
\* handleReorg tells all variables, unless resetState failed
Reorg ==
  LET n == Len(hist) + 1 IN
  /\ ~failed /\ fetched = NoBlock
  /\ n <= Len(chain)
  /\ n > 1 /\ ~OfChain(n - 1)
  /\ ResetState(SubSeq(hist, 1, Max({k \in 1..n - 1 : OfChain(k)})), UpdateEth(n))
  /\ api' = IF failed' THEN api ELSE [api EXCEPT !.vars = scVars']
  /\ UNCHANGED ethVars /\ UNCHANGED <<fetched, troubles>>

\* the block is gone (ErrUnknownBlock), or a query fails: what was done is undone
Fail ==
  /\ fetched # NoBlock
  /\ \/ chain[fetched.num].fork # fetched.fork /\ UNCHANGED troubles
     \/ troubles < MaxTroubles /\ troubles' = troubles + 1
  /\ ResetState(hist, stats)
  /\ fetched' = NoBlock
  /\ UNCHANGED ethVars /\ UNCHANGED api

\* the rows of the block are saved and the slots updated.  The block is told to the
\* API (handleNewBlock) unless the contract disagrees: then its rows stay, and
\* resetIntermediateState asks again.
SyncBlock ==
  LET b    == fetched
      rows == AuctionSync(scVars, b)
      h    == Append(hist, rows)
      v    == IF rows.vars = NoVars THEN scVars ELSE rows.vars
      u    == UpdateSlots(h, v, [stats EXCEPT !.sync = b.num], FALSE, rows.batch)
      told == IF rows.vars = NoVars THEN api.vars ELSE rows.vars
  IN
  /\ b # NoBlock
  /\ chain[b.num].fork = b.fork
  /\ fetched' = NoBlock
  /\ \/ /\ u.ok
        /\ hist' = h /\ scVars' = v /\ stats' = u.stats /\ failed' = failed
        /\ IF Synced(u.stats)
           THEN \E next \in NextForgers(h, told, u.stats.current.num) :
                  api' = [vars |-> told, next |-> next, at |-> LastRow(h)]
           ELSE api' = [api EXCEPT !.vars = told]
     \/ /\ ~u.ok
        /\ ResetState(h, u.stats)
        /\ UNCHANGED api
  /\ UNCHANGED ethVars /\ UNCHANGED troubles

-----------------------------------------------------------------------------
(* The list of slots that the API answers (getSlots), page after page. *)

\* (mutant) the last page begins below the slots that are asked for
GetLimits_Low(r) ==
  IF r.asc THEN LET min == Max({r.from, r.min})
                    max == Min({min + r.limit - 1, r.max})
                IN  [min |-> min, max |-> max, pending |-> r.max - max]
           ELSE LET max == Min({r.from, r.max})
                IN  [min |-> max - r.limit + 1, max |-> max, pending |-> max - r.limit + 1 - r.min]

\* getLimits: the slots of a page, and how many come after it
GetLimits(r) ==
  IF r.asc
  THEN LET min == Max({r.from, r.min})
           max == Min({min + r.limit - 1, r.max})
       IN  [min |-> min, max |-> max, pending |-> r.max - max]
  ELSE LET max == Min({r.from, r.max})
           min == Max({max - r.limit + 1, r.min})
       IN  [min |-> min, max |-> max, pending |-> min - r.min]

\* getLimitsWithAddr: where the page of a bidder begins; the query limits it
GetLimitsWithAddr(r) == IF r.asc THEN [min |-> Max({r.from, r.min}), max |-> r.max]
                                 ELSE [min |-> r.min, max |-> Min({r.from, r.max})]

\* the slots of a range, each with its best bid
InOrder(asc, min, max) ==
  [i \in 1..max - min + 1 |-> IF asc THEN min + i - 1 ELSE max - i + 1]
Entries(h, slots) ==
  [i \in DOMAIN slots |-> [num |-> slots[i],
     bid |-> IF BidsOf(h, slots[i]) = <<>> THEN 0 ELSE BestBid(h, slots[i]).amount]]

\* SlotsFiltersStructValidation
ValidSlots(r) == r.min <= r.max

GetSlots(h, r) ==
  IF r.bidder = "any"
  THEN LET p == GetLimits(r)
       IN  [slots |-> Entries(h, InOrder(r.asc, p.min, p.max)), pending |-> p.pending]
  ELSE LET p     == GetLimitsWithAddr(r)
           Won(s) == BidsOf(h, s) # <<>> /\ BestBid(h, s).bidder = r.bidder
           won   == SelectSeq(InOrder(r.asc, p.min, p.max), Won)
           slots == SubSeq(won, 1, Min({r.limit, Len(won)}))
       IN  [slots |-> Entries(h, slots), pending |-> Len(won) - Len(slots)]

(* The lists of bids and of coordinators.  Both show the last registration of a
   bidder only, and the item_id of a row is its place in the table. *)

\* GetBidsAPI: slot or bidder may be any, not both (BidsFiltersStructValidation)
AnySlot == -1
ValidBids(slot, bidder) == slot # AnySlot \/ bidder # "any"
GetBids(h, slot, bidder, p) ==
  LET rows == Items(Bids(h), LAMBDA b : slot \in {AnySlot, b.slot} /\ bidder \in {"any", b.bidder})
      page == Page(rows, p)
  IN  [page EXCEPT !.items = [i \in DOMAIN @ |->
         [item |-> @[i].item, slot |-> @[i].row.slot, amount |-> @[i].row.amount,
          forger |-> ForgerOf(h, @[i].row.bidder)]]]

\* GetCoordinatorsAPI: the last registrations
GetCoordinators(h, forger, p) ==
  LET IsLast(x) == \A i \in x.item + 1..Len(Coords(h)) : Coords(h)[i].bidder # x.row.bidder
      all == Items(Coords(h), LAMBDA r : TRUE)
  IN  Page(SelectSeq(all, LAMBDA x : IsLast(x) /\ forger \in {"any", x.row.forger}), p)

-----------------------------------------------------------------------------
Init ==
  /\ chain = <<>> /\ forks = 0 /\ mined = 0
  /\ hist = <<>> /\ scVars = InitialVars
  /\ stats = FirstStats /\ failed = FALSE
  /\ fetched = NoBlock
  /\ api = [vars |-> InitialVars, next |-> NoForgers, at |-> <<>>]
  /\ troubles = 0

Next == \/ Mine \/ Fork
        \/ Restart \/ Retry \/ ReadBlock \/ Reorg \/ Fail \/ SyncBlock

Spec == Init /\ [][Next]_vars

-----------------------------------------------------------------------------
(* Properties. *)

\* The node has the last block, which is still of the chain; its contract.
UpToDate == /\ Asks(stats) /\ ~failed /\ fetched = NoBlock
            /\ Len(hist) > 0 /\ OfChain(Len(hist))
Contract == chain[Len(hist)].contract

\* The slot that a new default bid is saved with: the contract closed it with the
\* old one, GetBestBidCoordinator takes the new one.
Disputed(s) == \E v \in ToSet(AuctionVars(hist)) : v.slot = s /\ v # InitialVars

\* canForge of the Coordinator, with MustForgeAtSlotDeadline
CanForge(addr, n) ==
  LET in    == {slot \in {stats.current, stats.next} : n \in SlotBlocks(slot.num)}
      slot  == CHOOSE slot \in in : TRUE
  IN  /\ n >= GenesisBlockNum /\ in # {}
      /\ \/ slot.forger = addr
         \/ ~slot.committed /\ RelativeBlock(n) >= scVars.deadline

(* While the node has the last block, each address may forge, in each block that
   is left of the current and of the next slot, if and only if the contract would
   let it: whatever bids, changes of forgers and of default bids, reorgs, errors
   and restarts there were.  Nothing is said of a Disputed slot; and the events of the
   run leave out a change of the slot deadline (inside a slot it leaves the commitment
   as it was until a restart works it out with the new one) and a ClosedAuctionSlots
   that becomes smaller. *)
SlotsTellForgers ==
  UpToDate =>
    \A n \in stats.sync + 1..Max(SlotBlocks(stats.next.num)) :
      ~Disputed(SlotNum(n)) =>
        \A addr \in Forgers : CanForge(addr, n) <=> ContractCanForge(Contract, addr, n)

(* The contract does not refuse the coordinators that the node works out, which
   stops the Synchronizer, unless the chain moved on after the node looked how long
   it is, or the slot is disputed. *)
RefusedIfMoved ==
  failed /\ Len(hist) = Len(chain) /\ OfChain(Len(hist)) =>
    \E s \in {SlotNum(Len(hist) + 1), SlotNum(Len(hist) + 1) + 1} : Disputed(s)

\* the address that wins a slot
Winner(c, s) == IF c.slots[s].bid # 0 /\ c.slots[s].bid >= MinBid(c, s) THEN c.forger ELSE c.boot

(* What the API tells of the next forgers is what the contract has for each of the
   closed slots, unless an error kept the last variables from the API. *)
NextForgersTell ==
  UpToDate /\ api.at = LastRow(hist) /\ api.vars = scVars =>
    \A s \in DOMAIN api.next \cap Slots : ~Disputed(s) => api.next[s] = Winner(Contract, s)

\* the pages that are asked for
Requests == [asc : BOOLEAN, min : {1}, max : {3}, limit : {2}, from : {1, 2, 4},
             bidder : {"any", Bidder}]

(* A page of slots has, in their order, the first limit ones of those that a client
   that follows the pages is still to get, each with its best bid, and tells how
   many are left.  The bids of a slot, in their order, end with the one that the
   contract has, with the forger that would forge for it, who is the one that the
   list of coordinators has for the bidder: no registration that was replaced, or
   that a reorg undid, is left. *)
PagesTell ==
  UpToDate =>
    /\ \A s \in Slots :
         LET bids == GetBids(hist, s, "any", AllItems).items
         IN  ValidBids(s, "any") =>
               /\ Contract.slots[s].bid = IF bids = <<>> THEN 0 ELSE Last(bids).amount
               /\ \A i \in DOMAIN bids : bids[i].forger = Contract.forger
               /\ \A i, j \in DOMAIN bids : i < j => bids[i].amount < bids[j].amount
    /\ \A f \in Forgers :
         LET of == ToSet(GetCoordinators(hist, f, AllItems).items)
         IN  {x \in of : x.row.bidder = Bidder} # {} <=> f = Contract.forger
    /\ \A r \in Requests : ValidSlots(r) =>
      LET all  == {s \in r.min..r.max : /\ IF r.asc THEN s >= r.from ELSE s <= r.from
                                        /\ r.bidder = "any" \/ Contract.slots[s].bid # 0}
          page == GetSlots(hist, r)
      IN  all # {} =>
            /\ Len(page.slots) = Min({r.limit, Cardinality(all)})
            /\ \A i \in DOMAIN page.slots :
                 LET s == page.slots[i].num IN
                 /\ s \in all
                 /\ page.slots[i].bid = Contract.slots[s].bid
                 /\ Cardinality({t \in all : IF r.asc THEN t < s ELSE t > s}) = i - 1
            /\ page.pending = Cardinality(all) - Len(page.slots)
=============================================================================
