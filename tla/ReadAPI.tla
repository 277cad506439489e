------------------------------- MODULE ReadAPI -------------------------------
(***************************************************************************)
(* What the API answers from the tables of History: transactions, exits,   *)
(* batches and accounts, filtered and page after page.  Each handler       *)
(* parses the request, makes one query and returns its rows, so that a     *)
(* reader sees the tables between two blocks.                              *)
(*                                                                         *)
(* The owner of an account stands for its Ethereum address and for its     *)
(* key.  A NULL of a request is Anyone, or 0 where it is a number.            *)
(***************************************************************************)
EXTENDS History, Pages

CONSTANT PageLimits   \* the limits that are asked for, at most 2049

ASSUME ReadAPIAssumption == PageLimits \subseteq 1..2049

Anyone == "any"

-----------------------------------------------------------------------------
(* Transactions.  A handler refuses filters that do not go together. *)

BadRequest == [items |-> <<>>, pending |-> 0, refused |-> TRUE]
OK(page) == [items |-> page.items, pending |-> page.pending, refused |-> FALSE]

\* ParseHistoryTxsFilters of a request that filters nothing
NoFilter == [addr |-> Anyone, fromAddr |-> Anyone, toAddr |-> Anyone,
             bjj |-> Anyone, fromBjj |-> Anyone, toBjj |-> Anyone,
             idx |-> 0, fromIdx |-> 0, toIdx |-> 0, batch |-> 0, pending |-> FALSE]

\* HistoryTxsFiltersStructValidation
ByAddr(q) == {q.addr, q.fromAddr, q.toAddr} # {Anyone}
ByBjj(q) == {q.bjj, q.fromBjj, q.toBjj} # {Anyone}
ByIdx(q) == {q.idx, q.fromIdx, q.toIdx} # {0}
ValidTxsFilters(q) == ~(ByAddr(q) /\ ByBjj(q)) /\ ~(ByIdx(q) /\ (ByAddr(q) \/ ByBjj(q)))

AddrOf(idx) == IF idx = 0 THEN NoOwner ELSE Owner(idx)

\* The keys of a request for both sides change places in the query.
TxWhereFrom(q, r, from) ==
  LET swap == q.fromBjj # Anyone /\ q.toBjj # Anyone
      to   == ToIdx(r)
  IN  /\ Sides(AddrOf(from), AddrOf(to), Anyone, q.addr, q.fromAddr, q.toAddr)
      /\ Sides(AddrOf(from), AddrOf(to), Anyone, q.bjj,
               IF swap THEN q.toBjj ELSE q.fromBjj, IF swap THEN q.fromBjj ELSE q.toBjj)
      /\ Sides(from, to, 0, q.idx, q.fromIdx, q.toIdx)
      /\ q.batch \in {0, r.batch}
      /\ q.pending \/ r.batch # 0

\* (mutant) the account that the transaction was sent with, none if it creates one
TxWhere_Sent(q, r) == TxWhereFrom(q, r, IF r.tx = <<>> THEN r.eff ELSE r.tx.from)
TxWhere(q, r) == TxWhereFrom(q, r, r.eff)

\* MarshalJSON: nothing has had an effect before it is forged
TxAPI(r) == [user |-> r.user, tx |-> r.tx, from |-> r.eff, to |-> ToIdx(r), batch |-> r.batch,
             pos |-> r.pos, amountSuccess |-> r.batch # 0 /\ r.ok]

GetTxsAPI(d, q, p) ==
  LET page == Page(Items(d.txs, LAMBDA r : TxWhere(q, r)), p)
  IN  [page EXCEPT !.items = [i \in DOMAIN @ |-> [item |-> @[i].item, row |-> TxAPI(@[i].row)]]]

getHistoryTxs(d, q, p) == IF ValidTxsFilters(q) THEN OK(GetTxsAPI(d, q, p)) ELSE BadRequest

GetTxAPI(d, tx) == {TxAPI(r) : r \in {r \in ToSet(d.txs) : r.user /\ r.tx = tx}}

-----------------------------------------------------------------------------
(* Exits. *)

\* (mutant) an exit is no longer pending when the WithdrawalDelayer has it
ExitWhere_Requested(q, x) ==
  /\ q.addr \in {Anyone, Owner(x.idx)}
  /\ q.onlyPending => x.w = NoWithdrawal

ExitWhere(q, x) ==
  /\ q.addr \in {Anyone, Owner(x.idx)}
  /\ q.idx \in {0, x.idx}
  /\ q.batch \in {0, x.batch}
  /\ q.onlyPending => x.w.instant = 0 /\ x.w.withdrawn = 0

\* ParseExitsFilters and ExitsFiltersStructValidation
PendingOf(o) == [addr |-> o, idx |-> 0, batch |-> 0, onlyPending |-> TRUE]
ValidExitsFilters(q) == ~(q.idx # 0 /\ q.addr # Anyone)

GetExitsAPI(d, q, p) == Page(Items(d.exits, LAMBDA x : ExitWhere(q, x)), p)
getExits(d, q, p) == IF ValidExitsFilters(q) THEN OK(GetExitsAPI(d, q, p)) ELSE BadRequest

GetExitAPI(d, batch, idx) == {x \in ToSet(d.exits) : x.batch = batch /\ x.idx = idx}

-----------------------------------------------------------------------------
(* Batches and accounts. *)

\* the batches have the numbers of their places
BatchAPI(d, b) == [num |-> b, l1Num |-> d.batches[b].forgeL1,
                   accounts |-> d.batches[b].created,
                   forgedTxs |-> Len(SelectSeq(d.txs, LAMBDA r : r.batch = b))]
GetBatchesAPI(d, q, p) ==
  Page(SelectSeq([b \in DOMAIN d.batches |-> [item |-> b, row |-> BatchAPI(d, b)]],
                 LAMBDA x : /\ q.min = 0 \/ x.row.num > q.min
                            /\ q.max = 0 \/ x.row.num < q.max), p)

\* getFullBatch: a batch and its transactions
getFullBatch(d, b) ==
  [batch |-> BatchAPI(d, b),
   txs   |-> GetTxsAPI(d, [NoFilter EXCEPT !.batch = b], [AllItems EXCEPT !.limit = 2048]).items]

\* the handlers of batches and of accounts refuse nothing that is modelled
getBatches(d, q, p) == OK(GetBatchesAPI(d, q, p))

\* an account with the batch of its last update, which has its nonce and balance;
\* one without an update would not be listed
UpdatesOf(d, idx) == SelectSeq(d.updates, LAMBDA u : u.idx = idx)
AccountAPI(d, idx) == [idx |-> idx, created |-> d.accounts[idx], updated |-> Last(UpdatesOf(d, idx)).batch]
GetAccountsAPI(d, addr, p) ==
  Page(SelectSeq([idx \in DOMAIN d.accounts |-> [item |-> idx, row |->
                    IF UpdatesOf(d, idx) = <<>> THEN <<>> ELSE AccountAPI(d, idx)]],
                 LAMBDA x : x.row # <<>> /\ addr \in {Anyone, Owner(x.item)}), p)

-----------------------------------------------------------------------------
(* Properties. *)

Idxs == 1..Synced.lastIdx
Owners == {Owner(i) : i \in Idxs}

\* what happened to an account, newest first
Acts(f, i) == f.eff = i \/ ToIdx(f) = i
ChainOf(i) == Reverse(SelectSeq(Synced.forged, LAMBDA f : Acts(f, i)))

\* By account, by address and by key, for the sender, the receiver or both.
TxsRequests ==
  {[NoFilter EXCEPT !.fromIdx = i, !.toIdx = 1] : i \in Idxs}
  \cup {[NoFilter EXCEPT !.fromAddr = o, !.toAddr = p] : o, p \in Owners \cup {Anyone}}
  \cup {[NoFilter EXCEPT !.fromBjj = o, !.toBjj = p] : o, p \in Owners \cup {Anyone}}

AsksFor(q, f) ==
  /\ q.fromIdx \in {0, f.eff} /\ q.toIdx \in {0, ToIdx(f)}
  /\ {q.fromAddr, q.fromBjj} \subseteq {Anyone, AddrOf(f.eff)}
  /\ {q.toAddr, q.toBjj} \subseteq {Anyone, AddrOf(ToIdx(f))}

\* GetTxsAPI puts the two keys into the query in the wrong order.
KeysChangePlaces(q) == Anyone \notin {q.fromBjj, q.toBjj} /\ q.fromBjj # q.toBjj

\* A client that follows the pages of an account, however long they are, gets
\* what the chain did with it, each transaction once and in its order, and so it
\* does for a batch as a whole; a request for the sender, the receiver or both, by
\* account, address or key, counts those that have what it asks for, and one
\* transaction is told to have had no effect until it is forged.  It holds after any
\* reorg: the account that a transaction creates goes with the batch and comes back
\* with another number.
\* Nothing is said of a request for two different keys, which is answered with those
\* of the other direction (KeysChangePlaces).
AccountsTell ==
  Settled =>
    /\ \A i \in Idxs, limit \in PageLimits :
         LET Ask(p) == getHistoryTxs(db, [NoFilter EXCEPT !.idx = i], p)
             got    == Rows(Walk(Ask, FALSE, limit, Len(db.txs) + 1))
         IN  /\ Len(got) = Len(ChainOf(i))
             /\ \A n \in DOMAIN got : <<got[n].batch, got[n].pos>> = <<ChainOf(i)[n].batch, ChainOf(i)[n].pos>>
    /\ \A q \in TxsRequests :
         LET got == getHistoryTxs(db, q, AllItems)
         IN  ~got.refused /\ ~KeysChangePlaces(q) =>
               Len(got.items) = Cardinality({n \in DOMAIN Synced.forged : AsksFor(q, Synced.forged[n])})
    /\ \A b \in 1..Synced.batches :
         LET full == getFullBatch(db, b)
             of   == SelectSeq(Synced.forged, LAMBDA f : f.batch = b)
         IN  /\ full.batch.forgedTxs = Len(of) /\ Len(full.txs) = Len(of)
             /\ \A n \in DOMAIN of : full.txs[n].row.from = of[n].eff /\ full.txs[n].row.pos = n - 1
    /\ \A q \in DOMAIN Synced.queues : \A t \in ToSet(Synced.queues[q]) :
         \A got \in GetTxAPI(db, t) :
           got.amountSuccess => \E f \in ToSet(Synced.forged) : f.tx = t /\ (f.ok \/ t \in reverted)
    /\ LET batches == Rows(getBatches(db, [min |-> 0, max |-> 0], AllItems).items)
       IN  FoldLeft(LAMBDA n, b : n + b.accounts, 0, batches) = Synced.lastIdx
    /\ LET accounts == Rows(GetAccountsAPI(db, Anyone, AllItems).items)
       IN  /\ Len(accounts) = Synced.lastIdx
           /\ \A i \in Idxs : accounts[i].updated =
                Max({f.batch : f \in {f \in ToSet(Synced.forged) : Acts(f, i)}})

\* What the API tells of each exit is what the contracts have done with it:
\* withdrawn, asked of the WithdrawalDelayer, taken from there, and in which block.
\* onlyPendingWithdraws lists to each owner, page after page, the exits whose money
\* is still in the contracts, those that wait in the WithdrawalDelayer among them.
\* It may not be so where a reorg undid the request: Reorg leaves the owner set.
Undone(x) == x.w.request = 0 /\ x.owner # NoOwner
ExitsTell ==
  Settled =>
    /\ Len(db.exits) = Len(Synced.exits)
    /\ \A y \in ToSet(Synced.exits), x \in ToSet(db.exits) :
         x \in GetExitAPI(db, y.batch, y.idx) => x.w = y.w \/ Undone(x)
    /\ \A o \in Owners, limit \in PageLimits :
         LET Ask(p) == getExits(db, PendingOf(o), p)
             got    == Rows(Walk(Ask, TRUE, limit, Len(db.exits) + 1))
             left   == SelectSeq(Synced.exits, LAMBDA x : /\ Owner(x.idx) = o
                                                          /\ x.w.instant = 0 /\ x.w.withdrawn = 0)
         IN  (\A x \in ToSet(db.exits) : ~Undone(x)) =>
               /\ Len(got) = Len(left)
               /\ \A i \in DOMAIN got : got[i].idx = left[i].idx /\ got[i].batch = left[i].batch
=============================================================================
