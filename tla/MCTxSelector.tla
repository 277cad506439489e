----------------------------- MODULE MCTxSelector -----------------------------
(* Small worlds for TxSelector: three accounts of two tokens, and clients that   *)
(* send three single transactions, change them, or send atomic groups; and       *)
(* accounts of three tokens, one more than there are accounts for fees.          *)
EXTENDS TxSelector

CONSTANTS t1, t2, t3, alice, bob, carl, dave, coord, k1, k2, k3, kc, none

KeyOfCarl == carl :> k3

Account(token, deposit, eth, bjj) ==
    [L1CoordinatorTx(token, eth, bjj) EXCEPT !.userOrigin = TRUE, !.deposit = deposit]

DBWith(l1Txs) == FoldLeft(ProcessL1Tx, NewTxProcessor("Synchronizer", EmptyDB), l1Txs).db

\* Accounts 2, 3 and 4, without and with an account of the coordinator for the first token.
Accounts == <<Account(t1, 6, alice, k1), Account(t1, 0, bob, k2), Account(t2, 2, alice, k1)>>
Three == DBWith(Accounts)
WithCoord == DBWith(Append(Accounts, Account(t1, 0, coord, kc)))

\* The API has seen the same accounts, or two more that a reorg has taken back.
AsNow(db) == [db |-> db, accounts |-> db.account]
Reorged(db) ==
    [db |-> db,
     accounts |-> FoldLeft(LAMBDA accounts, i : Put(accounts, i, accounts[3]), db.account, <<8, 9>>)]

\* A reorg has made the second and the third account the other way round.
TheOtherWay == [db |-> DBWith(<<Accounts[1], Accounts[3], Accounts[2]>>), accounts |-> Three.account]
Used(db) == [db EXCEPT !.account[2].nonce = 1]

KeyOf(idx) == IF idx \in {2, 4} THEN k1 ELSE k2

Tx0(from, nonce, to, toEth, toBJJ) ==
    [id |-> NoTxID, type |-> NoType, state |-> "pend", from |-> from, nonce |-> nonce, to |-> to,
     auxTo |-> NoIdx, toEth |-> toEth, toBJJ |-> toBJJ, token |-> IF from = 4 THEN t2 ELSE t1,
     amount |-> 2, fee |-> 0, absoluteFee |-> 1, maxNumBatch |-> 0, group |-> NoGroup,
     rqOffset |-> 0, rq |-> NoRq, sig |-> <<>>, externalDelete |-> FALSE,
     effectiveFrom |-> <<>>, effectiveTo |-> <<>>]

Paying(txs) == {[tx EXCEPT !.fee = 1, !.absoluteFee = 2] : tx \in txs}

ToOthers(nonce) == {Tx0(2, nonce, 3, NoAddr, NoBJJ), Tx0(2, nonce, NoIdx, carl, NoBJJ)}
OfAlice(nonce) == ToOthers(nonce) \cup {Tx0(2, nonce, NoIdx, FFAddr, k1)}

Limited(tx) == [tx EXCEPT !.maxNumBatch = NextBatch - 1]

Singles ==
    OfAlice(0) \cup Paying(ToOthers(0)) \cup Paying(ToOthers(1))
    \cup {Tx0(2, 1, NoIdx, dave, NoBJJ), Tx0(2, 0, 9, NoAddr, NoBJJ),
          Tx0(3, 0, ExitIdx, NoAddr, NoBJJ), Tx0(3, 0, NoIdx, carl, NoBJJ),
          Tx0(4, 0, ExitIdx, NoAddr, NoBJJ), Tx0(4, 0, NoIdx, carl, NoBJJ),
          Tx0(8, 0, ExitIdx, NoAddr, NoBJJ),
          [Tx0(3, 0, 2, NoAddr, NoBJJ) EXCEPT !.absoluteFee = 3],
          Limited(Tx0(2, 0, 3, NoAddr, NoBJJ))}

Sign(tx) == Signed(tx, KeyOf(tx.from))
Post(tx) == [kind |-> "post", tx |-> Sign(tx)]
PutTx(tx, signed) == [kind |-> "put", id |-> TxID(tx), tx |-> [Sign(tx) EXCEPT !.sig = Sign(signed).sig]]
Replace(tx) == [kind |-> "replace", idx |-> tx.from, nonce |-> tx.nonce, tx |-> Sign(tx)]

Group(txs, offsets) ==
    LET atomic(i) == [txs[i] EXCEPT !.rqOffset = offsets[i]]
        at(i) == i + RelativePosition(offsets[i])
        bodies == [i \in DOMAIN txs |->
                      Sign([atomic(i) EXCEPT !.rq = IF at(i) \in DOMAIN txs THEN Wanted(txs[at(i)])
                                                    ELSE NoRq])]
    IN  [kind |-> "atomic", group |-> AtomicGroupID(bodies), txs |-> bodies]

\* Two transactions that ask for each other; offset 2 is a bad one.
Pair(a, b, offset) == Group(<<a, b>>, <<offset, 7>>)

\* The third asks for the first, or a pair and a third that depends on it.
Triple(a, b, c) == Group(<<a, b, c>>, <<1, 1, 6>>)
NotOne(a, b, c) == Group(<<a, b, c>>, <<1, 7, 6>>)

Delete(tx) == [kind |-> "delete", ids |-> {TxID(tx)}]

First == ToOthers(0)
Second == {Tx0(3, 0, 2, NoAddr, NoBJJ), Tx0(4, 0, NoIdx, carl, NoBJJ),
           Tx0(4, 0, ExitIdx, NoAddr, NoBJJ)}
Third == [Tx0(2, 1, 3, NoAddr, NoBJJ) EXCEPT !.absoluteFee = 3]

\* Requests that the API refuses.
Wrong ==
    {[Post(Tx0(2, 0, 3, NoAddr, NoBJJ)) EXCEPT !.tx.sig.by = k2],
     [Post(Tx0(3, 0, 2, NoAddr, NoBJJ)) EXCEPT !.tx.type = "Exit"],
     [Post(Tx0(2, 0, 3, NoAddr, NoBJJ)) EXCEPT !.tx.amount = 1],
     Post([Tx0(2, 0, 3, NoAddr, NoBJJ) EXCEPT !.token = t2]),
     Post(Tx0(2, 0, NoIdx, bob, k2)), Post(Tx0(2, 0, 4, NoAddr, NoBJJ)),
     Post([Tx0(3, 0, ExitIdx, NoAddr, NoBJJ) EXCEPT !.amount = 0]),
     Post([Tx0(3, 0, 2, NoAddr, NoBJJ) EXCEPT !.absoluteFee = MaxFee + 1])}

Requests ==
    {[i \in DOMAIN txs |-> Post(txs[i])] : txs \in {SetToSeq(S) : S \in kSubset(3, Singles)}}
    \cup {<<Post(tx), Pair(a, b, o)>> : tx \in Singles, a \in First, b \in Second, o \in {1, 2}}
    \cup {<<Pair(a, b, 1), Pair(c, d, 1)>> :
             a \in First, b \in Second, c \in Paying(First), d \in Paying(Second)}
    \cup UNION {{<<Post(a), PutTx(b, c), Post(d)>> :
             b \in OfAlice(0) \cup {Limited(a)}, c \in OfAlice(0) \cup {Limited(a)}, d \in Second} :
             a \in OfAlice(0)}
    \cup {<<Post(a), Post(b), Replace(c), Post(d)>> :
             a \in OfAlice(0), b \in Paying(OfAlice(0)), c \in OfAlice(0) \cup Paying(First), d \in Second}
    \cup {<<g, Delete(d)>> : d \in First \cup Second \cup {Third},
             g \in UNION {{Triple(a, b, Third), NotOne(a, b, Third)} : a \in First, b \in Second}}
    \cup {<<w, Post(a), Post(b)>> : w \in Wrong, a \in First, b \in Second}

\* Accounts 2, 4 and 5 have three tokens, and the coordinator accounts for two of them.
ThreeTokens == DBWith(<<Accounts[1], Accounts[2], Accounts[3], Account(t3, 2, bob, k2),
                        Account(t1, 0, coord, kc), Account(t2, 0, coord, kc)>>)

OfThreeTokens ==
    {<<Post(Tx0(2, 0, 3, NoAddr, NoBJJ)), Post(tx), Post([Tx0(5, 0, ExitIdx, NoAddr, NoBJJ) EXCEPT !.token = t3])>> :
        tx \in {Tx0(4, 0, ExitIdx, NoAddr, NoBJJ), Tx0(2, 1, ExitIdx, NoAddr, NoBJJ)}}

WorldOf(at, requests) ==
    [db |-> at.db, accounts |-> at.accounts, l1UserTxs |-> at.l1UserTxs,
     l1UserFutureTxs |-> at.l1UserFutureTxs, requests |-> requests]

\* What the contract has queued: nothing, or an account of carl.
Queued(seen, l1UserTxs, l1UserFutureTxs) ==
    [db |-> seen.db, accounts |-> seen.accounts, l1UserTxs |-> l1UserTxs,
     l1UserFutureTxs |-> l1UserFutureTxs]
OfCarl == Account(t1, 2, carl, k3)
LaterOfCarl == {{}, {Account(t2, 2, carl, k3)}}

Situations ==
    {Queued(AsNow(Three), l1, future) : l1 \in {<<>>, <<OfCarl>>}, future \in LaterOfCarl}
    \cup {Queued(Reorged(Three), <<>>, future) : future \in LaterOfCarl}
    \cup {Queued(seen, <<>>, {}) : seen \in {TheOtherWay, AsNow(Used(Three)), AsNow(WithCoord)}}

SomeWorlds ==
    {WorldOf(at, requests) : at \in Situations, requests \in Requests}
    \cup {WorldOf(Queued(AsNow(ThreeTokens), <<>>, {}), requests) : requests \in OfThreeTokens}
=============================================================================
