----------------------------- MODULE KVDBProof -----------------------------
(***************************************************************************)
(* Proofs about the synchronizer's state database, for any number of local *)
(* databases, batches, versions of a batch, resets and crashes, and any    *)
(* number of checkpoints to keep: it is the store of CheckpointStore.      *)
(*                                                                         *)
(* IInv is inductive.  It is about the number that the database is at, or  *)
(* is being reset to (At), and the batches up to there (History): every    *)
(* checkpoint that is kept has them up to its number, no other one is left *)
(* above, and the deletions that wait are of checkpoints older than any    *)
(* reset goes back to.  The local databases do nothing to it, but that a   *)
(* copy makes an empty checkpoint where it finds its source removed.       *)
(***************************************************************************)
EXTENDS KVDB, NumberFacts, SequenceTheorems

N    == Numbers(Sync)
Pc   == op[Sync].pc
Boot == op[Sync].boot

At ==
  CASE Pc \in {"down", "open"} -> cur[Sync].num
    [] Pc = "store"            -> cur[Sync].num - 1
    [] OTHER                   -> op[Sync].n

History == IF Pc \in {"open", "store"} THEN cur[Sync].txs ELSE StoredAt(At)

\* a start goes to a checkpoint that is there, or from the first batch
Whole == Pc = "down" \/ Boot => At = 0 \/ At \in N

Recent(n) == Keep = 0 \/ n > top[Sync] - Keep

-----------------------------------------------------------------------------
(* The invariant. *)

NumbersFit ==
  /\ \A k \in N : k >= 1 /\ (cks[Sync][k] = Empty \/ (cks[Sync][k].num = k /\ Len(cks[Sync][k].txs) = k))
  /\ (Pc # "down" /\ ~Boot) \/ At > 0 => \A k \in N : k <= top[Sync]
  /\ Pc # "down" \/ At > 0 => Recent(At)
  /\ top[Sync] >= 0

\* the checkpoints up to At are of one history, and none is missing that is kept
BelowFits ==
  Whole => \A k \in 1..At :
             /\ k \in N => cks[Sync][k] = Empty \/ cks[Sync][k].txs = SubSeq(History, 1, k)
             /\ Recent(k) => k \in N /\ cks[Sync][k] # Empty

\* of a history that was undone nothing is left
AboveFits ==
  Pc \notin {"down", "closed"} =>
    \A k \in N : k > At =>
      \/ cks[Sync][k] = Empty /\ ~Boot
      \/ Pc = "delete" /\ k \in op[Sync].list

\* where the owner is, and what it has
OwnerFits ==
  /\ At <= MaxBatch
  /\ Pc = "down" => op[Sync] = Idle("down") /\ (At >= 0 \/ cur[Sync] = Missing)
  /\ Pc # "down" => At >= 0
  /\ Pc \in {"open", "closed", "store"} => ~Boot
  /\ Pc \in {"open", "store"} => Len(cur[Sync].txs) <= MaxBatch
  /\ Pc = "open" => Len(cur[Sync].txs) \in {At, At + 1}
  /\ Pc = "store" => Len(cur[Sync].txs) = At + 1
  /\ Pc \in {"closed", "delete"} => cur[Sync] = Missing
  /\ Pc = "delete" => /\ op[Sync].list \subseteq N /\ \A k \in op[Sync].list : k > At
                      /\ op[Sync].copies = <<Copy(Sync, "current"), Copy(Sync, "last")>>
  /\ Pc \in {"next", "found", "copy"} =>
       /\ op[Sync].n >= 1
       /\ op[Sync].copies \in
            {<<Copy(Sync, "current"), Copy(Sync, "last")>>, <<Copy(Sync, "last")>>, <<>>}
       /\ IF Len(op[Sync].copies) = 2 THEN cur[Sync] = Missing
                                      ELSE At \in N /\ cur[Sync] = cks[Sync][At]
       /\ op[Sync].copies = <<>> => Pc = "next" /\ last = cks[Sync][At]
       /\ Pc \in {"found", "copy"} => At \in N
       /\ Pc = "copy" => op[Sync].held = cks[Sync][At]

ReadersFit == Pc = "open" => last.txs = SubSeq(cur[Sync].txs, 1, cur[Sync].num)

\* only what no reset goes back to waits to be deleted
DeletionsFit ==
  /\ \A k \in del[Sync].list : Keep > 0 /\ k >= 1 /\ k <= top[Sync] - Keep
  /\ Pc = "down" \/ Boot => del[Sync] = NoDeletion

\* a local database starts after the synchronizer's, and copies what it found there
LocalFits(d) ==
  /\ Pc = "down" \/ Boot => op[d].pc = "down"
  /\ op[d].boot => Pc = "open"
  /\ op[d].pc \notin {"down", "open", "closed"} =>
       op[d].copies \in {<<>>, <<Copy(d, "current")>>, <<Copy(Sync, "checkpoint"), Copy(d, "current")>>}
  /\ op[d].pc \in {"found", "copy"} => op[d].copies # <<>>
  /\ op[d].pc = "found" /\ Source(d) = Sync => op[d].n >= 1 /\ op[d].n <= top[Sync]

LocalsFit == \A d \in Locals : LocalFits(d)

SyncFits == NumbersFit /\ BelowFits /\ AboveFits /\ OwnerFits /\ ReadersFit /\ DeletionsFit

IInv == TypeOK /\ SyncFits /\ LocalsFit

-----------------------------------------------------------------------------
(* Facts about the operators. *)

LEMMA ConstantTypes ==
  /\ Empty \in Contents /\ Missing \in Contents
  /\ Empty.num = 0 /\ Empty.txs = <<>> /\ Missing.num = -1 /\ Missing.txs = <<>>
  /\ \A pc \in Places : Idle(pc) \in Ops
  /\ \A n \in Int : ClosedAt(n) \in Ops
  /\ Down \in [DBs -> Ops] /\ NoDeletion \in [waiting : Nat, list : SUBSET Int]
<1>1. <<>> \in Seq(Versions) /\ <<>> \in Seq(Copies)
  OBVIOUS
<1>2. Empty \in Contents /\ Missing \in Contents
  BY <1>1 DEF Empty, Missing, Contents
<1>3. \A pc \in Places : Idle(pc) \in Ops
  BY <1>1, <1>2 DEF Idle, Ops
<1>4. \A n \in Int : ClosedAt(n) \in Ops
  <2>1. "closed" \in Places
    BY DEF Places
  <2> QED
    BY <1>3, <2>1 DEF ClosedAt, Ops
<1>5. Down \in [DBs -> Ops]
  <2>1. "down" \in Places
    BY DEF Places
  <2> QED
    BY <1>3, <2>1 DEF Down
<1> QED
  BY <1>2, <1>3, <1>4, <1>5 DEF Empty, Missing, NoDeletion

LEMMA OpsUpdate ==
  ASSUME NEW o \in Ops
  PROVE  /\ \A x \in Places : [o EXCEPT !.pc = x] \in Ops
         /\ \A x \in Int : [o EXCEPT !.n = x] \in Ops
         /\ \A x \in SUBSET Int : [o EXCEPT !.list = x] \in Ops
         /\ \A x \in Seq(Copies) : [o EXCEPT !.copies = x] \in Ops
         /\ \A x \in Contents : [o EXCEPT !.held = x] \in Ops
         /\ [o EXCEPT !.boot = TRUE] \in Ops
         /\ [o EXCEPT !.make = TRUE] \in Ops
<1>1. \A x \in Places : [o EXCEPT !.pc = x] \in Ops
  BY DEF Ops
<1>2. \A x \in Int : [o EXCEPT !.n = x] \in Ops
  BY DEF Ops
<1>3. \A x \in SUBSET Int : [o EXCEPT !.list = x] \in Ops
  BY DEF Ops
<1>4. \A x \in Seq(Copies) : [o EXCEPT !.copies = x] \in Ops
  BY DEF Ops
<1>5. \A x \in Contents : [o EXCEPT !.held = x] \in Ops
  BY DEF Ops
<1>6. [o EXCEPT !.boot = TRUE] \in Ops
  BY DEF Ops
<1>7. [o EXCEPT !.make = TRUE] \in Ops
  BY DEF Ops
<1> QED
  BY <1>1, <1>2, <1>3, <1>4, <1>5, <1>6, <1>7

-----------------------------------------------------------------------------
(* Types. *)

CksTyped == /\ DOMAIN cks = DBs
            /\ \A d \in DBs : Numbers(d) \subseteq Int /\ \A n \in Numbers(d) : cks[d][n] \in Contents

MemoryTyped == /\ last \in Contents /\ op \in [DBs -> Ops]
               /\ del \in [DBs -> [waiting : Nat, list : SUBSET Int]]
               /\ locked \in [DBs -> BOOLEAN]

LEMMA ExitTyped == Exit => MemoryTyped'
BY ConstantTypes DEF Exit, MemoryTyped

LEMMA FailTyped ==
  ASSUME NEW d \in DBs, NEW h, TypeOK, Fail(d, h)
  PROVE  MemoryTyped'
<1>1. CASE op[d].boot
  BY <1>1, ExitTyped DEF Fail
<1>2. CASE ~op[d].boot
  <2>1. op[d].n \in Int
    BY DEF TypeOK, Ops
  <2>2. op' \in [DBs -> Ops]
    BY <1>2, <2>1, ConstantTypes DEF Fail, TypeOK
  <2>3. last' \in Contents
    BY <1>2, ConstantTypes DEF Fail, TypeOK
  <2>4. locked' \in [DBs -> BOOLEAN] /\ del' = del
    BY <1>2 DEF Fail, TypeOK
  <2> QED
    BY <2>2, <2>3, <2>4 DEF MemoryTyped, TypeOK
<1> QED
  BY <1>1, <1>2

LEMMA BeginTyped ==
  ASSUME NEW d \in DBs, NEW o \in Ops, TypeOK, BeginReset(d, o)
  PROVE  MemoryTyped' /\ cur' \in [DBs -> Contents]
<1>1. cur' \in [DBs -> Contents]
  BY ConstantTypes DEF BeginReset, TypeOK
<1>2. CASE HasGap(d) /\ o.boot
  BY <1>1, <1>2, ExitTyped DEF BeginReset
<1>3. CASE HasGap(d) /\ ~o.boot
  <2>1. o.n \in Int
    BY DEF Ops
  <2>2. op' \in [DBs -> Ops] /\ UNCHANGED <<last, del, locked>>
    BY <1>3, <2>1, ConstantTypes DEF BeginReset, TypeOK
  <2> QED
    BY <1>1, <2>2 DEF MemoryTyped, TypeOK
<1>4. CASE ~HasGap(d)
  <2>2. op' \in [DBs -> Ops] /\ UNCHANGED <<last, del, locked>>
    BY <1>4 DEF BeginReset, TypeOK
  <2> QED
    BY <1>1, <2>2 DEF MemoryTyped, TypeOK
<1> QED
  BY <1>2, <1>3, <1>4

LEMMA TypedParts ==
  TypeOK <=> /\ CksTyped /\ MemoryTyped
             /\ cur \in [DBs -> Contents] /\ top \in [DBs -> Int]
BY DEF TypeOK, CksTyped, MemoryTyped

LEMMA RemovedTyped ==
  ASSUME NEW d \in DBs, NEW n, TypeOK, cks' = [cks EXCEPT ![d] = Without(@, n)]
  PROVE  CksTyped'
<1>1. DOMAIN cks' = DBs /\ \A e \in DBs \ {d} : cks'[e] = cks[e]
  BY DEF TypeOK
<1>2. cks'[d] = Without(cks[d], n)
  BY DEF TypeOK
<1>3. ASSUME NEW e \in DBs
      PROVE  DOMAIN cks'[e] \subseteq Int /\ \A m \in DOMAIN cks'[e] : cks'[e][m] \in Contents
  <2>1. DOMAIN cks[e] \subseteq Int /\ \A m \in DOMAIN cks[e] : cks[e][m] \in Contents
    BY DEF TypeOK, Numbers
  <2>2. CASE e = d
    BY <1>2, <2>1, <2>2 DEF Without
  <2>3. CASE e # d
    BY <1>1, <2>1, <2>3
  <2> QED
    BY <2>2, <2>3
<1> QED
  BY <1>1, <1>3 DEF CksTyped, Numbers

LEMMA AddedTyped ==
  ASSUME NEW d \in DBs, NEW n \in Int, NEW c \in Contents, TypeOK,
         cks' = [cks EXCEPT ![d] = With(@, n, c)]
  PROVE  CksTyped'
<1>1. DOMAIN cks' = DBs /\ \A e \in DBs \ {d} : cks'[e] = cks[e]
  BY DEF TypeOK
<1>2. cks'[d] = With(cks[d], n, c)
  BY DEF TypeOK
<1>3. ASSUME NEW e \in DBs
      PROVE  DOMAIN cks'[e] \subseteq Int /\ \A m \in DOMAIN cks'[e] : cks'[e][m] \in Contents
  <2>1. DOMAIN cks[e] \subseteq Int /\ \A m \in DOMAIN cks[e] : cks[e][m] \in Contents
    BY DEF TypeOK, Numbers
  <2>2. CASE e = d
    <3> HIDE DEF Contents
    <3>1. DOMAIN cks'[e] = DOMAIN cks[e] \cup {n}
      BY <1>2, <2>2 DEF With
    <3>2. \A m \in DOMAIN cks[e] \ {n} : cks'[e][m] = cks[e][m]
      BY <1>2, <2>2 DEF With
    <3>3. cks'[e][n] = c
      BY <1>2, <2>2 DEF With
    <3> QED
      BY <2>1, <3>1, <3>2, <3>3
  <2>3. CASE e # d
    BY <1>1, <2>1, <2>3
  <2> QED
    BY <2>2, <2>3
<1> QED
  BY <1>1, <1>3 DEF CksTyped, Numbers

LEMMA UnchangedTyped == TypeOK /\ UNCHANGED cks => CksTyped'
BY DEF TypeOK, CksTyped, Numbers

\* what a copy is from
LEMMA SourceTyped ==
  ASSUME NEW d \in DBs, TypeOK, op[d].copies # <<>>
  PROVE  /\ Source(d) \in DBs /\ Head(op[d].copies) \in Copies /\ Tail(op[d].copies) \in Seq(Copies)
         /\ op[d].n \in Int
<1>1. op[d].copies \in Seq(Copies) /\ op[d].n \in Int
  BY DEF TypeOK, Ops
<1>2. Head(op[d].copies) \in Copies /\ Tail(op[d].copies) \in Seq(Copies)
  BY <1>1
<1> QED
  BY <1>1, <1>2 DEF Source, Copies

LEMMA ResetOps ==
  ASSUME NEW d \in DBs, NEW n \in Int, TypeOK
  PROVE  ResetTo(d, n) \in Ops /\ [ResetTo(d, n) EXCEPT !.boot = TRUE] \in Ops
<1>1. Copy(d, "current") \in Copies /\ Copy(d, "last") \in Copies
  BY DEF Copy, Copies
<1>2. ResetCopies(d) \in Seq(Copies)
  BY <1>1 DEF ResetCopies
<1>3. Above(d, n) \in SUBSET Int
  BY DEF Above, TypeOK
<1>4. Idle("delete") \in Ops
  BY ConstantTypes DEF Places
<1>5. [Idle("delete") EXCEPT !.n = n] \in Ops
  BY <1>4, OpsUpdate
<1>6. [Idle("delete") EXCEPT !.n = n, !.list = Above(d, n)] \in Ops
  BY <1>3, <1>5, OpsUpdate
<1>7. ResetTo(d, n) \in Ops
  BY <1>2, <1>6, OpsUpdate DEF ResetTo
<1> QED
  BY <1>7, OpsUpdate

LEMMA TypesNext ==
  ASSUME TypeOK, OwnerFits, LocalsFit, [Next]_vars
  PROVE  TypeOK'
<1>0. /\ CksTyped /\ MemoryTyped
      /\ cur \in [DBs -> Contents] /\ top \in [DBs -> Int]
  BY TypedParts
<1>1. SUFFICES /\ CksTyped' /\ MemoryTyped'
               /\ cur' \in [DBs -> Contents] /\ top' \in [DBs -> Int]
  BY TypedParts DEF TypeOK, CksTyped, MemoryTyped
<1>2. CASE UNCHANGED vars
  BY <1>0, <1>2, UnchangedTyped DEF vars, MemoryTyped
<1>3. CASE Crash
  BY <1>0, <1>3, UnchangedTyped, ExitTyped DEF Crash
<1>4. ASSUME NEW d \in DBs, NEW v \in Versions, Process(d, v)
      PROVE  CksTyped' /\ MemoryTyped' /\ cur' \in [DBs -> Contents] /\ top' \in [DBs -> Int]
  <2>1. cur[d] \in Contents
    BY DEF TypeOK
  <2>2. Append(cur[d].txs, v) \in Seq(Versions)
    BY <2>1 DEF Contents
  <2>3. cur' \in [DBs -> Contents]
    BY <1>0, <1>4, <2>1, <2>2 DEF Process, Contents
  <2> QED
    BY <1>0, <1>4, <2>3, UnchangedTyped DEF Process, MemoryTyped
<1>5. ASSUME NEW d \in DBs, SetCurrentBatch(d)
      PROVE  CksTyped' /\ MemoryTyped' /\ cur' \in [DBs -> Contents] /\ top' \in [DBs -> Int]
  <2>1. cur' \in [DBs -> Contents]
    <3>1. cur[d] \in Contents
      BY <1>0
    <3>2. [cur[d] EXCEPT !.num = @ + 1] \in Contents
      BY <3>1 DEF Contents
    <3>3. cur' = [cur EXCEPT ![d] = [cur[d] EXCEPT !.num = @ + 1]]
      BY <1>0, <1>5 DEF SetCurrentBatch
    <3> QED
      BY <1>0, <3>2, <3>3
  <2>2. Idle("store") \in Ops
    BY ConstantTypes DEF Places
  <2>3. [Idle("store") EXCEPT !.make = TRUE] \in Ops
    BY <2>2, OpsUpdate
  <2>4. op' \in [DBs -> Ops]
    BY <1>0, <1>5, <2>3 DEF SetCurrentBatch, MemoryTyped
  <2> QED
    BY <1>0, <1>5, <2>1, <2>4, UnchangedTyped DEF SetCurrentBatch, MemoryTyped
<1>6. ASSUME NEW d \in DBs, Checkpoint(d)
      PROVE  CksTyped' /\ MemoryTyped' /\ cur' \in [DBs -> Contents] /\ top' \in [DBs -> Int]
  <2> DEFINE n == cur[d].num
  <2>1. n \in Int /\ cur[d] \in Contents
    BY <1>0 DEF Contents
  <2>2. CksTyped'
    BY <1>0, <1>6, <2>1, AddedTyped DEF Checkpoint, Stored, CksTyped
  <2>3. Copy(d, "last") \in Copies
    BY DEF Copy, Copies
  <2>4. (IF d = Sync THEN <<Copy(d, "last")>> ELSE <<>>) \in Seq(Copies)
    BY <2>3
  <2>5. op[d] \in Ops /\ "next" \in Places
    BY <1>0 DEF MemoryTyped, Places
  <2>6. op' \in [DBs -> Ops]
    BY <1>0, <1>6, <2>1, <2>4, <2>5 DEF Checkpoint, MemoryTyped, Ops
  <2>7. top' \in [DBs -> Int]
    BY <1>0, <1>6, <2>1 DEF Checkpoint
  <2> QED
    BY <1>0, <1>6, <2>2, <2>6, <2>7 DEF Checkpoint, MemoryTyped
<1>7. ASSUME NEW d \in DBs, Finish(d)
      PROVE  CksTyped' /\ MemoryTyped' /\ cur' \in [DBs -> Contents] /\ top' \in [DBs -> Int]
  <2>1. Idle("open") \in Ops
    BY ConstantTypes DEF Places
  <2>2. op' \in [DBs -> Ops]
    BY <1>0, <1>7, <2>1 DEF Finish, MemoryTyped
  <2>3. del' \in [DBs -> [waiting : Nat, list : SUBSET Int]]
    <3>1. del[d] \in [waiting : Nat, list : SUBSET Int]
      BY <1>0 DEF MemoryTyped
    <3>2. [del[d] EXCEPT !.waiting = @ + 1] \in [waiting : Nat, list : SUBSET Int]
      BY <3>1
    <3>3. del' = del \/ del' = [del EXCEPT ![d] = [del[d] EXCEPT !.waiting = @ + 1]]
      BY <1>0, <1>7 DEF Finish, MemoryTyped
    <3> QED
      BY <1>0, <3>2, <3>3 DEF MemoryTyped
  <2> QED
    BY <1>0, <1>7, <2>2, <2>3, UnchangedTyped DEF Finish, MemoryTyped
<1>8. ASSUME NEW d \in DBs, FindSource(d)
      PROVE  CksTyped' /\ MemoryTyped' /\ cur' \in [DBs -> Contents] /\ top' \in [DBs -> Int]
  <2>1. CASE op[d].n \in Numbers(Source(d))
    <3>1. "found" \in Places /\ op[d] \in Ops
      BY <1>0 DEF Places, MemoryTyped
    <3>2. [op[d] EXCEPT !.pc = "found"] \in Ops
      BY <3>1, OpsUpdate
    <3>3. op' \in [DBs -> Ops]
      BY <1>0, <1>8, <2>1, <3>2 DEF FindSource, MemoryTyped
    <3> QED
      BY <1>0, <1>8, <2>1, <3>3, UnchangedTyped DEF FindSource, MemoryTyped
  <2>2. CASE op[d].n \notin Numbers(Source(d))
    BY <1>0, <1>8, <2>2, FailTyped, UnchangedTyped DEF FindSource
  <2> QED
    BY <2>1, <2>2
<1>9. ASSUME NEW d \in DBs, OpenSource(d)
      PROVE  CksTyped' /\ MemoryTyped' /\ cur' \in [DBs -> Contents] /\ top' \in [DBs -> Int]
  <2> DEFINE src == Source(d)
             n == op[d].n
  <2>1. op[d].copies # <<>>
    <3>1. CASE d = Sync
      <4>1. op[Sync].copies = <<>> => Pc = "next"
        BY <1>9, <3>1 DEF OpenSource, OwnerFits, Pc
      <4> QED
        BY <1>9, <3>1, <4>1 DEF OpenSource, Pc
    <3>2. CASE d \in Locals
      BY <1>9, <3>2 DEF OpenSource, LocalsFit, LocalFits
    <3> QED
      BY <3>1, <3>2 DEF DBs
  <2>2. src \in DBs /\ n \in Int
    BY <2>1, SourceTyped
  <2>3. CksTyped'
    <3>1. CASE n \in Numbers(src)
      BY <1>9, <3>1, UnchangedTyped DEF OpenSource
    <3>2. CASE n \notin Numbers(src)
      BY <1>9, <2>2, <3>2, AddedTyped, ConstantTypes DEF OpenSource
    <3> QED
      BY <3>1, <3>2
  <2>4. cks'[src][n] \in Contents
    <3>1. CASE n \in Numbers(src)
      BY <1>0, <1>9, <2>2, <3>1 DEF OpenSource, CksTyped
    <3>2. CASE n \notin Numbers(src)
      <4>1. cks' = [cks EXCEPT ![src] = With(@, n, Empty)]
        BY <1>9, <3>2 DEF OpenSource
      <4>2. cks'[src] = With(cks[src], n, Empty)
        BY <1>0, <2>2, <4>1 DEF CksTyped
      <4> QED
        BY <4>2, ConstantTypes DEF With
    <3> QED
      BY <3>1, <3>2
  <2>5. op[d] \in Ops /\ "copy" \in Places
    BY <1>0 DEF MemoryTyped, Places
  <2>6. op' \in [DBs -> Ops]
    BY <1>0, <1>9, <2>4, <2>5 DEF OpenSource, MemoryTyped, Ops
  <2>7. locked' \in [DBs -> BOOLEAN]
    BY <1>0, <1>9 DEF OpenSource, MemoryTyped
  <2> QED
    BY <1>0, <1>9, <2>3, <2>6, <2>7 DEF OpenSource, MemoryTyped
<1>10. ASSUME NEW d \in DBs, CopySource(d)
       PROVE  CksTyped' /\ MemoryTyped' /\ cur' \in [DBs -> Contents] /\ top' \in [DBs -> Int]
  <2> DEFINE src == Source(d)
             n == op[d].n
             good == n \in Numbers(src) /\ cks[src][n] = op[d].held
  <2>1. op[d].copies # <<>>
    <3>1. CASE d = Sync
      <4>1. op[Sync].copies = <<>> => Pc = "next"
        BY <1>10, <3>1 DEF CopySource, OwnerFits, Pc
      <4> QED
        BY <1>10, <3>1, <4>1 DEF CopySource, Pc
    <3>2. CASE d \in Locals
      BY <1>10, <3>2 DEF CopySource, LocalsFit, LocalFits
    <3> QED
      BY <3>1, <3>2 DEF DBs
  <2>2. src \in DBs /\ n \in Int /\ Tail(op[d].copies) \in Seq(Copies)
    BY <2>1, SourceTyped
  <2>3. op[d].held \in Contents /\ op[d] \in Ops /\ "next" \in Places
    BY <1>0 DEF MemoryTyped, Ops, Places
  <2>4. CASE good
    <3>1. cur' \in [DBs -> Contents] /\ last' \in Contents
      BY <1>0, <1>10, <2>3, <2>4 DEF CopySource, MemoryTyped
    <3>2. op' \in [DBs -> Ops]
      <4> DEFINE t == Tail(op[d].copies)
                 p == [op[d] EXCEPT !.pc = "next"]
                 q == [p EXCEPT !.copies = t]
                 o == [q EXCEPT !.held = Missing]
      <4>1. o \in Ops
        <5>1. t \in Seq(Copies)
          BY <2>2
        <5> HIDE DEF t
        <5>2. p \in Ops
          BY <2>3, OpsUpdate
        <5> HIDE DEF p
        <5>3. q \in Ops
          BY <5>1, <5>2, OpsUpdate
        <5> HIDE DEF q
        <5> QED
          BY <5>3, ConstantTypes, OpsUpdate
      <4>2. op' = [op EXCEPT ![d] = o]
        BY <1>0, <1>10, <2>4 DEF CopySource, MemoryTyped
      <4> HIDE DEF o
      <4> QED
        BY <1>0, <4>1, <4>2 DEF MemoryTyped
    <3>3. CksTyped'
      <4>1. cks' = cks \/ cks' = [cks EXCEPT ![d] = With(@, n, op[d].held)]
        BY <1>10, <2>4 DEF CopySource
      <4> QED
        BY <2>2, <2>3, <4>1, UnchangedTyped, AddedTyped
    <3>4. locked' \in [DBs -> BOOLEAN] /\ UNCHANGED <<del, top>>
      BY <1>0, <1>10, <2>4 DEF CopySource, MemoryTyped
    <3> QED
      BY <1>0, <3>1, <3>2, <3>3, <3>4 DEF MemoryTyped
  <2>5. CASE ~good
    BY <1>0, <1>10, <2>5, FailTyped, UnchangedTyped DEF CopySource
  <2> QED
    BY <2>4, <2>5
<1>11. ASSUME NEW d \in DBs, NEW n \in 0..MaxBatch, Reset(d, n)
       PROVE  CksTyped' /\ MemoryTyped' /\ cur' \in [DBs -> Contents] /\ top' \in [DBs -> Int]
  <2>0. n \in Int
    OBVIOUS
  <2>1. ResetTo(d, n) \in Ops
    BY <2>0, ResetOps
  <2> QED
    BY <1>0, <1>11, <2>1, BeginTyped, UnchangedTyped DEF Reset
<1>12. ASSUME NEW d \in Locals, NEW n \in 0..MaxBatch, ResetFromSynchronizer(d, n)
       PROVE  CksTyped' /\ MemoryTyped' /\ cur' \in [DBs -> Contents] /\ top' \in [DBs -> Int]
  <2> DEFINE o == [Idle("delete") EXCEPT
                      !.n = n, !.list = Numbers(d),
                      !.copies = <<Copy(Sync, "checkpoint"), Copy(d, "current")>>]
  <2>1. Copy(Sync, "checkpoint") \in Copies /\ Copy(d, "current") \in Copies /\ d \in DBs
    BY DEF Copy, Copies, DBs
  <2>2. Numbers(d) \in SUBSET Int
    BY <1>0, <2>1 DEF CksTyped
  <2>3. Idle("delete") \in Ops
    BY ConstantTypes DEF Places
  <2>4. o \in Ops
    <3>0. n \in Int
      OBVIOUS
    <3>1. [Idle("delete") EXCEPT !.n = n] \in Ops
      BY <2>3, <3>0, OpsUpdate
    <3>2. [Idle("delete") EXCEPT !.n = n, !.list = Numbers(d)] \in Ops
      BY <2>2, <3>1, OpsUpdate
    <3>3. <<Copy(Sync, "checkpoint"), Copy(d, "current")>> \in Seq(Copies)
      BY <2>1
    <3> QED
      BY <3>2, <3>3, OpsUpdate
  <2>5. BeginReset(d, o) /\ UNCHANGED <<cks, top>>
    BY <1>12 DEF ResetFromSynchronizer
  <2> HIDE DEF o
  <2> QED
    BY <1>0, <2>1, <2>4, <2>5, BeginTyped, UnchangedTyped
<1>13. ASSUME NEW d \in DBs, DeleteNext(d)
       PROVE  CksTyped' /\ MemoryTyped' /\ cur' \in [DBs -> Contents] /\ top' \in [DBs -> Int]
  <2> DEFINE n == Min(op[d].list)
  <2> HIDE DEF n
  <2>1. CASE n \in Numbers(d)
    <3>1. CksTyped'
      BY <1>13, <2>1, RemovedTyped DEF DeleteNext, n
    <3>2. op[d] \in Ops
      BY <1>0 DEF MemoryTyped
    <3>3. op' \in [DBs -> Ops] /\ UNCHANGED <<cur, last, del, locked, top>>
      <4>1. op[d].list \ {n} \in SUBSET Int
        BY <3>2 DEF Ops
      <4>2. [op[d] EXCEPT !.list = @ \ {n}] \in Ops
        BY <3>2, <4>1, OpsUpdate
      <4>3. op' = [op EXCEPT ![d] = [op[d] EXCEPT !.list = @ \ {n}]]
        BY <1>0, <1>13, <2>1 DEF DeleteNext, MemoryTyped, n
      <4> QED
        BY <1>0, <1>13, <2>1, <4>2, <4>3 DEF DeleteNext, MemoryTyped, n
    <3> QED
      BY <1>0, <3>1, <3>3 DEF MemoryTyped
  <2>2. CASE n \notin Numbers(d)
    BY <1>0, <1>13, <2>2, FailTyped, UnchangedTyped DEF DeleteNext, n
  <2> QED
    BY <2>1, <2>2
<1>14. ASSUME NEW d \in DBs, AllDeleted(d)
       PROVE  CksTyped' /\ MemoryTyped' /\ cur' \in [DBs -> Contents] /\ top' \in [DBs -> Int]
  <2>1. Idle("open") \in Ops /\ "next" \in Places /\ op[d] \in Ops
    BY <1>0, ConstantTypes DEF Places, MemoryTyped
  <2>2. op' \in [DBs -> Ops]
    <3>1. [op[d] EXCEPT !.pc = "next"] \in Ops
      BY <2>1, OpsUpdate
    <3> QED
      BY <1>0, <1>14, <2>1, <3>1 DEF AllDeleted, MemoryTyped
  <2>3. cur' \in [DBs -> Contents] /\ last' \in Contents
    BY <1>0, <1>14, ConstantTypes DEF AllDeleted, MemoryTyped
  <2> QED
    BY <1>0, <1>14, <2>2, <2>3, UnchangedTyped DEF AllDeleted, MemoryTyped
<1>15. ASSUME NEW d \in DBs, Restart(d)
       PROVE  CksTyped' /\ MemoryTyped' /\ cur' \in [DBs -> Contents] /\ top' \in [DBs -> Int]
  <2> DEFINE n == IF cur[d] = Missing THEN 0 ELSE cur[d].num
  <2>1. n \in Int
    BY <1>0 DEF Contents
  <2>2. [ResetTo(d, n) EXCEPT !.boot = TRUE] \in Ops
    BY <2>1, ResetOps
  <2>3. top' \in [DBs -> Int]
    BY <1>0, <1>15 DEF Restart
  <2>4. BeginReset(d, [ResetTo(d, n) EXCEPT !.boot = TRUE]) /\ UNCHANGED cks
    BY <1>15 DEF Restart
  <2> HIDE DEF n
  <2> QED
    BY <2>2, <2>3, <2>4, BeginTyped, UnchangedTyped
<1>16. ASSUME NEW d \in DBs, ListOld(d)
       PROVE  CksTyped' /\ MemoryTyped' /\ cur' \in [DBs -> Contents] /\ top' \in [DBs -> Int]
  <2>1. Old(d) \in SUBSET Int
    BY <1>0 DEF Old, CksTyped
  <2>2. del[d] \in [waiting : Nat, list : SUBSET Int] /\ del[d].waiting - 1 \in Nat
    BY <1>0, <1>16 DEF MemoryTyped, ListOld
  <2>3. del' \in [DBs -> [waiting : Nat, list : SUBSET Int]]
    BY <1>0, <1>16, <2>1, <2>2 DEF MemoryTyped, ListOld
  <2> QED
    BY <1>0, <1>16, <2>3, UnchangedTyped DEF ListOld, MemoryTyped
<1>17. ASSUME NEW d \in DBs, DeleteOld(d)
       PROVE  CksTyped' /\ MemoryTyped' /\ cur' \in [DBs -> Contents] /\ top' \in [DBs -> Int]
  <2>1. CksTyped'
    BY <1>17, RemovedTyped DEF DeleteOld
  <2>2. del' \in [DBs -> [waiting : Nat, list : SUBSET Int]]
    BY <1>0, <1>17 DEF MemoryTyped, DeleteOld
  <2> QED
    BY <1>0, <1>17, <2>1, <2>2 DEF DeleteOld, MemoryTyped
<1> QED
  BY <1>2, <1>3, <1>4, <1>5, <1>6, <1>7, <1>8, <1>9, <1>10, <1>11, <1>12, <1>13, <1>14, <1>15,
     <1>16, <1>17 DEF Next

-----------------------------------------------------------------------------
(* What a step of one database leaves alone. *)

OwnStep(d) ==
  \/ \E v \in Versions : Process(d, v)
  \/ SetCurrentBatch(d)
  \/ Checkpoint(d)
  \/ Finish(d)
  \/ FindSource(d)
  \/ OpenSource(d)
  \/ CopySource(d)
  \/ \E n \in 0..MaxBatch : Reset(d, n)
  \/ DeleteNext(d)
  \/ AllDeleted(d)
  \/ Restart(d)
  \/ ListOld(d)
  \/ DeleteOld(d)
  \/ d \in Locals /\ \E n \in 0..MaxBatch : ResetFromSynchronizer(d, n)

LEMMA NextParts == Next => Crash \/ \E d \in DBs : OwnStep(d)
BY DEF Next, OwnStep, DBs

SameFor(e) == op'[e] = op[e] /\ cur'[e] = cur[e] /\ del'[e] = del[e] /\ top'[e] = top[e]

LEMMA FailAlone ==
  ASSUME NEW d \in DBs, NEW e \in DBs \ {d}, NEW h, TypeOK, Fail(d, h), UNCHANGED <<cur, top>>
  PROVE  Exit \/ SameFor(e)
BY DEF Fail, SameFor, TypeOK

LEMMA BeginAlone ==
  ASSUME NEW d \in DBs, NEW e \in DBs \ {d}, NEW o, TypeOK, BeginReset(d, o), top'[e] = top[e]
  PROVE  Exit \/ SameFor(e)
<1>1. cur'[e] = cur[e]
  BY DEF BeginReset, TypeOK
<1>2. CASE HasGap(d) /\ ~o.boot
  <2>1. op'[e] = op[e] /\ del'[e] = del[e]
    BY <1>2 DEF BeginReset, TypeOK
  <2> QED
    BY <1>1, <2>1 DEF SameFor
<1>3. CASE ~HasGap(d)
  <2>1. op'[e] = op[e] /\ del'[e] = del[e]
    BY <1>3 DEF BeginReset, TypeOK
  <2> QED
    BY <1>1, <2>1 DEF SameFor
<1> QED
  BY <1>2, <1>3 DEF BeginReset

LEMMA OthersAlone ==
  ASSUME NEW d \in DBs, NEW e \in DBs \ {d}, TypeOK, OwnStep(d)
  PROVE  Exit \/ SameFor(e)
<1>1. ASSUME NEW v \in Versions, Process(d, v) PROVE SameFor(e)
  BY <1>1 DEF Process, SameFor, TypeOK
<1>2. CASE SetCurrentBatch(d)
  BY <1>2 DEF SetCurrentBatch, SameFor, TypeOK
<1>3. CASE Checkpoint(d)
  BY <1>3 DEF Checkpoint, SameFor, TypeOK
<1>4. CASE Finish(d)
  BY <1>4 DEF Finish, SameFor, TypeOK
<1>5. CASE FindSource(d)
  <2>1. CASE op[d].n \in Numbers(Source(d))
    BY <1>5, <2>1 DEF FindSource, SameFor, TypeOK
  <2>2. CASE op[d].n \notin Numbers(Source(d))
    BY <1>5, <2>2, FailAlone DEF FindSource
  <2> QED
    BY <2>1, <2>2
<1>6. CASE OpenSource(d)
  BY <1>6 DEF OpenSource, SameFor, TypeOK
<1>7. CASE CopySource(d)
  <2> DEFINE good == op[d].n \in Numbers(Source(d)) /\ cks[Source(d)][op[d].n] = op[d].held
  <2>1. CASE good
    BY <1>7, <2>1 DEF CopySource, SameFor, TypeOK
  <2>2. CASE ~good
    <3>1. Fail(d, TRUE) /\ UNCHANGED <<cur, top>>
      BY <1>7, <2>2 DEF CopySource
    <3> QED
      BY <3>1, FailAlone
  <2> QED
    BY <2>1, <2>2
<1>8. ASSUME NEW n \in 0..MaxBatch, Reset(d, n) PROVE Exit \/ SameFor(e)
  BY <1>8, BeginAlone DEF Reset
<1>9. CASE DeleteNext(d)
  <2> DEFINE n == Min(op[d].list)
  <2> HIDE DEF n
  <2>1. CASE n \in Numbers(d)
    <3>1. UNCHANGED <<cur, del, top>> /\ op' = [op EXCEPT ![d].list = @ \ {n}]
      BY <1>9, <2>1 DEF DeleteNext, n
    <3> QED
      BY <3>1 DEF SameFor, TypeOK
  <2>2. CASE n \notin Numbers(d)
    BY <1>9, <2>2, FailAlone DEF DeleteNext, n
  <2> QED
    BY <2>1, <2>2
<1>10. CASE AllDeleted(d)
  BY <1>10 DEF AllDeleted, SameFor, TypeOK
<1>11. CASE Restart(d)
  <2>1. top'[e] = top[e]
    BY <1>11 DEF Restart, TypeOK
  <2> QED
    BY <1>11, <2>1, BeginAlone DEF Restart
<1>12. CASE ListOld(d)
  BY <1>12 DEF ListOld, SameFor, TypeOK
<1>13. CASE DeleteOld(d)
  BY <1>13 DEF DeleteOld, SameFor, TypeOK
<1>14. ASSUME NEW n \in 0..MaxBatch, ResetFromSynchronizer(d, n) PROVE Exit \/ SameFor(e)
  BY <1>14, BeginAlone DEF ResetFromSynchronizer
<1> QED
  BY <1>1, <1>2, <1>3, <1>4, <1>5, <1>6, <1>7, <1>8, <1>9, <1>10, <1>11, <1>12, <1>13, <1>14
  DEF OwnStep

-----------------------------------------------------------------------------
(* A step of a local database. *)

\* a copy creates the checkpoint that it found removed
Emptied ==
  /\ Pc # "down" /\ ~Boot
  /\ \E n \in Int : /\ n >= 1 /\ n <= top[Sync] /\ n \notin N
                    /\ cks'[Sync] = With(cks[Sync], n, Empty)

Beside(d) ==
  \/ Exit /\ op[d].boot /\ cks'[Sync] = cks[Sync] /\ cur'[Sync] = cur[Sync] /\ top'[Sync] = top[Sync]
  \/ SameFor(Sync) /\ last' = last /\ (cks'[Sync] = cks[Sync] \/ Emptied) /\ LocalFits(d)'

LEMMA LocalSources ==
  ASSUME NEW d \in Locals, LocalFits(d), op[d].pc \in {"next", "found", "copy", "delete"}
  PROVE  /\ op[d].copies # <<>> =>
              /\ Source(d) \in {d, Sync} /\ Head(op[d].copies).dest \in {"current", "checkpoint"}
              /\ Tail(op[d].copies) \in {<<>>, <<Copy(d, "current")>>}
<1>1. SUFFICES ASSUME op[d].copies # <<>>
               PROVE  /\ Source(d) \in {d, Sync} /\ Head(op[d].copies).dest \in {"current", "checkpoint"}
                      /\ Tail(op[d].copies) \in {<<>>, <<Copy(d, "current")>>}
  OBVIOUS
<1>2. op[d].copies \in {<<Copy(d, "current")>>, <<Copy(Sync, "checkpoint"), Copy(d, "current")>>}
  BY <1>1 DEF LocalFits
<1>3. CASE op[d].copies = <<Copy(d, "current")>>
  <2>1. Head(op[d].copies) = Copy(d, "current") /\ Tail(op[d].copies) = <<>>
    BY <1>3
  <2> QED
    BY <2>1 DEF Source, Copy
<1>4. CASE op[d].copies = <<Copy(Sync, "checkpoint"), Copy(d, "current")>>
  <2>1. Head(op[d].copies) = Copy(Sync, "checkpoint") /\ Tail(op[d].copies) = <<Copy(d, "current")>>
    BY <1>4
  <2> QED
    BY <2>1 DEF Source, Copy
<1> QED
  BY <1>2, <1>3, <1>4

LEMMA LocalFail ==
  ASSUME NEW d \in Locals, NEW h, IInv, Fail(d, h), UNCHANGED <<cks, cur, top>>,
         op[d].pc \in {"next", "found", "copy", "delete"}
  PROVE  Beside(d)
<1>0. d \in DBs /\ Sync \in DBs /\ d # Sync /\ TypeOK /\ LocalFits(d)
  BY KVDBAssumption DEF DBs, IInv, LocalsFit
<1>1. CASE op[d].boot
  BY <1>1 DEF Fail, Beside
<1>2. CASE ~op[d].boot
  <2>1. SameFor(Sync)
    BY <1>0, <1>2 DEF Fail, SameFor, TypeOK
  <2>2. last' = last
    BY <1>0, <1>2, LocalSources DEF Fail
  <2>3. op'[d] = ClosedAt(op[d].n)
    BY <1>0, <1>2 DEF Fail, TypeOK
  <2>4. op'[d].pc = "closed" /\ op'[d].boot = FALSE
    BY <2>3 DEF ClosedAt, Idle
  <2>5. LocalFits(d)'
    BY <1>0, <2>1, <2>4 DEF LocalFits, SameFor, Pc, Boot
  <2> QED
    BY <2>1, <2>2, <2>5 DEF Beside
<1> QED
  BY <1>1, <1>2

LEMMA LocalBegin ==
  ASSUME NEW d \in Locals, NEW o, IInv, BeginReset(d, o), UNCHANGED cks,
         top'[Sync] = top[Sync], Pc # "down", ~Boot, o.boot => Pc = "open", o.pc = "delete",
         o.copies \in {<<Copy(d, "current")>>, <<Copy(Sync, "checkpoint"), Copy(d, "current")>>}
  PROVE  Beside(d)
<1>0. d \in DBs /\ Sync \in DBs /\ d # Sync /\ TypeOK /\ LocalFits(d)
  BY KVDBAssumption DEF DBs, IInv, LocalsFit
<1>1. ~HasGap(d)
  BY <1>0 DEF HasGap
<1>2. op' = [op EXCEPT ![d] = o] /\ UNCHANGED <<last, del>> /\ cur' = [cur EXCEPT ![d] = Missing]
  BY <1>1 DEF BeginReset
<1>3. SameFor(Sync) /\ op'[d] = o
  BY <1>0, <1>2 DEF SameFor, TypeOK
<1>4. LocalFits(d)'
  BY <1>3 DEF LocalFits, SameFor, Pc, Boot
<1> QED
  BY <1>2, <1>3, <1>4 DEF Beside

LEMMA LocalStep ==
  ASSUME NEW d \in Locals, IInv, OwnStep(d)
  PROVE  Beside(d)
<1>0. d \in DBs /\ Sync \in DBs /\ d # Sync /\ TypeOK /\ LocalFits(d)
  BY KVDBAssumption DEF DBs, IInv, LocalsFit
<1>1. ASSUME NEW v \in Versions, Process(d, v) PROVE Beside(d)
  <2>1. SameFor(Sync) /\ op' = op /\ UNCHANGED <<cks, last, top>>
    BY <1>0, <1>1 DEF Process, SameFor, TypeOK
  <2>2. LocalFits(d)'
    BY <1>0, <2>1 DEF LocalFits, Pc, Boot, Source
  <2> QED
    BY <2>1, <2>2 DEF Beside
<1>2. CASE SetCurrentBatch(d)
  <2>1. SameFor(Sync) /\ UNCHANGED <<cks, last, top>>
    BY <1>0, <1>2 DEF SetCurrentBatch, SameFor, TypeOK
  <2>2. op'[d] = [Idle("store") EXCEPT !.make = TRUE]
    BY <1>0, <1>2 DEF SetCurrentBatch, TypeOK
  <2>3. op'[d].pc = "store" /\ op'[d].copies = <<>> /\ op'[d].boot = FALSE
    BY <2>2 DEF Idle
  <2>4. Pc # "down" /\ ~Boot
    BY <1>0, <1>2 DEF SetCurrentBatch, Running, Pc, Boot
  <2>5. LocalFits(d)'
    BY <2>1, <2>3, <2>4 DEF LocalFits, SameFor, Pc, Boot
  <2> QED
    BY <2>1, <2>5 DEF Beside
<1>3. CASE Checkpoint(d)
  <2>1. SameFor(Sync) /\ cks'[Sync] = cks[Sync] /\ last' = last
    BY <1>0, <1>3 DEF Checkpoint, SameFor, TypeOK
  <2>2. op'[d].pc = "next" /\ op'[d].copies = <<>> /\ op'[d].boot = op[d].boot
    BY <1>0, <1>3 DEF Checkpoint, TypeOK, Ops
  <2>3. LocalFits(d)'
    BY <1>0, <1>3, <2>1, <2>2 DEF Checkpoint, LocalFits, SameFor, Pc, Boot
  <2> QED
    BY <2>1, <2>3 DEF Beside
<1>4. CASE Finish(d)
  <2>1. SameFor(Sync) /\ UNCHANGED <<cks, last, top>>
    BY <1>0, <1>4 DEF Finish, SameFor, TypeOK
  <2>2. op'[d] = Idle("open")
    BY <1>0, <1>4 DEF Finish, TypeOK
  <2>3. op'[d].pc = "open" /\ op'[d].boot = FALSE
    BY <2>2 DEF Idle
  <2>4. LocalFits(d)'
    BY <1>0, <1>4, <2>1, <2>3 DEF Finish, LocalFits, SameFor, Pc, Boot
  <2> QED
    BY <2>1, <2>4 DEF Beside
<1>5. CASE FindSource(d)
  <2>1. CASE op[d].n \in Numbers(Source(d))
    <3>1. SameFor(Sync) /\ UNCHANGED <<cks, last, top>> /\ op' = [op EXCEPT ![d].pc = "found"]
      BY <1>0, <1>5, <2>1 DEF FindSource, SameFor, TypeOK
    <3>2. /\ op'[d].pc = "found" /\ op'[d].copies = op[d].copies /\ op'[d].boot = op[d].boot
          /\ op'[d].n = op[d].n /\ op[d].pc = "next" /\ op[d].copies # <<>>
      BY <1>0, <1>5, <3>1 DEF FindSource, TypeOK, Ops
    <3>3. op[d].copies \in {<<Copy(d, "current")>>, <<Copy(Sync, "checkpoint"), Copy(d, "current")>>}
      BY <1>0, <3>2 DEF LocalFits
    <3>4. Pc # "down" /\ ~Boot
      BY <1>0, <3>2 DEF LocalFits
    <3>5. Source(d) = Sync => op[d].n >= 1 /\ op[d].n <= top[Sync]
      BY <2>1, <3>4 DEF IInv, SyncFits, NumbersFit, N
    <3>6. Source(d)' = Source(d)
      BY <3>2 DEF Source
    <3>7. LocalFits(d)'
      BY <1>0, <3>1, <3>2, <3>3, <3>4, <3>5, <3>6 DEF LocalFits, SameFor, Pc, Boot
    <3> QED
      BY <3>1, <3>7 DEF Beside
  <2>2. CASE op[d].n \notin Numbers(Source(d))
    BY <1>5, <2>2, LocalFail DEF FindSource
  <2> QED
    BY <2>1, <2>2
<1>6. CASE OpenSource(d)
  <2> DEFINE src == Source(d)
             n == op[d].n
  <2>1. SameFor(Sync) /\ last' = last
    BY <1>0, <1>6 DEF OpenSource, SameFor, TypeOK
  <2>2. /\ op'[d].pc = "copy" /\ op'[d].copies = op[d].copies /\ op'[d].boot = op[d].boot
        /\ op[d].pc = "found"
    BY <1>0, <1>6 DEF OpenSource, TypeOK, Ops
  <2>3. LocalFits(d)'
    BY <1>0, <2>1, <2>2 DEF LocalFits, SameFor, Pc, Boot
  <2>4. cks'[Sync] = cks[Sync] \/ Emptied
    <3>1. CASE n \in Numbers(src)
      BY <1>6, <3>1 DEF OpenSource
    <3>2. CASE n \notin Numbers(src)
      <4>1. cks' = [cks EXCEPT ![src] = With(@, n, Empty)]
        BY <1>6, <3>2 DEF OpenSource
      <4>2. op[d].copies # <<>>
        BY <1>0, <2>2 DEF LocalFits
      <4>3. src \in {d, Sync}
        BY <1>0, <2>2, <4>2, LocalSources
      <4>4. CASE src = d
        BY <1>0, <4>1, <4>4 DEF TypeOK
      <4>5. CASE src = Sync
        <5>1. n >= 1 /\ n <= top[Sync] /\ Pc # "down" /\ ~Boot
          BY <1>0, <2>2, <4>5 DEF LocalFits
        <5>2. n \in Int
          BY <1>0 DEF TypeOK, Ops
        <5>3. cks'[Sync] = With(cks[Sync], n, Empty)
          BY <1>0, <4>1, <4>5 DEF TypeOK
        <5>4. n \notin N
          BY <3>2, <4>5 DEF N
        <5> QED
          BY <5>1, <5>2, <5>3, <5>4 DEF Emptied
      <4> QED
        BY <4>3, <4>4, <4>5
    <3> QED
      BY <3>1, <3>2
  <2> QED
    BY <2>1, <2>3, <2>4 DEF Beside
<1>7. CASE CopySource(d)
  <2> DEFINE good == op[d].n \in Numbers(Source(d)) /\ cks[Source(d)][op[d].n] = op[d].held
  <2>1. op[d].pc = "copy" /\ op[d].copies # <<>>
    BY <1>0, <1>7 DEF CopySource, LocalFits
  <2>2. /\ Head(op[d].copies).dest \in {"current", "checkpoint"}
        /\ Tail(op[d].copies) \in {<<>>, <<Copy(d, "current")>>}
    BY <1>0, <2>1, LocalSources
  <2>3. CASE good
    <3>1. SameFor(Sync)
      BY <1>0, <1>7, <2>3 DEF CopySource, SameFor, TypeOK
    <3>2. last' = last /\ cks'[Sync] = cks[Sync]
      BY <1>0, <1>7, <2>2, <2>3 DEF CopySource, TypeOK
    <3>3. op'[d].pc = "next" /\ op'[d].copies = Tail(op[d].copies) /\ op'[d].boot = op[d].boot
      <4> DEFINE t == Tail(op[d].copies)
      <4>1. op' = [op EXCEPT ![d].pc = "next", ![d].copies = t, ![d].held = Missing]
        BY <1>7, <2>3 DEF CopySource
      <4> HIDE DEF t
      <4>2. op'[d].pc = "next" /\ op'[d].copies = t /\ op'[d].boot = op[d].boot
        BY <1>0, <4>1 DEF TypeOK, Ops
      <4> QED
        BY <4>2 DEF t
    <3>4. LocalFits(d)'
      BY <1>0, <2>1, <2>2, <3>1, <3>3 DEF LocalFits, SameFor, Pc, Boot
    <3> QED
      BY <3>1, <3>2, <3>4 DEF Beside
  <2>4. CASE ~good
    <3>1. Fail(d, TRUE) /\ UNCHANGED <<cks, cur, top>>
      BY <1>7, <2>4 DEF CopySource
    <3> QED
      BY <2>1, <3>1, LocalFail
  <2> QED
    BY <2>3, <2>4
<1>8. ASSUME NEW n \in 0..MaxBatch, Reset(d, n) PROVE Beside(d)
  <2>1. Pc # "down" /\ ~Boot
    BY <1>0, <1>8 DEF Reset, Running, Pc, Boot
  <2>2. ResetTo(d, n).boot = FALSE /\ ResetTo(d, n).pc = "delete"
        /\ ResetTo(d, n).copies = <<Copy(d, "current")>>
    BY <1>0 DEF ResetTo, Idle, ResetCopies
  <2> QED
    BY <1>8, <2>1, <2>2, LocalBegin DEF Reset
<1>9. CASE DeleteNext(d)
  <2> DEFINE n == Min(op[d].list)
  <2> HIDE DEF n
  <2>1. CASE n \in Numbers(d)
    <3>1. /\ UNCHANGED <<cur, last, del, top>> /\ op' = [op EXCEPT ![d].list = @ \ {n}]
          /\ cks' = [cks EXCEPT ![d] = Without(@, n)] /\ op[d].pc = "delete"
      BY <1>9, <2>1 DEF DeleteNext, n
    <3>2. SameFor(Sync) /\ cks'[Sync] = cks[Sync]
      BY <1>0, <3>1 DEF SameFor, TypeOK
    <3>3. op'[d].pc = op[d].pc /\ op'[d].copies = op[d].copies /\ op'[d].boot = op[d].boot
      BY <1>0, <3>1 DEF TypeOK, Ops
    <3>4. LocalFits(d)'
      BY <1>0, <3>1, <3>2, <3>3 DEF LocalFits, SameFor, Pc, Boot
    <3> QED
      BY <3>1, <3>2, <3>4 DEF Beside
  <2>2. CASE n \notin Numbers(d)
    <3>1. Fail(d, FALSE) /\ UNCHANGED <<cks, cur, top>> /\ op[d].pc = "delete"
      BY <1>9, <2>2 DEF DeleteNext, n
    <3> QED
      BY <3>1, LocalFail
  <2> QED
    BY <2>1, <2>2
<1>10. CASE AllDeleted(d)
  <2>1. SameFor(Sync) /\ UNCHANGED <<cks, last, top>>
    BY <1>0, <1>10 DEF AllDeleted, SameFor, TypeOK
  <2>2. CASE op[d].n = 0
    <3>1. op'[d] = Idle("open")
      BY <1>0, <1>10, <2>2 DEF AllDeleted, TypeOK
    <3>2. op'[d].pc = "open" /\ op'[d].boot = FALSE
      BY <3>1 DEF Idle
    <3>3. LocalFits(d)'
      BY <1>0, <1>10, <2>1, <3>2 DEF AllDeleted, LocalFits, SameFor, Pc, Boot
    <3> QED
      BY <2>1, <3>3 DEF Beside
  <2>3. CASE op[d].n # 0
    <3>1. op'[d].pc = "next" /\ op'[d].copies = op[d].copies /\ op'[d].boot = op[d].boot
      BY <1>0, <1>10, <2>3 DEF AllDeleted, TypeOK, Ops
    <3>2. LocalFits(d)'
      BY <1>0, <1>10, <2>1, <3>1 DEF AllDeleted, LocalFits, SameFor, Pc, Boot
    <3> QED
      BY <2>1, <3>2 DEF Beside
  <2> QED
    BY <2>2, <2>3
<1>11. CASE Restart(d)
  <2> DEFINE n == IF cur[d] = Missing THEN 0 ELSE cur[d].num
             o == [ResetTo(d, n) EXCEPT !.boot = TRUE]
  <2>1. Pc = "open" /\ ~Boot
    BY <1>0, <1>11 DEF Restart, Pc, Boot, IInv, SyncFits, OwnerFits
  <2>2. o.pc = "delete" /\ o.copies = <<Copy(d, "current")>>
    BY <1>0 DEF ResetTo, Idle, ResetCopies
  <2>3. BeginReset(d, o) /\ UNCHANGED cks /\ top'[Sync] = top[Sync]
    BY <1>0, <1>11 DEF Restart, TypeOK
  <2> HIDE DEF o
  <2> QED
    BY <2>1, <2>2, <2>3, LocalBegin
<1>12. CASE ListOld(d)
  <2>1. SameFor(Sync) /\ UNCHANGED <<cks, last, top, op>>
    BY <1>0, <1>12 DEF ListOld, SameFor, TypeOK
  <2>2. LocalFits(d)'
    BY <1>0, <2>1 DEF LocalFits, Pc, Boot, Source
  <2> QED
    BY <2>1, <2>2 DEF Beside
<1>13. CASE DeleteOld(d)
  <2>1. SameFor(Sync) /\ UNCHANGED <<last, top, op>> /\ cks'[Sync] = cks[Sync]
    BY <1>0, <1>13 DEF DeleteOld, SameFor, TypeOK
  <2>2. LocalFits(d)'
    BY <1>0, <2>1 DEF LocalFits, Pc, Boot, Source
  <2> QED
    BY <2>1, <2>2 DEF Beside
<1>14. ASSUME NEW n \in 0..MaxBatch, ResetFromSynchronizer(d, n) PROVE Beside(d)
  <2> DEFINE o == [Idle("delete") EXCEPT
                      !.n = n, !.list = Numbers(d),
                      !.copies = <<Copy(Sync, "checkpoint"), Copy(d, "current")>>]
  <2>1. Pc # "down" /\ ~Boot
    BY <1>0, <1>14 DEF ResetFromSynchronizer, Running, Pc, Boot
  <2>2. o.boot = FALSE /\ o.pc = "delete"
        /\ o.copies = <<Copy(Sync, "checkpoint"), Copy(d, "current")>>
    BY DEF Idle
  <2>3. BeginReset(d, o) /\ UNCHANGED <<cks, top>>
    BY <1>14 DEF ResetFromSynchronizer
  <2> HIDE DEF o
  <2> QED
    BY <2>1, <2>2, <2>3, LocalBegin
<1> QED
  BY <1>1, <1>2, <1>3, <1>4, <1>5, <1>6, <1>7, <1>8, <1>9, <1>10, <1>11, <1>12, <1>13, <1>14
  DEF OwnStep

-----------------------------------------------------------------------------
(* Beginnings of a sequence, and the batches of a checkpoint. *)

LEMMA BeginningOfBeginning ==
  ASSUME NEW S, NEW s \in Seq(S), NEW m \in 0..Len(s), NEW k \in 0..m
  PROVE  SubSeq(SubSeq(s, 1, m), 1, k) = SubSeq(s, 1, k)
<1>1. SubSeq(s, 1, m) \in Seq(S) /\ Len(SubSeq(s, 1, m)) = m
      /\ \A i \in 1..m : SubSeq(s, 1, m)[i] = s[i]
  OBVIOUS
<1> DEFINE t == SubSeq(s, 1, m)
<1> HIDE DEF t
<1>2. t \in Seq(S) /\ Len(t) = m /\ \A i \in 1..m : t[i] = s[i]
  BY <1>1 DEF t
<1>3. SubSeq(t, 1, k) \in Seq(S) /\ Len(SubSeq(t, 1, k)) = k
      /\ \A i \in 1..k : SubSeq(t, 1, k)[i] = t[i]
  BY <1>2
<1>4. SubSeq(s, 1, k) \in Seq(S) /\ Len(SubSeq(s, 1, k)) = k
      /\ \A i \in 1..k : SubSeq(s, 1, k)[i] = s[i]
  OBVIOUS
<1>5. SubSeq(t, 1, k) = SubSeq(s, 1, k)
  BY <1>2, <1>3, <1>4, SeqEqual
<1> QED
  BY <1>5 DEF t

LEMMA BeginningOfAppend ==
  ASSUME NEW S, NEW s \in Seq(S), NEW v \in S, NEW k \in 0..Len(s)
  PROVE  SubSeq(Append(s, v), 1, k) = SubSeq(s, 1, k)
<1>1. Append(s, v) \in Seq(S) /\ Len(Append(s, v)) = Len(s) + 1
      /\ \A i \in 1..Len(s) : Append(s, v)[i] = s[i]
  OBVIOUS
<1> DEFINE t == Append(s, v)
<1> HIDE DEF t
<1>2. t \in Seq(S) /\ Len(t) = Len(s) + 1 /\ \A i \in 1..Len(s) : t[i] = s[i]
  BY <1>1 DEF t
<1>3. SubSeq(t, 1, k) \in Seq(S) /\ Len(SubSeq(t, 1, k)) = k
      /\ \A i \in 1..k : SubSeq(t, 1, k)[i] = t[i]
  BY <1>2
<1>4. SubSeq(s, 1, k) \in Seq(S) /\ Len(SubSeq(s, 1, k)) = k
      /\ \A i \in 1..k : SubSeq(s, 1, k)[i] = s[i]
  OBVIOUS
<1>5. SubSeq(t, 1, k) = SubSeq(s, 1, k)
  BY <1>2, <1>3, <1>4, SeqEqual
<1> QED
  BY <1>5 DEF t

LEMMA BeginningIsAll ==
  ASSUME NEW S, NEW s \in Seq(S)
  PROVE  SubSeq(s, 1, Len(s)) = s
OBVIOUS

LEMMA SyncTyped ==
  ASSUME TypeOK
  PROVE  /\ Sync \in DBs /\ N \subseteq Int /\ top[Sync] \in Int /\ op[Sync] \in Ops
         /\ \A k \in N : cks[Sync][k] \in Contents /\ cks[Sync][k].num \in Int
                         /\ cks[Sync][k].txs \in Seq(Versions)
         /\ cur[Sync] \in Contents /\ cur[Sync].num \in Int /\ cur[Sync].txs \in Seq(Versions)
         /\ last.txs \in Seq(Versions)
         /\ op[Sync].n \in Int /\ Pc \in Places /\ op[Sync].list \subseteq Int /\ Boot \in BOOLEAN
         /\ \A n : StoredAt(n) \in Seq(Versions)
         /\ At \in Int /\ History \in Seq(Versions)
<1>1. Sync \in DBs
  BY DEF DBs
<1>2. N \subseteq Int /\ \A k \in N : cks[Sync][k] \in Contents
  BY <1>1 DEF N, TypeOK
<1>3. cur[Sync] \in Contents /\ op[Sync] \in Ops /\ top[Sync] \in Int /\ last \in Contents
  BY <1>1 DEF TypeOK
<1>4. \A k \in N : cks[Sync][k].num \in Int /\ cks[Sync][k].txs \in Seq(Versions)
  BY <1>2 DEF Contents
<1>5. cur[Sync].num \in Int /\ cur[Sync].txs \in Seq(Versions) /\ last.txs \in Seq(Versions)
  BY <1>3 DEF Contents
<1>6. op[Sync].n \in Int /\ Pc \in Places /\ op[Sync].list \subseteq Int /\ Boot \in BOOLEAN
  BY <1>3 DEF Ops, Pc, Boot
<1>7. \A n : StoredAt(n) \in Seq(Versions)
  BY <1>4 DEF StoredAt, N
<1>8. At \in Int
  BY <1>5, <1>6 DEF At
<1>9. History \in Seq(Versions)
  BY <1>5, <1>7 DEF History
<1> QED
  BY <1>1, <1>2, <1>3, <1>4, <1>5, <1>6, <1>7, <1>8, <1>9

\* the checkpoint of the batch that the database is at, or comes back to, is there
LEMMA CheckpointThere ==
  ASSUME IInv, Whole, NEW n \in Int, n >= 1, n <= At, Recent(n)
  PROVE  /\ n \in N /\ cks[Sync][n] # Empty /\ cks[Sync][n].num = n /\ Len(cks[Sync][n].txs) = n
         /\ cks[Sync][n].txs = SubSeq(History, 1, n) /\ StoredAt(n) = cks[Sync][n].txs
<1>1. At \in Int
  BY SyncTyped DEF IInv
<1>2. n \in N /\ cks[Sync][n] # Empty /\ cks[Sync][n].txs = SubSeq(History, 1, n)
  BY <1>1 DEF IInv, SyncFits, BelowFits
<1> QED
  BY <1>2 DEF IInv, SyncFits, NumbersFit, StoredAt, N

LEMMA AtThere ==
  ASSUME IInv, Whole, At >= 1
  PROVE  /\ At \in N /\ cks[Sync][At] # Empty /\ cks[Sync][At].num = At /\ Len(cks[Sync][At].txs) = At
         /\ cks[Sync][At].txs = SubSeq(History, 1, At) /\ StoredAt(At) = cks[Sync][At].txs
<1>1. At \in Int
  BY SyncTyped DEF IInv
<1>2. Recent(At)
  BY <1>1 DEF IInv, SyncFits, NumbersFit
<1> QED
  BY <1>1, <1>2, CheckpointThere

-----------------------------------------------------------------------------
(* Steps beside the synchronizer's database. *)

LEMMA SameKept ==
  ASSUME IInv, SameFor(Sync), last' = last, cks'[Sync] = cks[Sync]
  PROVE  SyncFits' /\ Pc' = Pc /\ At' = At /\ History' = History
<1>1. N' = N /\ Pc' = Pc /\ Boot' = Boot /\ op'[Sync] = op[Sync] /\ cur'[Sync] = cur[Sync]
      /\ del'[Sync] = del[Sync] /\ top'[Sync] = top[Sync]
  BY DEF SameFor, N, Numbers, Pc, Boot
<1>2. At' = At
  BY <1>1 DEF At
<1>3. History' = History
  BY <1>1, <1>2 DEF History, StoredAt, Numbers, N
<1>4. \A n : Recent(n)' <=> Recent(n)
  BY <1>1 DEF Recent
<1>5. Whole' <=> Whole
  BY <1>1, <1>2 DEF Whole
<1>6. NumbersFit'
  BY <1>1, <1>2 DEF NumbersFit, Recent, IInv, SyncFits
<1>7. BelowFits'
  BY <1>1, <1>2, <1>3, <1>5 DEF BelowFits, Recent, IInv, SyncFits
<1>8. AboveFits' /\ ReadersFit' /\ DeletionsFit'
  BY <1>1, <1>2 DEF AboveFits, ReadersFit, DeletionsFit, IInv, SyncFits
<1>9. OwnerFits'
  BY <1>1, <1>2 DEF OwnerFits, IInv, SyncFits
<1> QED
  BY <1>1, <1>2, <1>3, <1>6, <1>7, <1>8, <1>9 DEF SyncFits

LEMMA EmptiedKept ==
  ASSUME IInv, SameFor(Sync), last' = last, Emptied
  PROVE  SyncFits' /\ Pc' = Pc /\ At' = At /\ History' = History
<1>0. TypeOK /\ NumbersFit /\ BelowFits /\ AboveFits /\ OwnerFits /\ ReadersFit /\ DeletionsFit
  BY DEF IInv, SyncFits
<1>1. Pc' = Pc /\ Boot' = Boot /\ op'[Sync] = op[Sync] /\ cur'[Sync] = cur[Sync]
      /\ del'[Sync] = del[Sync] /\ top'[Sync] = top[Sync] /\ Pc # "down" /\ ~Boot
  BY DEF SameFor, Pc, Boot, Emptied
<1>2. PICK n \in Int : n >= 1 /\ n <= top[Sync] /\ n \notin N /\ cks'[Sync] = With(cks[Sync], n, Empty)
  BY DEF Emptied
<1>3. /\ N' = N \cup {n} /\ cks'[Sync][n] = Empty
      /\ \A k \in N : cks'[Sync][k] = cks[Sync][k]
  BY <1>2 DEF N, Numbers, With
<1>4. At' = At /\ At \in Int /\ N \subseteq Int
  BY <1>0, <1>1, SyncTyped DEF At
<1>5. History' = History
  <2>1. ASSUME NEW k PROVE StoredAt(k)' = StoredAt(k)
    <3>1. CASE k = n
      BY <1>2, <1>3, <3>1 DEF StoredAt, N, Empty
    <3>2. CASE k # n
      BY <1>2, <1>3, <3>2 DEF StoredAt, N
    <3> QED
      BY <3>1, <3>2
  <2>2. StoredAt(At)' = StoredAt(At)
    BY <1>4, <2>1 DEF StoredAt
  <2> QED
    BY <1>1, <2>2 DEF History
<1>6. Whole' /\ Whole
  BY <1>1 DEF Whole
<1>7. NumbersFit'
  BY <1>0, <1>1, <1>2, <1>3, <1>4 DEF NumbersFit, Recent
<1>8. BelowFits'
  <2> SUFFICES ASSUME NEW k \in 1..At
               PROVE  /\ k \in N' => cks'[Sync][k] = Empty \/ cks'[Sync][k].txs = SubSeq(History, 1, k)
                      /\ Recent(k) => k \in N' /\ cks'[Sync][k] # Empty
    BY <1>1, <1>4, <1>5 DEF BelowFits, Recent
  <2>1. /\ k \in N => cks[Sync][k] = Empty \/ cks[Sync][k].txs = SubSeq(History, 1, k)
        /\ Recent(k) => k \in N /\ cks[Sync][k] # Empty
    BY <1>0, <1>6 DEF BelowFits
  <2> QED
    BY <1>3, <2>1
<1>9. AboveFits' /\ ReadersFit' /\ DeletionsFit'
  BY <1>0, <1>1, <1>3, <1>4 DEF AboveFits, ReadersFit, DeletionsFit
<1>10. OwnerFits'
  BY <1>0, <1>1, <1>3, <1>4 DEF OwnerFits
<1> QED
  BY <1>1, <1>4, <1>5, <1>7, <1>8, <1>9, <1>10 DEF SyncFits

\* The process ends between two steps: the database is started again from what it is at.
LEMMA ExitKept ==
  ASSUME IInv, Exit, cks'[Sync] = cks[Sync], cur'[Sync] = cur[Sync], top'[Sync] = top[Sync],
         Pc = "store" /\ At + 1 \in N => cks[Sync][At + 1] # Empty
  PROVE  SyncFits'
<1>0. TypeOK /\ NumbersFit /\ BelowFits /\ AboveFits /\ OwnerFits /\ ReadersFit /\ DeletionsFit
  BY DEF IInv, SyncFits
<1>1. op'[Sync] = Idle("down") /\ del'[Sync] = NoDeletion
  BY <1>0, SyncTyped DEF Exit, Down
<1>2. Pc' = "down" /\ Boot' = FALSE /\ N' = N
  BY <1>1 DEF Pc, Boot, Idle, N, Numbers
<1>3. At' = cur[Sync].num /\ History' = StoredAt(cur[Sync].num)
  BY <1>2 DEF At, History, StoredAt, N, Numbers
<1>4. /\ N \subseteq Int /\ top[Sync] \in Int /\ At \in Int /\ cur[Sync].num \in Int /\ Pc \in Places
      /\ History \in Seq(Versions)
  BY <1>0, SyncTyped
<1>5. AboveFits' /\ ReadersFit' /\ DeletionsFit'
  <2>1. del'[Sync].list = {}
    BY <1>1 DEF NoDeletion
  <2> QED
    BY <1>1, <1>2, <2>1 DEF AboveFits, ReadersFit, DeletionsFit
<1>6. CASE cur[Sync] = Missing
  <2>1. cur[Sync].num = -1
    BY <1>6 DEF Missing
  <2>2. NumbersFit'
    BY <1>0, <1>2, <1>3, <2>1 DEF NumbersFit
  <2>3. BelowFits'
    BY <1>3, <2>1 DEF BelowFits
  <2>4. OwnerFits'
    BY KVDBAssumption, <1>1, <1>2, <1>3, <1>6, <2>1 DEF OwnerFits
  <2> QED
    BY <1>5, <2>2, <2>3, <2>4 DEF SyncFits
<1>7. CASE cur[Sync] # Missing
  <2> DEFINE m == cur[Sync].num
  <2>1. CASE Pc = "down"
    <3>1. At = m /\ History = StoredAt(m)
      BY <2>1 DEF At, History
    <3>2. Whole' <=> Whole
      BY <1>2, <1>3, <2>1, <3>1 DEF Whole
    <3>3. NumbersFit'
      BY <1>0, <1>2, <1>3, <1>4, <2>1, <3>1 DEF NumbersFit, Recent
    <3>4. BelowFits'
      BY <1>0, <1>2, <1>3, <1>4, <3>1, <3>2 DEF BelowFits, Recent
    <3>5. OwnerFits'
      BY <1>0, <1>1, <1>2, <1>3, <1>4, <2>1, <3>1 DEF OwnerFits
    <3> QED
      BY <1>5, <3>3, <3>4, <3>5 DEF SyncFits
  <2>2. CASE Pc = "open"
    <3>1. At = m /\ History = cur[Sync].txs
      BY <2>2 DEF At, History
    <3>2. ~Boot /\ At >= 0 /\ At <= MaxBatch /\ At <= Len(History)
      BY <1>0, <1>4, <2>2, <3>1 DEF OwnerFits
    <3>3. Whole
      BY <2>2, <3>2 DEF Whole
    <3>4. NumbersFit'
      BY <1>0, <1>2, <1>3, <1>4, <2>2, <3>1, <3>2 DEF NumbersFit, Recent
    <3>5. BelowFits'
      <4> SUFFICES ASSUME NEW k \in 1..At
                   PROVE  /\ k \in N => cks[Sync][k] = Empty \/ cks[Sync][k].txs = SubSeq(StoredAt(At), 1, k)
                          /\ Recent(k) => k \in N /\ cks[Sync][k] # Empty
        BY <1>2, <1>3, <3>1 DEF BelowFits, Recent
      <4>1. StoredAt(At) = SubSeq(History, 1, At)
        BY <1>4, <3>3, AtThere
      <4>2. SubSeq(StoredAt(At), 1, k) = SubSeq(History, 1, k)
        BY <1>4, <3>2, <4>1, BeginningOfBeginning
      <4> QED
        BY <1>0, <3>3, <4>2 DEF BelowFits
    <3>6. OwnerFits'
      BY <1>1, <1>2, <1>3, <1>4, <3>1, <3>2 DEF OwnerFits
    <3> QED
      BY <1>5, <3>4, <3>5, <3>6 DEF SyncFits
  <2>3. CASE Pc = "store"
    <3>1. At + 1 = m
      BY <1>4, <2>3 DEF At
    <3>2. ~Boot /\ At >= 0 /\ m <= MaxBatch
      BY <1>0, <1>4, <2>3, <3>1 DEF OwnerFits
    <3>3. NumbersFit'
      BY KVDBAssumption, <1>0, <1>2, <1>3, <1>4, <2>3, <3>1, <3>2 DEF NumbersFit, Recent
    <3>4. m \notin N
      BY <1>0, <1>4, <2>3, <3>1 DEF AboveFits
    <3>5. BelowFits'
      BY <1>2, <1>3, <1>4, <3>1, <3>2, <3>4 DEF BelowFits, Whole
    <3>6. OwnerFits'
      BY <1>1, <1>2, <1>3, <1>4, <3>1, <3>2 DEF OwnerFits
    <3> QED
      BY <1>5, <3>3, <3>5, <3>6 DEF SyncFits
  <2>4. CASE Pc \in {"next", "found", "copy"}
    <3>1. At = op[Sync].n /\ At >= 1 /\ At <= MaxBatch /\ At \in N /\ cur[Sync] = cks[Sync][At]
      BY <1>0, <1>7, <2>4 DEF OwnerFits, At
    <3>2. Whole
      BY <3>1 DEF Whole
    <3>3. m = At /\ StoredAt(At) = History
      BY <2>4, <3>1, <3>2, AtThere DEF History
    <3>4. NumbersFit'
      BY <1>0, <1>2, <1>3, <1>4, <2>4, <3>1, <3>3 DEF NumbersFit, Recent
    <3>5. BelowFits'
      BY <1>0, <1>2, <1>3, <1>4, <3>2, <3>3 DEF BelowFits, Recent
    <3>6. OwnerFits'
      BY <1>1, <1>2, <1>3, <1>4, <3>1, <3>3 DEF OwnerFits
    <3> QED
      BY <1>5, <3>4, <3>5, <3>6 DEF SyncFits
  <2>5. CASE Pc \in {"closed", "delete"}
    BY <1>0, <1>7, <2>5 DEF OwnerFits
  <2> QED
    BY <1>4, <2>1, <2>2, <2>3, <2>4, <2>5 DEF Places
<1> QED
  BY <1>6, <1>7

\* It ends with `current' removed: the next start is from the first batch.
LEMMA ExitEmpty ==
  ASSUME IInv, Exit, cks'[Sync] = cks[Sync], cur'[Sync] = Missing, top'[Sync] >= 0
  PROVE  SyncFits'
<1>0. TypeOK /\ NumbersFit
  BY DEF IInv, SyncFits
<1>1. op'[Sync] = Idle("down") /\ del'[Sync] = NoDeletion
  BY <1>0, SyncTyped DEF Exit, Down
<1>2. Pc' = "down" /\ Boot' = FALSE /\ N' = N
  BY <1>1 DEF Pc, Boot, Idle, N, Numbers
<1>3. At' = -1
  BY <1>2 DEF At, Missing
<1>4. NumbersFit'
  BY <1>0, <1>2, <1>3 DEF NumbersFit
<1>5. BelowFits'
  BY <1>3 DEF BelowFits
<1>6. OwnerFits'
  BY KVDBAssumption, <1>1, <1>2, <1>3 DEF OwnerFits
<1>7. AboveFits' /\ ReadersFit' /\ DeletionsFit'
  <2>1. del'[Sync].list = {}
    BY <1>1 DEF NoDeletion
  <2> QED
    BY <1>1, <1>2, <2>1 DEF AboveFits, ReadersFit, DeletionsFit
<1> QED
  BY <1>4, <1>5, <1>6, <1>7 DEF SyncFits

-----------------------------------------------------------------------------
(* Steps of the synchronizer's database: a batch is processed. *)

\* what the local databases notice of a step
Calm ==
  /\ Pc' = "down" \/ Boot' => Pc = "down" \/ Boot
  /\ Pc = "open" => Pc' = "open" \/ Running
  /\ top'[Sync] >= top[Sync] \/ Pc = "down"

\* an operation goes on
Quiet ==
  /\ {Pc, Pc'} \subseteq {"delete", "next", "found", "copy"}
  /\ At' = At /\ History' = History

LEMMA Parts ==
  ASSUME IInv
  PROVE  /\ TypeOK /\ NumbersFit /\ BelowFits /\ AboveFits /\ OwnerFits /\ ReadersFit /\ DeletionsFit
         /\ Sync \in DBs /\ N \subseteq Int /\ top[Sync] \in Int /\ At \in Int /\ cur[Sync].num \in Int
         /\ op[Sync].n \in Int /\ Pc \in Places /\ History \in Seq(Versions)
BY SyncTyped DEF IInv, SyncFits

LEMMA ProcessKept ==
  ASSUME IInv, NEW v \in Versions, Process(Sync, v)
  PROVE  /\ SyncFits' /\ Calm
         /\ Pc = "open" /\ Pc' = "open" /\ At' = At /\ last' = last
         /\ Len(History) = At /\ History' = Append(History, v)
<1>0. /\ TypeOK /\ NumbersFit /\ BelowFits /\ AboveFits /\ OwnerFits /\ ReadersFit /\ DeletionsFit
      /\ Sync \in DBs /\ N \subseteq Int /\ top[Sync] \in Int /\ At \in Int /\ History \in Seq(Versions)
  BY Parts
<1>1. UNCHANGED <<cks, last, op, del, top>> /\ Pc = "open"
  BY DEF Process, Pc
<1>2. N' = N /\ Pc' = "open" /\ Boot' = Boot /\ ~Boot /\ Pc' = Pc
  BY <1>0, <1>1 DEF N, Numbers, Pc, Boot, OwnerFits
<1>3. cur'[Sync].num = cur[Sync].num /\ cur'[Sync].txs = Append(cur[Sync].txs, v)
  BY <1>0 DEF Process, TypeOK, Contents
<1>4. /\ At' = At /\ History' = Append(History, v) /\ At = cur[Sync].num /\ At >= 0
      /\ History = cur[Sync].txs
  BY <1>0, <1>1, <1>2, <1>3 DEF At, History, OwnerFits
<1>5. Len(History) = At /\ At < MaxBatch
  BY <1>4 DEF Process, Dirty
<1>6. Len(History') = At + 1
  BY <1>0, <1>4, <1>5
<1>7. Whole /\ Whole'
  BY <1>1, <1>2 DEF Whole
<1>8. NumbersFit'
  BY <1>0, <1>1, <1>2, <1>4 DEF NumbersFit, Recent
<1>9. BelowFits'
  <2> SUFFICES ASSUME NEW k \in 1..At
               PROVE  /\ k \in N => cks[Sync][k] = Empty \/ cks[Sync][k].txs = SubSeq(Append(History, v), 1, k)
                      /\ Recent(k) => k \in N /\ cks[Sync][k] # Empty
    BY <1>1, <1>2, <1>4 DEF BelowFits, Recent
  <2>1. SubSeq(Append(History, v), 1, k) = SubSeq(History, 1, k)
    BY <1>0, <1>5, BeginningOfAppend
  <2> QED
    BY <1>0, <1>7, <2>1 DEF BelowFits
<1>10. AboveFits' /\ DeletionsFit'
  BY <1>0, <1>1, <1>2, <1>4 DEF AboveFits, DeletionsFit
<1>11. OwnerFits'
  BY KVDBAssumption, <1>0, <1>1, <1>2, <1>3, <1>4, <1>5, <1>6 DEF OwnerFits
<1>12. ReadersFit'
  <2>1. last.txs = SubSeq(History, 1, At)
    BY <1>0, <1>1, <1>4 DEF ReadersFit
  <2>2. SubSeq(Append(History, v), 1, At) = SubSeq(History, 1, At)
    BY <1>0, <1>4, <1>5, BeginningOfAppend
  <2> QED
    BY <1>1, <1>3, <1>4, <2>1, <2>2 DEF ReadersFit
<1> QED
  BY <1>0, <1>1, <1>2, <1>4, <1>5, <1>8, <1>9, <1>10, <1>11, <1>12 DEF SyncFits, Calm

LEMMA SetCurrentBatchKept ==
  ASSUME IInv, SetCurrentBatch(Sync)
  PROVE  /\ SyncFits' /\ Calm
         /\ Pc = "open" /\ Pc' = "store" /\ At' = At /\ History' = History
<1>0. /\ TypeOK /\ NumbersFit /\ BelowFits /\ AboveFits /\ OwnerFits /\ ReadersFit /\ DeletionsFit
      /\ Sync \in DBs /\ N \subseteq Int /\ top[Sync] \in Int /\ At \in Int /\ History \in Seq(Versions)
      /\ cur[Sync].num \in Int
  BY Parts
<1>1. UNCHANGED <<cks, last, del, top>> /\ Pc = "open" /\ Running
  BY DEF SetCurrentBatch, Pc
<1>2. op'[Sync] = [Idle("store") EXCEPT !.make = TRUE]
  BY <1>0 DEF SetCurrentBatch, TypeOK
<1>3. N' = N /\ Pc' = "store" /\ Boot' = FALSE /\ ~Boot
  BY <1>0, <1>1, <1>2 DEF N, Numbers, Pc, Boot, OwnerFits, Idle
<1>4. cur'[Sync].num = cur[Sync].num + 1 /\ cur'[Sync].txs = cur[Sync].txs
  BY <1>0 DEF SetCurrentBatch, TypeOK, Contents
<1>5. At' = At /\ History' = History /\ At = cur[Sync].num /\ History = cur[Sync].txs
  BY <1>0, <1>1, <1>3, <1>4 DEF At, History
<1>6. Len(History) = At + 1 /\ Len(History) <= MaxBatch /\ At >= 0
  BY <1>0, <1>1, <1>5 DEF SetCurrentBatch, Dirty, OwnerFits
<1>7. Whole /\ Whole'
  BY <1>1, <1>3 DEF Whole
<1>8. NumbersFit'
  BY <1>0, <1>1, <1>3, <1>5 DEF NumbersFit, Recent
<1>9. BelowFits'
  BY <1>0, <1>1, <1>3, <1>5, <1>7 DEF BelowFits, Recent
<1>10. AboveFits' /\ DeletionsFit' /\ ReadersFit'
  BY <1>0, <1>1, <1>3, <1>5 DEF AboveFits, DeletionsFit, ReadersFit
<1>11. OwnerFits'
  BY KVDBAssumption, <1>0, <1>3, <1>4, <1>5, <1>6 DEF OwnerFits
<1> QED
  BY <1>0, <1>1, <1>3, <1>5, <1>8, <1>9, <1>10, <1>11 DEF SyncFits, Calm

LEMMA CheckpointKept ==
  ASSUME IInv, Checkpoint(Sync)
  PROVE  /\ SyncFits' /\ Calm
         /\ Pc = "store" /\ Pc' = "next" /\ At' = At + 1 /\ History' = History
         /\ Len(History) = At + 1 /\ At + 1 <= MaxBatch /\ At >= 0
<1>0. /\ TypeOK /\ NumbersFit /\ BelowFits /\ AboveFits /\ OwnerFits /\ ReadersFit /\ DeletionsFit
      /\ Sync \in DBs /\ N \subseteq Int /\ top[Sync] \in Int /\ At \in Int /\ History \in Seq(Versions)
      /\ cur[Sync].num \in Int
  BY Parts
<1> DEFINE n == At + 1
<1>1. UNCHANGED <<cur, last, del>> /\ Pc = "store"
  BY DEF Checkpoint, Pc
<1>2. n = cur[Sync].num /\ History = cur[Sync].txs /\ ~Boot /\ n >= 1 /\ Len(History) = n
      /\ n <= MaxBatch
  BY <1>0, <1>1 DEF At, History, OwnerFits
<1>3. op' = [op EXCEPT ![Sync].pc = "next", ![Sync].n = cur[Sync].num,
                       ![Sync].copies = <<Copy(Sync, "last")>>]
  BY DEF Checkpoint
<1>4. op'[Sync].pc = "next" /\ op'[Sync].n = n /\ op'[Sync].copies = <<Copy(Sync, "last")>>
      /\ op'[Sync].boot = op[Sync].boot
  BY <1>0, <1>2, <1>3 DEF TypeOK, Ops
<1>5. cks'[Sync] = With(cks[Sync], n, cur[Sync])
  BY <1>0, <1>2 DEF Checkpoint, Stored, TypeOK
<1>6. Pc' = "next" /\ Boot' = FALSE /\ At' = n
  BY <1>2, <1>4 DEF Pc, Boot, At
<1>7. /\ N' = N \cup {n} /\ cks'[Sync][n] = cur[Sync]
      /\ \A k \in N \ {n} : cks'[Sync][k] = cks[Sync][k]
  BY <1>5 DEF N, Numbers, With
<1>8. History' = History
  BY <1>2, <1>6, <1>7 DEF History, StoredAt, N
<1>9. top'[Sync] = IF n > top[Sync] THEN n ELSE top[Sync]
  BY <1>0, <1>2 DEF Checkpoint, TypeOK
<1>10. Whole
  BY <1>1, <1>2 DEF Whole
<1>11. NumbersFit'
  BY KVDBAssumption, <1>0, <1>1, <1>2, <1>6, <1>7, <1>9 DEF NumbersFit, Recent
<1>12. BelowFits'
  <2> SUFFICES ASSUME NEW k \in 1..n
               PROVE  /\ k \in N' => cks'[Sync][k] = Empty \/ cks'[Sync][k].txs = SubSeq(History, 1, k)
                      /\ Recent(k)' => k \in N' /\ cks'[Sync][k] # Empty
    BY <1>6, <1>8 DEF BelowFits
  <2>1. CASE k = n
    <3>1. SubSeq(History, 1, k) = History
      BY <1>0, <1>2, <2>1, BeginningIsAll
    <3>2. cur[Sync] # Empty
      BY <1>2 DEF Empty
    <3> QED
      BY <1>2, <1>7, <2>1, <3>1, <3>2
  <2>2. CASE k # n
    <3>1. k \in 1..At
      BY <1>0, <2>2
    <3>2. Recent(k)' => Recent(k)
      BY KVDBAssumption, <1>0, <1>9 DEF Recent
    <3> QED
      BY <1>0, <1>7, <1>10, <2>2, <3>1, <3>2 DEF BelowFits
  <2> QED
    BY <2>1, <2>2
<1>13. AboveFits'
  BY <1>0, <1>1, <1>6, <1>7 DEF AboveFits
<1>14. DeletionsFit' /\ ReadersFit'
  <2>1. del[Sync].list \subseteq Int
    BY <1>0 DEF TypeOK
  <2>2. ASSUME NEW k \in del[Sync].list PROVE Keep > 0 /\ k >= 1 /\ k <= top'[Sync] - Keep
    BY KVDBAssumption, <1>0, <1>2, <1>9, <2>1 DEF DeletionsFit
  <2> QED
    BY <1>1, <1>6, <2>2 DEF DeletionsFit, ReadersFit
<1>15. OwnerFits'
  <2>1. Len(op'[Sync].copies) = 1 /\ op'[Sync].copies # <<>>
    BY <1>4
  <2> QED
    BY <1>1, <1>2, <1>4, <1>6, <1>7, <2>1 DEF OwnerFits
<1>16. Calm
  BY <1>0, <1>1, <1>2, <1>6, <1>9 DEF Calm
<1>17. At >= 0
  BY <1>0, <1>2
<1> QED
  BY <1>1, <1>2, <1>6, <1>8, <1>17, <1>11, <1>12, <1>13, <1>14, <1>15, <1>16 DEF SyncFits

LEMMA FinishKept ==
  ASSUME IInv, Finish(Sync)
  PROVE  /\ SyncFits' /\ Calm
         /\ Pc = "next" /\ Pc' = "open" /\ At' = At /\ History' = History
         /\ Len(History) = At /\ last'.txs = History
<1>0. /\ TypeOK /\ NumbersFit /\ BelowFits /\ AboveFits /\ OwnerFits /\ ReadersFit /\ DeletionsFit
      /\ Sync \in DBs /\ N \subseteq Int /\ top[Sync] \in Int /\ At \in Int /\ History \in Seq(Versions)
  BY Parts
<1>1. UNCHANGED <<cks, cur, last, top>> /\ Pc = "next" /\ op[Sync].copies = <<>>
  BY DEF Finish, Pc
<1>2. At = op[Sync].n /\ At >= 1 /\ At \in N /\ cur[Sync] = cks[Sync][At] /\ last = cks[Sync][At]
  <2>1. Len(op[Sync].copies) # 2
    BY <1>1
  <2> QED
    BY <1>0, <1>1, <2>1 DEF OwnerFits, At
<1>3. op'[Sync] = Idle("open") /\ del'[Sync].list = del[Sync].list
  BY <1>0 DEF Finish, TypeOK
<1>4. Pc' = "open" /\ Boot' = FALSE /\ N' = N
  BY <1>1, <1>3 DEF Pc, Boot, Idle, N, Numbers
<1>5. Whole /\ Whole'
  BY <1>1, <1>2, <1>4 DEF Whole
<1>6. /\ cks[Sync][At] # Empty /\ cur[Sync].num = At /\ Len(cur[Sync].txs) = At
      /\ StoredAt(At) = cur[Sync].txs
  BY <1>2, <1>5, AtThere
<1>7. At' = At /\ History' = History /\ History = cur[Sync].txs
  BY <1>1, <1>4, <1>6 DEF At, History
<1>8. NumbersFit'
  BY <1>0, <1>1, <1>2, <1>4, <1>7 DEF NumbersFit, Recent
<1>9. BelowFits'
  BY <1>0, <1>1, <1>4, <1>5, <1>7 DEF BelowFits, Recent
<1>10. AboveFits'
  BY <1>0, <1>1, <1>4, <1>7 DEF AboveFits
<1>11. OwnerFits'
  BY <1>0, <1>1, <1>2, <1>4, <1>6, <1>7 DEF OwnerFits
<1>12. ReadersFit'
  BY <1>0, <1>1, <1>2, <1>4, <1>6, <1>7, BeginningIsAll DEF ReadersFit
<1>13. DeletionsFit'
  BY <1>0, <1>1, <1>3, <1>4 DEF DeletionsFit
<1> QED
  BY <1>0, <1>1, <1>2, <1>4, <1>6, <1>7, <1>8, <1>9, <1>10, <1>11, <1>12, <1>13 DEF SyncFits, Calm

-----------------------------------------------------------------------------
(* The copies of a checkpoint, which is found. *)

CopiesLeft == {<<Copy(Sync, "current"), Copy(Sync, "last")>>, <<Copy(Sync, "last")>>, <<>>}

LEMMA CopyHeads ==
  ASSUME op[Sync].copies \in CopiesLeft, op[Sync].copies # <<>>
  PROVE  /\ Source(Sync) = Sync
         /\ \/ /\ op[Sync].copies = <<Copy(Sync, "current"), Copy(Sync, "last")>>
               /\ Len(op[Sync].copies) = 2 /\ Head(op[Sync].copies).dest = "current"
               /\ Tail(op[Sync].copies) = <<Copy(Sync, "last")>> /\ Len(Tail(op[Sync].copies)) = 1
            \/ /\ op[Sync].copies = <<Copy(Sync, "last")>>
               /\ Len(op[Sync].copies) = 1 /\ Head(op[Sync].copies).dest = "last"
               /\ Tail(op[Sync].copies) = <<>> /\ Len(Tail(op[Sync].copies)) = 0
<1>1. CASE op[Sync].copies = <<Copy(Sync, "current"), Copy(Sync, "last")>>
  <2>1. /\ Head(op[Sync].copies) = Copy(Sync, "current") /\ Tail(op[Sync].copies) = <<Copy(Sync, "last")>>
        /\ Len(op[Sync].copies) = 2 /\ Len(<<Copy(Sync, "last")>>) = 1
    BY <1>1
  <2> QED
    BY <1>1, <2>1 DEF Source, Copy
<1>2. CASE op[Sync].copies = <<Copy(Sync, "last")>>
  <2>1. /\ Head(op[Sync].copies) = Copy(Sync, "last") /\ Tail(op[Sync].copies) = <<>>
        /\ Len(op[Sync].copies) = 1 /\ Len(<<>>) = 0
    BY <1>2
  <2> QED
    BY <1>2, <2>1 DEF Source, Copy
<1> QED
  BY <1>1, <1>2 DEF CopiesLeft

LEMMA FindSourceKept ==
  ASSUME IInv, FindSource(Sync)
  PROVE  /\ SyncFits'
         /\ \/ Exit /\ UNCHANGED <<cks, cur, top>> /\ Pc = "next"
            \/ Calm /\ Quiet
<1>0. /\ TypeOK /\ NumbersFit /\ BelowFits /\ AboveFits /\ OwnerFits /\ ReadersFit /\ DeletionsFit
      /\ Sync \in DBs /\ N \subseteq Int /\ top[Sync] \in Int /\ At \in Int /\ History \in Seq(Versions)
  BY Parts
<1>1. UNCHANGED <<cks, cur, top>> /\ Pc = "next" /\ op[Sync].copies # <<>> /\ At = op[Sync].n
  BY DEF FindSource, Pc, At
<1>2. At >= 1 /\ op[Sync].copies \in CopiesLeft
  BY <1>0, <1>1 DEF OwnerFits, CopiesLeft
<1>3. Source(Sync) = Sync
  BY <1>1, <1>2, CopyHeads
<1>4. CASE At \in N
  <2>1. UNCHANGED <<last, del>> /\ op' = [op EXCEPT ![Sync].pc = "found"]
    BY <1>1, <1>3, <1>4 DEF FindSource, N
  <2>2. op'[Sync].pc = "found" /\ op'[Sync].n = op[Sync].n /\ op'[Sync].copies = op[Sync].copies
        /\ op'[Sync].boot = op[Sync].boot
    BY <1>0, <2>1 DEF TypeOK, Ops
  <2>3. Pc' = "found" /\ Boot' = Boot /\ N' = N /\ At' = At
    BY <1>1, <2>2 DEF Pc, Boot, N, Numbers, At
  <2>4. History' = History
    BY <1>1, <2>3 DEF History, StoredAt, Numbers
  <2>5. Whole' <=> Whole
    BY <1>1, <2>3 DEF Whole
  <2>6. NumbersFit'
    BY <1>0, <1>1, <1>2, <2>3 DEF NumbersFit, Recent
  <2>7. BelowFits'
    BY <1>0, <1>1, <2>3, <2>4, <2>5 DEF BelowFits, Recent
  <2>8. AboveFits' /\ DeletionsFit' /\ ReadersFit'
    BY <1>0, <1>1, <2>1, <2>3 DEF AboveFits, DeletionsFit, ReadersFit
  <2>9. OwnerFits'
    BY <1>0, <1>1, <1>2, <1>4, <2>2, <2>3 DEF OwnerFits
  <2> QED
    BY <1>0, <1>1, <2>3, <2>4, <2>6, <2>7, <2>8, <2>9 DEF SyncFits, Calm, Quiet
<1>5. CASE At \notin N
  <2>1. Fail(Sync, FALSE)
    BY <1>1, <1>3, <1>5 DEF FindSource, N
  <2>2. Boot
    BY <1>2, <1>5, <1>1, AtThere DEF Whole
  <2>3. Exit
    BY <2>1, <2>2 DEF Fail, Boot
  <2>4. Pc # "store"
    BY <1>1
  <2> QED
    BY <1>1, <2>3, <2>4, ExitKept
<1> QED
  BY <1>4, <1>5

LEMMA OpenSourceKept ==
  ASSUME IInv, OpenSource(Sync)
  PROVE  SyncFits' /\ Calm /\ Quiet
<1>0. /\ TypeOK /\ NumbersFit /\ BelowFits /\ AboveFits /\ OwnerFits /\ ReadersFit /\ DeletionsFit
      /\ Sync \in DBs /\ N \subseteq Int /\ top[Sync] \in Int /\ At \in Int /\ History \in Seq(Versions)
  BY Parts
<1>1. UNCHANGED <<cur, last, del, top>> /\ Pc = "found" /\ At = op[Sync].n
  BY DEF OpenSource, Pc, At
<1>2. At >= 1 /\ op[Sync].copies \in CopiesLeft /\ op[Sync].copies # <<>> /\ At \in N
  BY <1>0, <1>1 DEF OwnerFits, CopiesLeft
<1>3. Source(Sync) = Sync
  BY <1>2, CopyHeads
<1>4. cks' = cks
  BY <1>1, <1>2, <1>3 DEF OpenSource, N
<1>5. op' = [op EXCEPT ![Sync].pc = "copy", ![Sync].held = cks[Sync][At]]
  BY <1>1, <1>3, <1>4 DEF OpenSource
<1>6. op'[Sync].pc = "copy" /\ op'[Sync].n = op[Sync].n /\ op'[Sync].copies = op[Sync].copies
      /\ op'[Sync].boot = op[Sync].boot /\ op'[Sync].held = cks[Sync][At]
  BY <1>0, <1>5 DEF TypeOK, Ops
<1>7. Pc' = "copy" /\ Boot' = Boot /\ N' = N /\ At' = At
  BY <1>1, <1>4, <1>6 DEF Pc, Boot, N, Numbers, At
<1>8. History' = History
  BY <1>1, <1>4, <1>7 DEF History, StoredAt, Numbers
<1>9. Whole' <=> Whole
  BY <1>1, <1>7 DEF Whole
<1>10. NumbersFit'
  BY <1>0, <1>1, <1>2, <1>4, <1>7 DEF NumbersFit, Recent
<1>11. BelowFits'
  BY <1>0, <1>1, <1>4, <1>7, <1>8, <1>9 DEF BelowFits, Recent
<1>12. AboveFits' /\ DeletionsFit' /\ ReadersFit'
  BY <1>0, <1>1, <1>4, <1>7 DEF AboveFits, DeletionsFit, ReadersFit
<1>13. OwnerFits'
  BY <1>0, <1>1, <1>2, <1>4, <1>6, <1>7 DEF OwnerFits
<1> QED
  BY <1>0, <1>1, <1>7, <1>8, <1>10, <1>11, <1>12, <1>13 DEF SyncFits, Calm, Quiet

LEMMA CopySourceKept ==
  ASSUME IInv, CopySource(Sync)
  PROVE  SyncFits' /\ Calm /\ Quiet
<1>0. /\ TypeOK /\ NumbersFit /\ BelowFits /\ AboveFits /\ OwnerFits /\ ReadersFit /\ DeletionsFit
      /\ Sync \in DBs /\ N \subseteq Int /\ top[Sync] \in Int /\ At \in Int /\ History \in Seq(Versions)
  BY Parts
<1>1. UNCHANGED top /\ Pc = "copy" /\ At = op[Sync].n
  BY DEF CopySource, Pc, At
<1>2. /\ At >= 1 /\ At <= MaxBatch /\ op[Sync].copies \in CopiesLeft /\ op[Sync].copies # <<>> /\ At \in N
      /\ op[Sync].held = cks[Sync][At]
  BY <1>0, <1>1 DEF OwnerFits, CopiesLeft
<1>3. /\ Source(Sync) = Sync
      /\ \/ /\ Len(op[Sync].copies) = 2 /\ Head(op[Sync].copies).dest = "current"
            /\ Tail(op[Sync].copies) = <<Copy(Sync, "last")>> /\ Len(Tail(op[Sync].copies)) = 1
         \/ /\ Len(op[Sync].copies) = 1 /\ Head(op[Sync].copies).dest = "last"
            /\ Tail(op[Sync].copies) = <<>> /\ Len(Tail(op[Sync].copies)) = 0
  BY <1>2, CopyHeads
<1> DEFINE dest == Head(op[Sync].copies).dest
           rest == Tail(op[Sync].copies)
<1>4. /\ op' = [op EXCEPT ![Sync].pc = "next", ![Sync].copies = rest, ![Sync].held = Missing]
      /\ cur' = (IF dest = "current" THEN [cur EXCEPT ![Sync] = cks[Sync][At]] ELSE cur)
      /\ last' = (IF dest = "last" THEN cks[Sync][At] ELSE last)
      /\ cks' = cks /\ del' = del
  <2>1. op[Sync].n \in Numbers(Source(Sync)) /\ cks[Source(Sync)][op[Sync].n] = op[Sync].held
    BY <1>1, <1>2, <1>3 DEF N
  <2> QED
    BY <1>2, <1>3, <2>1 DEF CopySource
<1>5. /\ \/ Len(op[Sync].copies) = 2 /\ dest = "current" /\ rest = <<Copy(Sync, "last")>>
            /\ Len(rest) = 1 /\ rest # <<>>
         \/ Len(op[Sync].copies) = 1 /\ dest = "last" /\ rest = <<>> /\ Len(rest) = 0
  BY <1>3
<1> HIDE DEF dest, rest
<1>6. op'[Sync].pc = "next" /\ op'[Sync].n = op[Sync].n /\ op'[Sync].copies = rest
      /\ op'[Sync].boot = op[Sync].boot
  BY <1>0, <1>4 DEF TypeOK, Ops
<1>7. Pc' = "next" /\ Boot' = Boot /\ N' = N /\ At' = At
  BY <1>1, <1>4, <1>6 DEF Pc, Boot, N, Numbers, At
<1>8. History' = History
  BY <1>1, <1>4, <1>7 DEF History, StoredAt, Numbers
<1>9. Whole' <=> Whole
  BY <1>1, <1>7 DEF Whole
<1>10. NumbersFit'
  BY <1>0, <1>1, <1>2, <1>4, <1>7 DEF NumbersFit, Recent
<1>11. BelowFits'
  BY <1>0, <1>1, <1>4, <1>7, <1>8, <1>9 DEF BelowFits, Recent
<1>12. AboveFits' /\ DeletionsFit' /\ ReadersFit'
  BY <1>0, <1>1, <1>4, <1>7 DEF AboveFits, DeletionsFit, ReadersFit
<1>13. OwnerFits'
  <2>1. cur'[Sync] = cks[Sync][At]
    <3>1. CASE dest = "current"
      BY <1>0, <1>4, <3>1 DEF TypeOK
    <3>2. CASE dest # "current"
      BY <1>0, <1>1, <1>4, <1>5, <3>2 DEF OwnerFits
    <3> QED
      BY <3>1, <3>2
  <2>2. rest = <<>> => last' = cks[Sync][At]
    BY <1>4, <1>5
  <2>3. rest \in {<<Copy(Sync, "last")>>, <<>>} /\ Len(rest) # 2
    BY <1>5
  <2>4. op'[Sync].n = At
    BY <1>1, <1>6
  <2>5. cks'[Sync][At] = cks[Sync][At] /\ cur'[Sync] = cks'[Sync][At]
    BY <1>4, <2>1
  <2>6. Boot' = Boot /\ Pc' = "next" /\ At' = At /\ At \in N'
    BY <1>2, <1>7
  <2> QED
    BY <1>0, <1>2, <1>6, <2>2, <2>3, <2>4, <2>5, <2>6 DEF OwnerFits
<1> QED
  BY <1>0, <1>1, <1>7, <1>8, <1>10, <1>11, <1>12, <1>13 DEF SyncFits, Calm, Quiet

-----------------------------------------------------------------------------
(* Resets: what is above the number goes, what is below is of one history. *)

LEMMA ResetKept ==
  ASSUME IInv, NEW n \in 0..MaxBatch, Reset(Sync, n)
  PROVE  /\ SyncFits' /\ Calm
         /\ Pc \in {"open", "closed"} /\ Whole /\ Recent(n) /\ n <= At
         /\ (Pc = "open" => At <= Len(History)) /\ History' = StoredAt(n)
         /\ Pc' = "delete" \/ (Pc' = "closed" /\ HasGap(Sync))
<1>0. /\ TypeOK /\ NumbersFit /\ BelowFits /\ AboveFits /\ OwnerFits /\ ReadersFit /\ DeletionsFit
      /\ Sync \in DBs /\ N \subseteq Int /\ top[Sync] \in Int /\ At \in Int /\ History \in Seq(Versions)
  BY Parts
<1> DEFINE o == ResetTo(Sync, n)
<1>1. UNCHANGED <<cks, top>> /\ Pc \in {"open", "closed"} /\ Running /\ Recent(n) /\ BeginReset(Sync, o)
  BY DEF Reset, Pc, WithinKeep, Recent
<1>2. /\ n <= At /\ ~Boot /\ Pc # "down" /\ At <= MaxBatch
      /\ Pc = "open" => At <= Len(cur[Sync].txs)
  BY <1>0, <1>1 DEF Reset, Pc, At, OwnerFits
<1>3. o.pc = "delete" /\ o.n = n /\ o.list = {k \in N : k > n} /\ o.boot = FALSE
      /\ o.copies = <<Copy(Sync, "current"), Copy(Sync, "last")>>
  BY DEF ResetTo, Idle, ResetCopies, Above, N
<1> HIDE DEF o
<1>4. Whole
  BY <1>2 DEF Whole
<1>5. /\ UNCHANGED <<last, del>> /\ cur'[Sync] = Missing
      /\ op'[Sync] = o \/ op'[Sync] = ClosedAt(n)
  BY <1>0, <1>1, <1>3 DEF BeginReset, TypeOK
<1>6. /\ op'[Sync].n = n /\ Boot' = FALSE
      /\ \/ Pc' = "delete" /\ op'[Sync] = o
         \/ Pc' = "closed"
  BY <1>3, <1>5 DEF ClosedAt, Idle, Pc, Boot
<1>7. At' = n /\ N' = N /\ Whole'
  BY <1>1, <1>6 DEF At, N, Numbers, Whole
<1>8. History' = StoredAt(n)
  BY <1>1, <1>6, <1>7 DEF History, StoredAt, Numbers
<1>9. NumbersFit'
  BY <1>0, <1>1, <1>2, <1>6, <1>7 DEF NumbersFit, Recent
<1>10. BelowFits'
  <2> SUFFICES ASSUME NEW k \in 1..n
               PROVE  /\ k \in N => cks[Sync][k] = Empty \/ cks[Sync][k].txs = SubSeq(StoredAt(n), 1, k)
                      /\ Recent(k) => k \in N /\ cks[Sync][k] # Empty
    BY <1>1, <1>7, <1>8 DEF BelowFits, Recent
  <2>1. StoredAt(n) = SubSeq(History, 1, n)
    BY <1>1, <1>2, <1>4, CheckpointThere
  <2>2. n <= Len(History)
    <3>1. CASE Pc = "open"
      <4>1. History = cur[Sync].txs /\ Len(History) \in Nat
        BY <1>0, <3>1 DEF History
      <4> QED
        BY <1>0, <1>2, <3>1, <4>1
    <3>2. CASE Pc = "closed"
      <4>1. History = StoredAt(At) /\ Len(StoredAt(At)) = At
        <5>1. At >= 1
          BY <1>0, <1>2
        <5> QED
          BY <1>4, <3>2, <5>1, AtThere DEF History
      <4> QED
        BY <1>0, <1>2, <4>1
    <3> QED
      BY <1>1, <3>1, <3>2
  <2>3. SubSeq(StoredAt(n), 1, k) = SubSeq(History, 1, k)
    BY <1>0, <2>1, <2>2, BeginningOfBeginning
  <2>4. k \in 1..At
    BY <1>0, <1>2
  <2> QED
    BY <1>0, <1>4, <2>3, <2>4 DEF BelowFits
<1>11. AboveFits'
  BY <1>0, <1>3, <1>6, <1>7 DEF AboveFits
<1>12. OwnerFits'
  BY <1>0, <1>2, <1>3, <1>5, <1>6, <1>7 DEF OwnerFits
<1>13. ReadersFit' /\ DeletionsFit'
  BY <1>0, <1>1, <1>5, <1>6 DEF ReadersFit, DeletionsFit
<1>14. Calm
  BY <1>0, <1>1, <1>6 DEF Calm
<1>15. Pc' = "delete" \/ (Pc' = "closed" /\ HasGap(Sync))
  <2>1. CASE HasGap(Sync)
    BY <1>6, <2>1
  <2>2. CASE ~HasGap(Sync)
    <3>1. op'[Sync] = o
      BY <1>0, <1>1, <2>2 DEF BeginReset, TypeOK
    <3> QED
      BY <1>3, <3>1 DEF Pc
  <2> QED
    BY <2>1, <2>2
<1>16. Pc = "open" => At <= Len(History)
  BY <1>2 DEF History
<1> QED
  BY <1>1, <1>2, <1>4, <1>8, <1>15, <1>16, <1>9, <1>10, <1>11, <1>12, <1>13, <1>14 DEF SyncFits

\* a checkpoint that is deleted is not of a batch up to At that is kept
LEMMA LowestOf ==
  ASSUME NEW S, S \subseteq Int, S # {}, \A k \in S : k >= 1
  PROVE  Min(S) \in S
<1>1. S \subseteq Nat
  OBVIOUS
<1>2. \E n \in S : \A m \in S : n <= m
  BY <1>1, LeastElement
<1> QED
  BY <1>2 DEF Min

LEMMA DeleteNextKept ==
  ASSUME IInv, DeleteNext(Sync)
  PROVE  SyncFits' /\ Calm /\ Quiet
<1>0. /\ TypeOK /\ NumbersFit /\ BelowFits /\ AboveFits /\ OwnerFits /\ ReadersFit /\ DeletionsFit
      /\ Sync \in DBs /\ N \subseteq Int /\ top[Sync] \in Int /\ At \in Int /\ History \in Seq(Versions)
  BY Parts
<1> DEFINE n == Min(op[Sync].list)
<1>1. UNCHANGED <<cur, top>> /\ Pc = "delete" /\ op[Sync].list # {} /\ At = op[Sync].n
  BY DEF DeleteNext, Pc, At
<1>2. /\ At >= 0 /\ At <= MaxBatch /\ cur[Sync] = Missing
      /\ op[Sync].list \subseteq N /\ \A k \in op[Sync].list : k > At
      /\ op[Sync].copies = <<Copy(Sync, "current"), Copy(Sync, "last")>>
  BY <1>0, <1>1 DEF OwnerFits
<1>3. n \in op[Sync].list
  <2>1. op[Sync].list \subseteq Int
    BY <1>0, <1>2
  <2>2. ASSUME NEW k \in op[Sync].list PROVE k >= 1
    <3>1. k \in Int /\ k > At
      BY <1>2, <2>1
    <3> QED
      BY <1>0, <1>2, <3>1
  <2> QED
    BY <1>1, <2>1, <2>2, LowestOf
<1>4. n \in N /\ n > At
  BY <1>2, <1>3
<1> HIDE DEF n
<1>5. /\ cks' = [cks EXCEPT ![Sync] = Without(@, n)] /\ op' = [op EXCEPT ![Sync].list = @ \ {n}]
      /\ UNCHANGED <<last, del>>
  BY <1>4 DEF DeleteNext, N, n
<1>6. /\ op'[Sync].pc = "delete" /\ op'[Sync].n = op[Sync].n /\ op'[Sync].copies = op[Sync].copies
      /\ op'[Sync].boot = op[Sync].boot /\ op'[Sync].list = op[Sync].list \ {n}
  BY <1>0, <1>1, <1>5 DEF TypeOK, Ops, Pc
<1>7. cks'[Sync] = Without(cks[Sync], n)
  BY <1>0, <1>5 DEF TypeOK
<1>8. N' = N \ {n} /\ \A k \in N \ {n} : cks'[Sync][k] = cks[Sync][k]
  BY <1>7 DEF N, Numbers, Without
<1>9. Pc' = "delete" /\ Boot' = Boot /\ At' = At
  BY <1>1, <1>6 DEF Pc, Boot, At
<1>10. History' = History
  BY <1>0, <1>1, <1>4, <1>8, <1>9 DEF History, StoredAt, N
<1>11. Whole' <=> Whole
  BY <1>0, <1>1, <1>4, <1>8, <1>9 DEF Whole
<1>12. NumbersFit'
  BY <1>0, <1>1, <1>8, <1>9 DEF NumbersFit, Recent
<1>13. BelowFits'
  <2> SUFFICES ASSUME Whole, NEW k \in 1..At
               PROVE  /\ k \in N' => cks'[Sync][k] = Empty \/ cks'[Sync][k].txs = SubSeq(History, 1, k)
                      /\ Recent(k) => k \in N' /\ cks'[Sync][k] # Empty
    BY <1>1, <1>9, <1>10, <1>11 DEF BelowFits, Recent
  <2>1. k # n
    BY <1>0, <1>4
  <2> QED
    BY <1>0, <1>8, <2>1 DEF BelowFits
<1>14. AboveFits'
  BY <1>0, <1>1, <1>6, <1>8, <1>9 DEF AboveFits
<1>15. OwnerFits'
  BY <1>1, <1>2, <1>6, <1>8, <1>9 DEF OwnerFits
<1>16. ReadersFit' /\ DeletionsFit'
  BY <1>0, <1>1, <1>5, <1>9 DEF ReadersFit, DeletionsFit
<1> QED
  BY <1>0, <1>1, <1>9, <1>10, <1>12, <1>13, <1>14, <1>15, <1>16 DEF SyncFits, Calm, Quiet

LEMMA AllDeletedKept ==
  ASSUME IInv, AllDeleted(Sync)
  PROVE  /\ SyncFits' /\ Calm
         /\ \/ /\ At = 0 /\ Pc = "delete" /\ Pc' = "open" /\ At' = 0 /\ History' = <<>>
               /\ last'.txs = <<>>
            \/ Quiet
<1>0. /\ TypeOK /\ NumbersFit /\ BelowFits /\ AboveFits /\ OwnerFits /\ ReadersFit /\ DeletionsFit
      /\ Sync \in DBs /\ N \subseteq Int /\ top[Sync] \in Int /\ At \in Int /\ History \in Seq(Versions)
  BY Parts
<1>1. UNCHANGED <<cks, del, top>> /\ Pc = "delete" /\ op[Sync].list = {} /\ At = op[Sync].n
  BY DEF AllDeleted, Pc, At
<1>2. /\ At >= 0 /\ At <= MaxBatch /\ cur[Sync] = Missing /\ Recent(At)
      /\ op[Sync].copies = <<Copy(Sync, "current"), Copy(Sync, "last")>>
  BY <1>0, <1>1 DEF OwnerFits, NumbersFit
<1>3. N' = N /\ \A k \in N : k > At => cks[Sync][k] = Empty /\ ~Boot
  BY <1>0, <1>1 DEF N, Numbers, AboveFits
<1>4. CASE At = 0
  <2>1. op'[Sync] = Idle("open") /\ cur'[Sync] = Empty /\ last' = Empty
    BY <1>0, <1>1, <1>4 DEF AllDeleted, TypeOK
  <2>2. Pc' = "open" /\ Boot' = FALSE
    BY <2>1 DEF Pc, Boot, Idle
  <2>3. At' = 0 /\ History' = <<>>
    BY <2>1, <2>2 DEF At, History, Empty
  <2>4. NumbersFit'
    <3>1. Boot => N = {}
      BY <1>0, <1>3, <1>4 DEF NumbersFit
    <3>2. \A k \in N : k <= top[Sync]
      BY <1>0, <1>1, <3>1 DEF NumbersFit
    <3>3. \A k \in N : k >= 1 /\ (cks[Sync][k] = Empty \/ (cks[Sync][k].num = k /\ Len(cks[Sync][k].txs) = k))
      BY <1>0 DEF NumbersFit
    <3> QED
      BY <1>0, <1>1, <1>2, <1>3, <1>4, <2>2, <2>3, <3>2, <3>3 DEF NumbersFit, Recent
  <2>5. BelowFits'
    BY <2>3 DEF BelowFits
  <2>6. AboveFits'
    BY <1>1, <1>3, <1>4, <2>2, <2>3 DEF AboveFits
  <2>7. OwnerFits'
    BY KVDBAssumption, <2>1, <2>2, <2>3 DEF OwnerFits, Empty
  <2>8. ReadersFit'
    <3>1. SubSeq(<<>>, 1, 0) = <<>>
      OBVIOUS
    <3> QED
      BY <2>1, <3>1 DEF ReadersFit, Empty
  <2>9. DeletionsFit'
    BY <1>0, <1>1, <2>2 DEF DeletionsFit
  <2> QED
    BY <1>0, <1>1, <1>4, <2>1, <2>2, <2>3, <2>4, <2>5, <2>6, <2>7, <2>8, <2>9 DEF SyncFits, Calm, Empty
<1>5. CASE At # 0
  <2>1. op' = [op EXCEPT ![Sync].pc = "next"] /\ UNCHANGED <<cur, last>>
    BY <1>1, <1>5 DEF AllDeleted
  <2>2. op'[Sync].pc = "next" /\ op'[Sync].n = op[Sync].n /\ op'[Sync].copies = op[Sync].copies
        /\ op'[Sync].boot = op[Sync].boot
    BY <1>0, <2>1 DEF TypeOK, Ops
  <2>3. Pc' = "next" /\ Boot' = Boot /\ At' = At
    BY <1>1, <2>2 DEF Pc, Boot, At
  <2>4. History' = History
    BY <1>1, <2>3 DEF History, StoredAt, Numbers
  <2>5. Whole' <=> Whole
    BY <1>1, <1>3, <2>3 DEF Whole
  <2>6. NumbersFit'
    BY <1>0, <1>1, <1>2, <1>3, <2>3 DEF NumbersFit, Recent
  <2>7. BelowFits'
    BY <1>0, <1>1, <1>3, <2>3, <2>4, <2>5 DEF BelowFits, Recent
  <2>8. AboveFits'
    BY <1>1, <1>3, <2>3 DEF AboveFits
  <2>9. OwnerFits'
    <3>1. Len(op'[Sync].copies) = 2 /\ op'[Sync].copies # <<>>
      BY <1>2, <2>2
    <3> QED
      BY <1>0, <1>1, <1>2, <1>5, <2>1, <2>2, <2>3, <3>1 DEF OwnerFits
  <2>10. ReadersFit' /\ DeletionsFit'
    BY <1>0, <1>1, <2>3 DEF ReadersFit, DeletionsFit
  <2> QED
    BY <1>0, <1>1, <2>3, <2>4, <2>6, <2>7, <2>8, <2>9, <2>10 DEF SyncFits, Calm, Quiet
<1> QED
  BY <1>4, <1>5

-----------------------------------------------------------------------------
(* The start of the node, and the deletions in the background. *)

LEMMA RestartKept ==
  ASSUME IInv, Restart(Sync)
  PROVE  /\ SyncFits' /\ Pc = "down"
         /\ \/ Exit /\ UNCHANGED cks /\ cur'[Sync] = Missing
            \/ Calm /\ Pc' = "delete" /\ History' = History
<1>0. /\ TypeOK /\ NumbersFit /\ BelowFits /\ AboveFits /\ OwnerFits /\ ReadersFit /\ DeletionsFit
      /\ Sync \in DBs /\ N \subseteq Int /\ top[Sync] \in Int /\ At \in Int /\ History \in Seq(Versions)
      /\ cur[Sync].num \in Int
  BY Parts
<1> DEFINE n == IF cur[Sync] = Missing THEN 0 ELSE cur[Sync].num
           o == [ResetTo(Sync, n) EXCEPT !.boot = TRUE]
<1>1. /\ UNCHANGED cks /\ Pc = "down" /\ BeginReset(Sync, o)
      /\ top'[Sync] = IF n = 0 THEN 0 ELSE top[Sync]
  BY <1>0 DEF Restart, Pc, TypeOK
<1>2. At = cur[Sync].num /\ At <= MaxBatch /\ n >= 0 /\ n \in Int /\ (n # 0 => n = At)
  BY <1>0, <1>1 DEF At, OwnerFits
<1>3. o.pc = "delete" /\ o.n = n /\ o.list = {k \in N : k > n} /\ o.boot = TRUE
      /\ o.copies = <<Copy(Sync, "current"), Copy(Sync, "last")>>
  BY DEF ResetTo, Idle, ResetCopies, Above, N
<1> HIDE DEF o, n
<1>4. cur'[Sync] = Missing
  BY <1>0, <1>1 DEF BeginReset, TypeOK
<1>5. top'[Sync] >= 0 /\ top'[Sync] \in Int
  BY <1>0, <1>1 DEF NumbersFit
<1>6. CASE HasGap(Sync)
  <2>1. Exit
    BY <1>1, <1>3, <1>6 DEF BeginReset
  <2> QED
    BY <1>1, <1>4, <1>5, <2>1, ExitEmpty
<1>7. CASE ~HasGap(Sync)
  <2>1. op'[Sync] = o /\ UNCHANGED <<last, del>>
    BY <1>0, <1>1, <1>7 DEF BeginReset, TypeOK
  <2>2. Pc' = "delete" /\ Boot' = TRUE /\ At' = n /\ N' = N
    BY <1>1, <1>3, <2>1 DEF Pc, Boot, At, N, Numbers
  <2>3. History' = StoredAt(n)
    BY <1>1, <2>2 DEF History, StoredAt, Numbers
  <2>4. NumbersFit'
    BY KVDBAssumption, <1>0, <1>1, <1>2, <1>5, <2>2 DEF NumbersFit, Recent
  <2>5. BelowFits'
    <3>1. CASE n = 0
      BY <2>2, <3>1 DEF BelowFits
    <3>2. CASE n # 0
      <4>1. n = At /\ History' = History /\ top'[Sync] = top[Sync]
        BY <1>1, <1>2, <2>3, <3>2 DEF History
      <4>2. Whole' <=> Whole
        BY <1>1, <2>2, <4>1 DEF Whole
      <4> QED
        BY <1>0, <1>1, <2>2, <4>1, <4>2 DEF BelowFits, Recent
    <3> QED
      BY <3>1, <3>2
  <2>6. AboveFits'
    BY <1>3, <2>1, <2>2 DEF AboveFits
  <2>7. OwnerFits'
    BY KVDBAssumption, <1>2, <1>3, <1>4, <2>1, <2>2 DEF OwnerFits
  <2>8. ReadersFit'
    BY <2>2 DEF ReadersFit
  <2>9. DeletionsFit'
    <3>1. del'[Sync] = NoDeletion
      BY <1>0, <1>1, <2>1 DEF DeletionsFit
    <3> QED
      BY <3>1 DEF DeletionsFit, NoDeletion
  <2>10. Calm
    BY <1>1, <2>2 DEF Calm
  <2>11. History' = History
    <3>1. \A k \in Int : k < 1 => StoredAt(k) = <<>>
      BY <1>0 DEF NumbersFit, StoredAt, N
    <3>2. cur[Sync].num < 1 => History = <<>>
      BY <1>0, <1>1, <1>2, <3>1 DEF History
    <3>3. CASE n = 0
      <4>1. cur[Sync].num < 1
        BY <3>3 DEF n, Missing
      <4> QED
        BY <2>3, <3>1, <3>2, <3>3, <4>1
    <3>4. CASE n # 0
      BY <1>1, <1>2, <2>3, <3>4 DEF History
    <3> QED
      BY <3>3, <3>4
  <2> QED
    BY <1>1, <2>2, <2>11, <2>4, <2>5, <2>6, <2>7, <2>8, <2>9, <2>10 DEF SyncFits
<1> QED
  BY <1>6, <1>7

\* what is listed for deletion is older than any checkpoint that is needed
LEMMA OldIsOld ==
  ASSUME IInv, Pc # "down", ~Boot, NEW k \in Old(Sync)
  PROVE  k \in N /\ Keep > 0 /\ k >= 1 /\ k <= top[Sync] - Keep
<1>0. NumbersFit /\ N \subseteq Int /\ top[Sync] \in Int
  BY Parts
<1>1. k \in N /\ Keep # 0 /\ Newer(Sync, k) >= Keep
  BY DEF Old, N
<1>2. k \in Int /\ k >= 1 /\ \A m \in N : m <= top[Sync]
  BY <1>0, <1>1 DEF NumbersFit
<1> DEFINE T == {m \in N : m > k}
<1>3. T \in SUBSET (k + 1 .. top[Sync])
  <2>1. ASSUME NEW m \in T PROVE m \in k + 1 .. top[Sync]
    <3>1. m \in Int /\ m > k /\ m <= top[Sync]
      BY <1>0, <1>2
    <3> QED
      BY <1>0, <1>2, <3>1
  <2> QED
    BY <2>1
<1>4. IsFiniteSet(k + 1 .. top[Sync]) /\ Cardinality(k + 1 .. top[Sync]) = top[Sync] - k
  <2>1. k + 1 \in Int /\ top[Sync] \in Int /\ k <= top[Sync]
    BY <1>0, <1>1, <1>2
  <2>2. /\ IsFiniteSet(k + 1 .. top[Sync])
        /\ Cardinality(k + 1 .. top[Sync]) = IF k + 1 > top[Sync] THEN 0 ELSE top[Sync] - (k + 1) + 1
    BY <2>1, FS_Interval
  <2> QED
    BY <1>2, <2>1, <2>2
<1>5. IsFiniteSet(T) /\ Cardinality(T) <= top[Sync] - k
  BY <1>3, <1>4, FS_Subset
<1>6. Cardinality(T) \in Nat
  BY <1>5, FS_CardinalityType
<1>7. Newer(Sync, k) = Cardinality(T)
  BY DEF Newer, N
<1> HIDE DEF T
<1> QED
  BY KVDBAssumption, <1>0, <1>1, <1>2, <1>5, <1>6, <1>7

LEMMA ListOldKept ==
  ASSUME IInv, ListOld(Sync)
  PROVE  /\ SyncFits' /\ Calm
         /\ Pc' = Pc /\ At' = At /\ History' = History /\ last' = last
<1>0. /\ TypeOK /\ NumbersFit /\ BelowFits /\ AboveFits /\ OwnerFits /\ ReadersFit /\ DeletionsFit
      /\ Sync \in DBs /\ N \subseteq Int /\ top[Sync] \in Int
  BY Parts
<1>1. UNCHANGED <<cks, cur, last, op, top>> /\ del[Sync].waiting > 0
      /\ del'[Sync].list = Old(Sync)
  BY <1>0 DEF ListOld, TypeOK
<1>2. Pc # "down" /\ ~Boot
  BY <1>0, <1>1 DEF DeletionsFit, NoDeletion
<1>3. N' = N /\ Pc' = Pc /\ Boot' = Boot /\ At' = At /\ History' = History /\ (Whole' <=> Whole)
  BY <1>1 DEF N, Numbers, Pc, Boot, At, History, StoredAt, Whole
<1>4. NumbersFit'
  BY <1>0, <1>1, <1>3 DEF NumbersFit, Recent
<1>5. BelowFits'
  BY <1>0, <1>1, <1>3 DEF BelowFits, Recent
<1>6. AboveFits' /\ ReadersFit' /\ OwnerFits'
  BY <1>0, <1>1, <1>3 DEF AboveFits, ReadersFit, OwnerFits
<1>7. DeletionsFit'
  BY <1>1, <1>2, <1>3, OldIsOld DEF DeletionsFit
<1> QED
  BY <1>3, <1>0, <1>1, <1>3, <1>4, <1>5, <1>6, <1>7 DEF SyncFits, Calm

LEMMA DeleteOldKept ==
  ASSUME IInv, DeleteOld(Sync)
  PROVE  /\ SyncFits' /\ Calm
         /\ Pc' = Pc /\ At' = At /\ History' = History /\ last' = last
<1>0. /\ TypeOK /\ NumbersFit /\ BelowFits /\ AboveFits /\ OwnerFits /\ ReadersFit /\ DeletionsFit
      /\ Sync \in DBs /\ N \subseteq Int /\ top[Sync] \in Int /\ At \in Int /\ History \in Seq(Versions)
  BY Parts
<1> DEFINE n == Min(del[Sync].list)
<1>1. UNCHANGED <<cur, last, op, top>> /\ del[Sync].list # {}
      /\ cks' = [cks EXCEPT ![Sync] = Without(@, n)]
      /\ del'[Sync].list \subseteq del[Sync].list
  BY <1>0 DEF DeleteOld, TypeOK
<1>2. Pc # "down" /\ ~Boot
  BY <1>0, <1>1 DEF DeletionsFit, NoDeletion
<1>3. n \in del[Sync].list
  <2>1. del[Sync].list \subseteq Int
    BY <1>0 DEF TypeOK
  <2> QED
    BY <1>0, <1>1, <2>1, LowestOf DEF DeletionsFit
<1>4. n \in Int /\ ~Recent(n)
  <2>1. n \in Int
    BY <1>0, <1>3 DEF TypeOK
  <2> QED
    BY KVDBAssumption, <1>0, <1>3, <2>1 DEF DeletionsFit, Recent
<1>5. n < At
  <2>1. Recent(At)
    BY <1>0, <1>2 DEF NumbersFit
  <2> QED
    BY KVDBAssumption, <1>0, <1>4, <2>1 DEF Recent
<1> HIDE DEF n
<1>6. cks'[Sync] = Without(cks[Sync], n)
  BY <1>0, <1>1 DEF TypeOK
<1>7. N' = N \ {n} /\ \A k \in N \ {n} : cks'[Sync][k] = cks[Sync][k]
  BY <1>6 DEF N, Numbers, Without
<1>8. Pc' = Pc /\ Boot' = Boot /\ At' = At
  BY <1>1 DEF Pc, Boot, At
<1>9. At # n /\ (At \in N' <=> At \in N) /\ (At \in N => cks'[Sync][At] = cks[Sync][At])
  BY <1>0, <1>4, <1>5, <1>7
<1>10. History' = History
  BY <1>0, <1>1, <1>8, <1>9 DEF History, StoredAt, N
<1>11. Whole' /\ Whole
  BY <1>2, <1>8 DEF Whole
<1>12. NumbersFit'
  BY <1>0, <1>1, <1>7, <1>8 DEF NumbersFit, Recent
<1>13. BelowFits'
  <2> SUFFICES ASSUME NEW k \in 1..At
               PROVE  /\ k \in N' => cks'[Sync][k] = Empty \/ cks'[Sync][k].txs = SubSeq(History, 1, k)
                      /\ Recent(k) => k \in N' /\ cks'[Sync][k] # Empty
    BY <1>1, <1>8, <1>10, <1>11 DEF BelowFits, Recent
  <2>1. /\ k \in N => cks[Sync][k] = Empty \/ cks[Sync][k].txs = SubSeq(History, 1, k)
        /\ Recent(k) => k \in N /\ cks[Sync][k] # Empty
    BY <1>0, <1>11 DEF BelowFits
  <2>2. Recent(k) => k # n
    BY <1>4
  <2> QED
    BY <1>7, <2>1, <2>2
<1>14. AboveFits'
  BY <1>0, <1>1, <1>7, <1>8 DEF AboveFits
<1>15. OwnerFits'
  <2>1. CASE Pc = "delete"
    <3>1. ASSUME NEW k \in op[Sync].list PROVE k \in N'
      <4>1. k \in N /\ k > At
        BY <1>0, <2>1, <3>1 DEF OwnerFits
      <4>2. k # n
        BY <1>0, <1>4, <1>5, <4>1
      <4> QED
        BY <1>7, <4>1, <4>2
    <3> QED
      BY <1>0, <1>1, <1>2, <1>8, <2>1, <3>1 DEF OwnerFits
  <2>2. CASE Pc # "delete"
    <3>1. CASE Pc \in {"next", "found", "copy"}
      <4>1. At \in N => At \in N' /\ cks'[Sync][At] = cks[Sync][At]
        BY <1>9
      <4>2. CASE Len(op[Sync].copies) = 2
        <5>1. op[Sync].copies # <<>>
          BY <4>2
        <5> QED
          BY <1>0, <1>1, <1>8, <3>1, <4>1, <4>2, <5>1 DEF OwnerFits
      <4>3. CASE Len(op[Sync].copies) # 2
        BY <1>0, <1>1, <1>8, <3>1, <4>1, <4>3 DEF OwnerFits
      <4> QED
        BY <4>2, <4>3
    <3>2. CASE Pc \in {"open", "closed", "store"}
      BY <1>0, <1>1, <1>8, <3>2 DEF OwnerFits
    <3>3. Pc \in Places
      BY Parts
    <3> QED
      BY <1>2, <2>2, <3>1, <3>2, <3>3 DEF Places
  <2> QED
    BY <2>1, <2>2
<1>16. ReadersFit'
  BY <1>0, <1>1, <1>8 DEF ReadersFit
<1>17. DeletionsFit'
  BY <1>0, <1>1, <1>2, <1>8 DEF DeletionsFit
<1> QED
  BY <1>8, <1>10, <1>0, <1>1, <1>8, <1>12, <1>13, <1>14, <1>15, <1>16, <1>17 DEF SyncFits, Calm

-----------------------------------------------------------------------------
(* The invariant is inductive. *)

LEMMA InitFits == Init => IInv
<1> SUFFICES ASSUME Init PROVE IInv
  OBVIOUS
<1>1. Sync \in DBs /\ \A d \in Locals : d \in DBs
  BY DEF DBs
<1>2. TypeOK
  <2>1. CksTyped
    <3>1. cks = [d \in DBs |-> <<>>]
      BY DEF Init
    <3>2. DOMAIN <<>> = {}
      OBVIOUS
    <3> QED
      BY <3>1, <3>2 DEF CksTyped, Numbers
  <2>2. MemoryTyped /\ cur \in [DBs -> Contents] /\ top \in [DBs -> Int]
    BY ConstantTypes DEF Init, MemoryTyped
  <2> QED
    BY <2>1, <2>2, TypedParts
<1>3. op[Sync] = Idle("down") /\ \A d \in Locals : op[d] = Idle("down")
  BY <1>1 DEF Init, Down
<1>4. Pc = "down" /\ ~Boot /\ \A d \in Locals : op[d].pc = "down" /\ op[d].boot = FALSE
  BY <1>3 DEF Pc, Boot, Idle
<1>5. N = {} /\ cur[Sync] = Missing /\ At = -1 /\ top[Sync] = 0 /\ del[Sync] = NoDeletion
  BY <1>1, <1>4 DEF Init, N, Numbers, At, Missing
<1>6. NumbersFit /\ BelowFits /\ AboveFits /\ ReadersFit
  BY <1>4, <1>5 DEF NumbersFit, BelowFits, AboveFits, ReadersFit
<1>7. OwnerFits
  BY KVDBAssumption, <1>3, <1>4, <1>5 DEF OwnerFits
<1>8. DeletionsFit
  BY <1>5 DEF DeletionsFit, NoDeletion
<1>9. LocalsFit
  BY <1>4 DEF LocalsFit, LocalFits
<1> QED
  BY <1>2, <1>6, <1>7, <1>8, <1>9 DEF IInv, SyncFits

LEMMA ExitLocals == TypeOK /\ Exit => LocalsFit'
<1> SUFFICES ASSUME TypeOK, Exit, NEW d \in Locals PROVE LocalFits(d)'
  BY DEF LocalsFit
<1>1. op'[d] = Idle("down")
  BY DEF Exit, Down, DBs
<1>2. op'[d].pc = "down" /\ op'[d].boot = FALSE
  BY <1>1 DEF Idle
<1> QED
  BY <1>2 DEF LocalFits

LEMMA CalmLocals ==
  ASSUME IInv, TypeOK', Calm, NEW d \in Locals, op'[d] = op[d]
  PROVE  LocalFits(d)'
<1>1. LocalFits(d) /\ d \in DBs /\ TypeOK
  BY DEF IInv, LocalsFit, DBs
<1>2. Running => op[d].boot = FALSE
  BY <1>1 DEF Running, TypeOK, Ops
<1>3. Source(d)' = Source(d)
  BY DEF Source
<1>4. op[d].pc = "found" /\ Source(d) = Sync => op[d].n >= 1 /\ op[d].n <= top'[Sync]
  <2> SUFFICES ASSUME op[d].pc = "found", Source(d) = Sync
               PROVE  op[d].n >= 1 /\ op[d].n <= top'[Sync]
    OBVIOUS
  <2>1. op[d].n \in Int /\ op[d].n >= 1 /\ op[d].n <= top[Sync] /\ Pc # "down"
    BY <1>1 DEF LocalFits, TypeOK, Ops
  <2>2. top'[Sync] >= top[Sync] /\ top'[Sync] \in Int
    BY <2>1 DEF Calm, TypeOK, DBs
  <2> QED
    BY <2>1, <2>2, Parts
<1> QED
  BY <1>1, <1>2, <1>3, <1>4 DEF LocalFits, Calm

LEMMA CrashKept ==
  ASSUME IInv, Crash
  PROVE  SyncFits' /\ Pc # "down" /\ Exit /\ UNCHANGED <<cks, cur>>
            /\ (Pc = "store" /\ At + 1 \in N => cks[Sync][At + 1] # Empty)
<1>1. Exit /\ UNCHANGED <<cks, cur, top>> /\ NoneCreatedByCopy
  BY DEF Crash
<1>2. Pc = "store" /\ At + 1 \in N => cks[Sync][At + 1] # Empty
  BY <1>1 DEF NoneCreatedByCopy, N, DBs
<1>3. Pc # "down"
  <2>1. \E d \in DBs : op[d].pc # "down"
    BY DEF Crash
  <2> QED
    BY <2>1 DEF IInv, LocalsFit, LocalFits, Pc, DBs
<1> QED
  BY <1>1, <1>2, <1>3, ExitKept

\* the steps of the synchronizer's database, one by one
LEMMA SyncStep ==
  ASSUME IInv, OwnStep(Sync)
  PROVE  SyncFits' /\ (Exit \/ Calm)
<1>1. ASSUME NEW v \in Versions, Process(Sync, v) PROVE SyncFits' /\ Calm
  BY <1>1, ProcessKept
<1>2. CASE SetCurrentBatch(Sync)
  BY <1>2, SetCurrentBatchKept
<1>3. CASE Checkpoint(Sync)
  BY <1>3, CheckpointKept
<1>4. CASE Finish(Sync)
  BY <1>4, FinishKept
<1>5. CASE FindSource(Sync)
  BY <1>5, FindSourceKept
<1>6. CASE OpenSource(Sync)
  BY <1>6, OpenSourceKept
<1>7. CASE CopySource(Sync)
  BY <1>7, CopySourceKept
<1>8. ASSUME NEW n \in 0..MaxBatch, Reset(Sync, n) PROVE SyncFits' /\ Calm
  BY <1>8, ResetKept
<1>9. CASE DeleteNext(Sync)
  BY <1>9, DeleteNextKept
<1>10. CASE AllDeleted(Sync)
  BY <1>10, AllDeletedKept
<1>11. CASE Restart(Sync)
  BY <1>11, RestartKept
<1>12. CASE ListOld(Sync)
  BY <1>12, ListOldKept
<1>13. CASE DeleteOld(Sync)
  BY <1>13, DeleteOldKept
<1>14. Sync \notin Locals
  BY KVDBAssumption
<1> QED
  BY <1>1, <1>2, <1>3, <1>4, <1>5, <1>6, <1>7, <1>8, <1>9, <1>10, <1>11, <1>12, <1>13, <1>14
  DEF OwnStep

\* a local database does nothing to it, or ends the process while it is open
LEMMA BesideKept ==
  ASSUME IInv, NEW d \in Locals, Beside(d)
  PROVE  /\ SyncFits'
         /\ \/ Exit /\ cks'[Sync] = cks[Sync] /\ cur'[Sync] = cur[Sync] /\ Pc = "open"
            \/ /\ SameFor(Sync) /\ last' = last /\ LocalFits(d)'
               /\ Pc' = Pc /\ At' = At /\ History' = History
<1>1. CASE Exit /\ op[d].boot /\ cks'[Sync] = cks[Sync] /\ cur'[Sync] = cur[Sync] /\ top'[Sync] = top[Sync]
  <2>1. Pc = "open"
    BY <1>1 DEF IInv, LocalsFit, LocalFits
  <2> QED
    BY <1>1, <2>1, ExitKept
<1>2. CASE SameFor(Sync) /\ last' = last /\ (cks'[Sync] = cks[Sync] \/ Emptied) /\ LocalFits(d)'
  BY <1>2, SameKept, EmptiedKept
<1> QED
  BY <1>1, <1>2 DEF Beside

LEMMA NextFits == IInv /\ [Next]_vars => IInv'
<1> SUFFICES ASSUME IInv, [Next]_vars PROVE IInv'
  OBVIOUS
<1>0. TypeOK /\ OwnerFits /\ LocalsFit /\ Sync \in DBs
  BY Parts DEF IInv
<1>1. TypeOK'
  BY <1>0, TypesNext
<1>2. CASE UNCHANGED vars
  <2>1. SameFor(Sync) /\ last' = last /\ cks'[Sync] = cks[Sync] /\ op' = op /\ top' = top
    BY <1>2 DEF vars, SameFor
  <2>2. SyncFits'
    BY <2>1, SameKept
  <2>3. LocalsFit'
    BY <1>0, <2>1 DEF LocalsFit, LocalFits, Pc, Boot, Source
  <2> QED
    BY <1>1, <2>2, <2>3 DEF IInv
<1>3. CASE Crash
  BY <1>0, <1>1, <1>3, CrashKept, ExitLocals DEF IInv
<1>4. CASE OwnStep(Sync)
  <2>1. SyncFits' /\ (Exit \/ Calm)
    BY <1>4, SyncStep
  <2>2. CASE Exit
    BY <1>0, <1>1, <2>1, <2>2, ExitLocals DEF IInv
  <2>3. CASE ~Exit
    <3>1. ASSUME NEW d \in Locals PROVE LocalFits(d)'
      <4>1. d \in DBs \ {Sync}
        BY KVDBAssumption DEF DBs
      <4>2. op'[d] = op[d]
        BY <1>0, <1>4, <2>3, <4>1, OthersAlone DEF SameFor
      <4> QED
        BY <1>1, <2>1, <2>3, <4>2, CalmLocals
    <3> QED
      BY <1>1, <2>1, <3>1 DEF IInv, LocalsFit
  <2> QED
    BY <2>2, <2>3
<1>5. ASSUME NEW d \in Locals, OwnStep(d) PROVE IInv'
  <2>1. Beside(d) /\ d \in DBs
    BY <1>5, LocalStep DEF DBs
  <2>2. CASE Exit
    BY <1>0, <1>1, <2>1, <2>2, BesideKept, ExitLocals DEF IInv
  <2>3. CASE ~Exit
    <3>1. SyncFits' /\ SameFor(Sync) /\ LocalFits(d)'
      BY <2>1, <2>3, BesideKept
    <3>2. ASSUME NEW e \in Locals \ {d} PROVE LocalFits(e)'
      <4>1. e \in DBs \ {d}
        BY DEF DBs
      <4>2. op'[e] = op[e]
        BY <1>0, <1>5, <2>1, <2>3, <4>1, OthersAlone DEF SameFor
      <4>3. LocalFits(e)
        BY <1>0 DEF LocalsFit
      <4> QED
        BY <3>1, <4>2, <4>3 DEF LocalFits, SameFor, Pc, Boot, Source
    <3> QED
      BY <1>1, <3>1, <3>2 DEF IInv, LocalsFit
  <2> QED
    BY <2>2, <2>3
<1> QED
  BY <1>2, <1>3, <1>4, <1>5, NextParts DEF DBs

(* The invariant holds always. *)
THEOREM KVDBInductive == Spec => []IInv
BY InitFits, NextFits, PTL DEF Spec

-----------------------------------------------------------------------------
(* OneHistory: the checkpoints are of the history that the database is at. *)

LEMMA BeginningIsPrefix ==
  ASSUME NEW S, NEW s \in Seq(S), NEW k \in 0..Len(s)
  PROVE  IsPrefix(SubSeq(s, 1, k), s)
<1> DEFINE t == SubSeq(s, 1, k)
<1>1. t \in Seq(S) /\ Len(t) = k /\ SubSeq(t, 1, k) = t
  <2>1. t \in Seq(S) /\ Len(t) = k
    OBVIOUS
  <2> QED
    BY <2>1, BeginningIsAll
<1> HIDE DEF t
<1>2. IsPrefix(t, s)
  BY <1>1 DEF IsPrefix, t
<1> QED
  BY <1>2 DEF t

LEMMA EmptyIsPrefix ==
  ASSUME NEW S, NEW s \in Seq(S)
  PROVE  IsPrefix(<<>>, s)
<1>1. SubSeq(s, 1, 0) = <<>>
  OBVIOUS
<1>2. 0 \in 0..Len(s)
  OBVIOUS
<1> QED
  BY <1>1, <1>2, BeginningIsPrefix

(* No checkpoint of batches that a reset has undone is left, whatever the resets,
   the crashes and the deletions in the background. *)
THEOREM OneHistoryKept == Spec => []OneHistory
<1>1. IInv => OneHistory
  <2> SUFFICES ASSUME IInv, Pc = "open", NEW k \in N
               PROVE  IsPrefix(cks[Sync][k].txs, cur[Sync].txs)
    BY DEF OneHistory, N, Pc
  <2>0. /\ NumbersFit /\ BelowFits /\ AboveFits /\ OwnerFits
        /\ N \subseteq Int /\ At \in Int /\ History \in Seq(Versions)
    BY Parts
  <2>1. ~Boot /\ History = cur[Sync].txs /\ At <= Len(History)
    BY <2>0 DEF OwnerFits, History
  <2>2. Whole
    BY <2>1 DEF Whole
  <2>3. CASE cks[Sync][k] = Empty
    BY <2>0, <2>1, <2>3, EmptyIsPrefix DEF Empty
  <2>4. CASE cks[Sync][k] # Empty
    <3>1. k \in Int /\ k >= 1 /\ k <= At
      BY <2>0, <2>4 DEF NumbersFit, AboveFits
    <3>2. cks[Sync][k].txs = SubSeq(History, 1, k)
      BY <2>0, <2>2, <2>4, <3>1 DEF BelowFits
    <3>3. k \in 0..Len(History)
      BY <2>0, <2>1, <3>1
    <3> QED
      BY <2>0, <2>1, <3>2, <3>3, BeginningIsPrefix
  <2> QED
    BY <2>3, <2>4
<1> QED
  BY <1>1, KVDBInductive, PTL

-----------------------------------------------------------------------------
(* FailsAtGapOnly and IsStore, step by step. *)

\* the store, in the terms of the invariant
LEMMA StoreValues ==
  /\ Phase = IF Pc \in {"down", "open", "closed"} THEN Pc ELSE IF Pc = "store" THEN "storing" ELSE "busy"
  /\ Batches = IF Pc \in {"open", "store"} THEN SubSeq(History, 1, At) ELSE History
  /\ Readers = IF Pc = "open" THEN last.txs ELSE <<>>
<1>1. /\ Phase = IF Pc \in {"down", "open", "closed"} THEN Pc ELSE IF Pc = "store" THEN "storing" ELSE "busy"
      /\ Readers = IF Pc = "open" THEN last.txs ELSE <<>>
  BY DEF Phase, Readers, Pc
<1>2. Batches = IF Pc \in {"open", "store"} THEN SubSeq(History, 1, At) ELSE History
  BY <1>1 DEF Batches, History, At
<1> QED
  BY <1>1, <1>2

LEMMA StoreValuesNext ==
  /\ Phase' = IF Pc' \in {"down", "open", "closed"} THEN Pc' ELSE IF Pc' = "store" THEN "storing" ELSE "busy"
  /\ Batches' = IF Pc' \in {"open", "store"} THEN SubSeq(History', 1, At') ELSE History'
  /\ Readers' = IF Pc' = "open" THEN last'.txs ELSE <<>>
<1>1. /\ Phase' = IF Pc' \in {"down", "open", "closed"} THEN Pc' ELSE IF Pc' = "store" THEN "storing" ELSE "busy"
      /\ Readers' = IF Pc' = "open" THEN last'.txs ELSE <<>>
  BY DEF Phase, Readers, Pc
<1>2. Batches' = IF Pc' \in {"open", "store"} THEN SubSeq(History', 1, At') ELSE History'
  BY <1>1 DEF Batches, History, At
<1> QED
  BY <1>1, <1>2

FailStep == Pc # "closed" /\ Pc' = "closed" => HasGap(Sync)
StoreStep == [Store!Next]_(Store!vars)

Stutter == UNCHANGED <<Phase, Batches, Readers>>

LEMMA StutterIsStep == Stutter => StoreStep
BY DEF Stutter, StoreStep, Store!vars

LEMMA QuietIsStutter == Quiet => StoreStep /\ FailStep
<1> SUFFICES ASSUME Quiet PROVE StoreStep /\ FailStep
  OBVIOUS
<1>1. Stutter
  BY StoreValues, StoreValuesNext DEF Quiet, Stutter
<1> QED
  BY <1>1, StutterIsStep DEF Quiet, FailStep

LEMMA SameIsStutter ==
  ASSUME Pc' = Pc, At' = At, History' = History, last'.txs = last.txs
  PROVE  StoreStep /\ FailStep
<1>1. Stutter
  BY StoreValues, StoreValuesNext DEF Stutter
<1> QED
  BY <1>1, StutterIsStep DEF FailStep

LEMMA NoBatchBelowOne ==
  ASSUME IInv, NEW k \in Int, k < 1
  PROVE  StoredAt(k) = <<>>
<1>1. NumbersFit
  BY Parts
<1> QED
  BY <1>1 DEF NumbersFit, StoredAt, N

\* The process ends: with the batches it was at between the operations, else with these or none.
LEMMA ExitIsCrash ==
  ASSUME IInv, Exit, Pc # "down", cks'[Sync] = cks[Sync], cur'[Sync] = cur[Sync],
         Pc = "store" /\ At + 1 \in N => cks[Sync][At + 1] # Empty
  PROVE  StoreStep /\ FailStep
<1>0. /\ TypeOK /\ NumbersFit /\ BelowFits /\ AboveFits /\ OwnerFits
      /\ Sync \in DBs /\ N \subseteq Int /\ At \in Int /\ History \in Seq(Versions) /\ cur[Sync].num \in Int
      /\ Pc \in Places
  BY Parts
<1>1. op'[Sync] = Idle("down")
  BY <1>0 DEF Exit, Down
<1>2. Pc' = "down"
  BY <1>1 DEF Pc, Idle
<1>3. History' = StoredAt(cur[Sync].num)
  BY <1>2 DEF At, History, StoredAt, Numbers
<1>4. Phase' = "down" /\ Batches' = StoredAt(cur[Sync].num) /\ Readers' = <<>>
  BY <1>2, <1>3, StoreValuesNext
<1>5. CASE Pc = "open"
  <2>1. At = cur[Sync].num /\ At >= 0 /\ ~Boot
    BY <1>0, <1>5 DEF At, OwnerFits
  <2>2. Batches = SubSeq(History, 1, At) /\ Phase = "open"
    BY <1>5, StoreValues
  <2>3. StoredAt(At) = SubSeq(History, 1, At)
    <3>1. CASE At = 0
      <4>1. SubSeq(History, 1, 0) = <<>>
        BY <1>0
      <4>2. StoredAt(0) = <<>>
        BY NoBatchBelowOne
      <4> QED
        BY <3>1, <4>1, <4>2
    <3>2. CASE At # 0
      <4>1. At >= 1 /\ Whole
        BY <1>0, <1>5, <2>1, <3>2 DEF Whole
      <4> QED
        BY <4>1, AtThere
    <3> QED
      BY <3>1, <3>2
  <2>4. Store!Crash
    <3>1. Batches' = Batches /\ Phase' = "down" /\ Phase # "down" /\ Readers' = Store!None
      BY <1>4, <2>1, <2>2, <2>3 DEF Store!None
    <3> QED
      BY <2>2, <3>1 DEF Store!Crash
  <2> QED
    BY <1>2, <2>4 DEF StoreStep, Store!Next, FailStep
<1>6. CASE Pc # "open"
  <2>1. Phase \notin {"open", "down"}
    BY <1>6, StoreValues
  <2>2. Batches' \in {Batches, <<>>}
    <3>1. CASE cur[Sync] = Missing
      BY <1>4, <3>1, NoBatchBelowOne DEF Missing
    <3>2. CASE cur[Sync] # Missing /\ Pc = "store"
      <4>1. At + 1 = cur[Sync].num
        BY <1>0, <3>2 DEF At
      <4>2. At + 1 \notin N
        BY <1>0, <3>2 DEF AboveFits
      <4> QED
        BY <1>4, <4>1, <4>2 DEF StoredAt, N
    <3>3. CASE cur[Sync] # Missing /\ Pc # "store"
      <4>1. Pc \in {"next", "found", "copy"}
        BY <1>0, <1>6, <3>3 DEF Places, OwnerFits
      <4>2. At = op[Sync].n /\ At >= 1 /\ At \in N /\ cur[Sync] = cks[Sync][At]
        BY <1>0, <3>3, <4>1 DEF OwnerFits, At
      <4>3. cur[Sync].num = At /\ Batches = StoredAt(At)
        BY <4>1, <4>2, AtThere, StoreValues DEF Whole, History
      <4> QED
        BY <1>4, <4>3
    <3> QED
      BY <3>1, <3>2, <3>3
  <2>3. Store!Crash
    BY <1>4, <2>1, <2>2 DEF Store!Crash, Store!None
  <2> QED
    BY <1>2, <2>3 DEF StoreStep, Store!Next, FailStep
<1> QED
  BY <1>5, <1>6

LEMMA ResetIsReset ==
  ASSUME IInv, NEW n \in 0..MaxBatch, Reset(Sync, n)
  PROVE  StoreStep /\ FailStep
<1>0. At \in Int /\ History \in Seq(Versions) /\ OwnerFits
  BY Parts
<1>1. /\ Pc \in {"open", "closed"} /\ Whole /\ Recent(n) /\ n <= At
      /\ (Pc = "open" => At <= Len(History)) /\ History' = StoredAt(n)
      /\ Pc' = "delete" \/ (Pc' = "closed" /\ HasGap(Sync))
  BY ResetKept
<1>2. Batches' = StoredAt(n) /\ Readers' = <<>> /\ Phase = Pc
      /\ \/ Pc' = "delete" /\ Phase' = "busy"
         \/ Pc' = "closed" /\ Phase' = "closed"
  BY <1>1, StoreValues, StoreValuesNext
<1>3. Batches' \in Store!PrefixesOf(Batches)
  <2>1. CASE n = 0
    <3>1. StoredAt(n) = <<>>
      BY <2>1, NoBatchBelowOne
    <3>2. Batches \in Seq(Versions)
      <4>1. SubSeq(History, 1, At) \in Seq(Versions)
        <5>1. CASE Pc = "open"
          BY <1>0, <1>1, <2>1, <5>1
        <5>2. CASE Pc = "closed"
          BY <1>0, <1>1, <2>1, <5>2, AtThere DEF History
        <5> QED
          BY <1>1, <5>1, <5>2
      <4> QED
        BY <1>0, <1>1, <4>1, StoreValues
    <3>3. SubSeq(Batches, 1, 0) = <<>> /\ 0 \in 0..Len(Batches)
      BY <3>2
    <3> QED
      BY <1>2, <3>1, <3>3 DEF Store!PrefixesOf
  <2>2. CASE n # 0
    <3>1. n >= 1 /\ n \in Int /\ At >= 1
      BY <1>0, <1>1, <2>2
    <3>2. StoredAt(n) = SubSeq(History, 1, n)
      BY <1>1, <3>1, CheckpointThere
    <3>3. CASE Pc = "open"
      <4>1. Batches = SubSeq(History, 1, At) /\ At \in 0..Len(History) /\ n \in 0..At
        BY <1>0, <1>1, <3>1, <3>3, StoreValues
      <4>2. Len(Batches) = At
        BY <1>0, <4>1
      <4>3. SubSeq(Batches, 1, n) = SubSeq(History, 1, n)
        BY <1>0, <4>1, BeginningOfBeginning
      <4> QED
        BY <1>2, <3>2, <4>1, <4>2, <4>3 DEF Store!PrefixesOf
    <3>4. CASE Pc = "closed"
      <4>1. Batches = History /\ Len(History) = At /\ n \in 0..At
        BY <1>0, <1>1, <3>1, <3>4, AtThere, StoreValues DEF History
      <4> QED
        BY <1>2, <3>2, <4>1 DEF Store!PrefixesOf
    <3> QED
      BY <1>1, <3>3, <3>4
  <2> QED
    BY <2>1, <2>2
<1>4. CASE Pc' = "delete"
  <2>1. Store!Reset
    BY <1>1, <1>2, <1>3, <1>4 DEF Store!Reset, Store!None
  <2> QED
    BY <1>4, <2>1 DEF StoreStep, Store!Next, FailStep
<1>5. CASE Pc' = "closed" /\ HasGap(Sync)
  <2>1. Store!Fail
    BY <1>1, <1>2, <1>3, <1>5 DEF Store!Fail, Store!None
  <2> QED
    BY <1>5, <2>1 DEF StoreStep, Store!Next, FailStep
<1> QED
  BY <1>1, <1>4, <1>5

LEMMA CheckpointIsCommit ==
  ASSUME IInv, Checkpoint(Sync)
  PROVE  StoreStep /\ FailStep
<1>0. At \in Int /\ History \in Seq(Versions)
  BY Parts
<1>1. /\ Pc = "store" /\ Pc' = "next" /\ At' = At + 1 /\ History' = History
      /\ Len(History) = At + 1 /\ At + 1 <= MaxBatch /\ At >= 0
  BY CheckpointKept
<1>2. /\ Phase = "storing" /\ Phase' = "busy" /\ Batches = SubSeq(History, 1, At) /\ Batches' = History
      /\ Readers' = <<>>
  BY <1>1, StoreValues, StoreValuesNext
<1>3. Len(Batches) = At /\ Batches \in Seq(Versions) /\ \A i \in 1..At : Batches[i] = History[i]
  BY <1>0, <1>1, <1>2
<1> DEFINE v == History[At + 1]
<1>4. v \in Versions
  BY <1>0, <1>1
<1>5. Append(Batches, v) \in Seq(Versions) /\ Len(Append(Batches, v)) = At + 1
      /\ \A i \in 1..At + 1 : Append(Batches, v)[i] = History[i]
  <2> HIDE DEF v
  <2>1. Append(Batches, v) \in Seq(Versions) /\ Len(Append(Batches, v)) = At + 1
        /\ Append(Batches, v)[At + 1] = v /\ \A i \in 1..At : Append(Batches, v)[i] = Batches[i]
    BY <1>0, <1>1, <1>3, <1>4
  <2> QED
    BY <1>0, <1>3, <2>1 DEF v
<1>6. Append(Batches, v) = History
  <2> HIDE DEF v
  <2> QED
    BY <1>0, <1>1, <1>5, SeqEqual
<1>7. Len(Batches) < MaxBatch
  BY KVDBAssumption, <1>0, <1>1, <1>3
<1>8. Store!Commit
  BY <1>2, <1>4, <1>6, <1>7 DEF Store!Commit, Store!None
<1> QED
  BY <1>1, <1>8 DEF StoreStep, Store!Next, FailStep

LEMMA SyncSteps ==
  ASSUME IInv, OwnStep(Sync)
  PROVE  StoreStep /\ FailStep
<1>0. At \in Int /\ History \in Seq(Versions) /\ OwnerFits /\ Sync \in DBs
  BY Parts
<1>1. ASSUME NEW v \in Versions, Process(Sync, v) PROVE StoreStep /\ FailStep
  <2>1. /\ Pc = "open" /\ Pc' = "open" /\ At' = At /\ last' = last
        /\ Len(History) = At /\ History' = Append(History, v)
    BY <1>1, ProcessKept
  <2>2. SubSeq(History', 1, At) = SubSeq(History, 1, At)
    BY <1>0, <2>1, BeginningOfAppend
  <2>3. Stutter
    BY <2>1, <2>2, StoreValues, StoreValuesNext DEF Stutter
  <2> QED
    BY <2>1, <2>3, StutterIsStep DEF FailStep
<1>2. CASE SetCurrentBatch(Sync)
  <2>1. Pc = "open" /\ Pc' = "store" /\ At' = At /\ History' = History
    BY <1>2, SetCurrentBatchKept
  <2>2. Store!Begin
    BY <2>1, StoreValues, StoreValuesNext DEF Store!Begin, Store!None
  <2> QED
    BY <2>1, <2>2 DEF StoreStep, Store!Next, FailStep
<1>3. CASE Checkpoint(Sync)
  BY <1>3, CheckpointIsCommit
<1>4. CASE Finish(Sync)
  <2>1. /\ Pc = "next" /\ Pc' = "open" /\ At' = At /\ History' = History
        /\ Len(History) = At /\ last'.txs = History
    BY <1>4, FinishKept
  <2>2. SubSeq(History, 1, At) = History
    BY <1>0, <2>1, BeginningIsAll
  <2>3. Store!End
    BY <2>1, <2>2, StoreValues, StoreValuesNext DEF Store!End
  <2> QED
    BY <2>1, <2>3 DEF StoreStep, Store!Next, FailStep
<1>5. CASE FindSource(Sync)
  <2>1. CASE Quiet
    BY <2>1, QuietIsStutter
  <2>2. CASE Exit /\ UNCHANGED <<cks, cur, top>> /\ Pc = "next"
    BY <2>2, ExitIsCrash
  <2> QED
    BY <1>5, <2>1, <2>2, FindSourceKept
<1>6. CASE OpenSource(Sync)
  BY <1>6, OpenSourceKept, QuietIsStutter
<1>7. CASE CopySource(Sync)
  BY <1>7, CopySourceKept, QuietIsStutter
<1>8. ASSUME NEW n \in 0..MaxBatch, Reset(Sync, n) PROVE StoreStep /\ FailStep
  BY <1>8, ResetIsReset
<1>9. CASE DeleteNext(Sync)
  BY <1>9, DeleteNextKept, QuietIsStutter
<1>10. CASE AllDeleted(Sync)
  <2>1. CASE Quiet
    BY <2>1, QuietIsStutter
  <2>2. CASE /\ At = 0 /\ Pc = "delete" /\ Pc' = "open" /\ At' = 0 /\ History' = <<>>
             /\ last'.txs = <<>>
    <3>1. History = <<>>
      BY <2>2, NoBatchBelowOne DEF History
    <3>2. SubSeq(<<>>, 1, 0) = <<>>
      OBVIOUS
    <3>3. Store!End
      BY <2>2, <3>1, <3>2, StoreValues, StoreValuesNext DEF Store!End
    <3> QED
      BY <2>2, <3>3 DEF StoreStep, Store!Next, FailStep
  <2> QED
    BY <1>10, <2>1, <2>2, AllDeletedKept
<1>11. CASE Restart(Sync)
  <2>1. Pc = "down"
    BY <1>11, RestartKept
  <2>2. CASE Exit /\ UNCHANGED cks /\ cur'[Sync] = Missing
    <3>1. Pc' = "down" /\ At' = -1
      BY <1>0, <2>2 DEF Exit, Down, Idle, Pc, At, Missing
    <3>2. History' = StoredAt(-1)
      BY <2>2, <3>1 DEF History, StoredAt, Numbers
    <3>3. History' = <<>>
      BY <3>2, NoBatchBelowOne
    <3>4. Store!Start
      BY <2>1, <3>1, <3>3, StoreValues, StoreValuesNext DEF Store!Start, Store!None
    <3> QED
      BY <2>1, <3>1, <3>4 DEF StoreStep, Store!Next, FailStep
  <2>3. CASE Pc' = "delete" /\ History' = History
    <3>1. Store!Start
      BY <2>1, <2>3, StoreValues, StoreValuesNext DEF Store!Start, Store!None
    <3> QED
      BY <2>3, <3>1 DEF StoreStep, Store!Next, FailStep
  <2> QED
    BY <1>11, <2>2, <2>3, RestartKept
<1>12. CASE ListOld(Sync)
  BY <1>12, ListOldKept, SameIsStutter
<1>13. CASE DeleteOld(Sync)
  BY <1>13, DeleteOldKept, SameIsStutter
<1>14. Sync \notin Locals
  BY KVDBAssumption
<1> QED
  BY <1>1, <1>2, <1>3, <1>4, <1>5, <1>6, <1>7, <1>8, <1>9, <1>10, <1>11, <1>12, <1>13, <1>14
  DEF OwnStep

LEMMA StepsMapped == IInv /\ [Next]_vars => StoreStep /\ FailStep
<1> SUFFICES ASSUME IInv, [Next]_vars PROVE StoreStep /\ FailStep
  OBVIOUS
<1>1. CASE UNCHANGED vars
  <2>1. Pc' = Pc /\ At' = At /\ History' = History /\ last'.txs = last.txs
    BY <1>1 DEF vars, Pc, At, History, StoredAt, Numbers
  <2> QED
    BY <2>1, SameIsStutter
<1>2. CASE Crash
  BY <1>2, CrashKept, ExitIsCrash
<1>3. CASE OwnStep(Sync)
  BY <1>3, SyncSteps
<1>4. ASSUME NEW d \in Locals, OwnStep(d) PROVE StoreStep /\ FailStep
  <2>1. Beside(d)
    BY <1>4, LocalStep
  <2>2. CASE Exit /\ cks'[Sync] = cks[Sync] /\ cur'[Sync] = cur[Sync] /\ Pc = "open"
    BY <2>2, ExitIsCrash
  <2>3. CASE SameFor(Sync) /\ last' = last /\ Pc' = Pc /\ At' = At /\ History' = History
    BY <2>3, SameIsStutter
  <2> QED
    BY <2>1, <2>2, <2>3, BesideKept
<1> QED
  BY <1>1, <1>2, <1>3, <1>4, NextParts DEF DBs

(* No operation on the synchronizer's database fails, but for a gap that it finds
   between the checkpoints. *)
THEOREM FailsOnlyAtGaps == Spec => FailsAtGapOnly
<1>1. IInv /\ [Next]_vars => [op[Sync].pc # "closed" /\ op'[Sync].pc = "closed" => HasGap(Sync)]_vars
  BY StepsMapped DEF FailStep, Pc
<1> QED
  BY <1>1, KVDBInductive, PTL DEF Spec, FailsAtGapOnly

(* The synchronizer's database, with its directories, its goroutines and those who
   copy from it, is the store of CheckpointStore. *)
THEOREM IsCheckpointStore == Spec => IsStore
<1>1. Init => Store!Init
  <2> SUFFICES ASSUME Init PROVE Store!Init
    OBVIOUS
  <2>1. Sync \in DBs
    BY DEF DBs
  <2>2. Pc = "down" /\ N = {}
    BY <2>1 DEF Init, Pc, Down, Idle, N, Numbers
  <2>3. History = <<>>
    BY <2>2 DEF History, StoredAt, N
  <2> QED
    BY <2>2, <2>3, StoreValues DEF Store!Init, Store!None
<1>2. IInv /\ [Next]_vars => [Store!Next]_(Store!vars)
  BY StepsMapped DEF StoreStep
<1> QED
  BY <1>1, <1>2, KVDBInductive, PTL DEF Spec, IsStore, Store!Spec
=============================================================================
