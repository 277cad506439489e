-------------------------------- MODULE KVDB --------------------------------
(***************************************************************************)
(* The checkpointed key-value databases (db/kvdb/kvdb.go): the database of *)
(* the synchronizer and the local ones of TxSelector and BatchBuilder that *)
(* are reset from it.  A database is a directory with the open database    *)
(* `current', a directory per checkpoint and, for the synchronizer, `last' *)
(* for concurrent readers.  Its owner (the Synchronizer or the Pipeline)   *)
(* makes checkpoints and resets it; goroutines delete old checkpoints; the *)
(* local databases copy checkpoints of the synchronizer's; the node may    *)
(* crash between any two steps.                                            *)
(*                                                                         *)
(* A database holds the sequence of the batches processed so far and, in   *)
(* num, the batch number stored with them.  A directory is made, copied or *)
(* removed in one step.                                                    *)
(***************************************************************************)
EXTENDS Integers, Sequences, SequencesExt

CONSTANTS
  Sync,        \* the StateDB of the synchronizer
  Locals,      \* the LocalStateDBs
  Versions,    \* what a batch can be: another one after a reorganisation
  Keep,        \* number of checkpoints that are kept (Config.Keep), 0 for all
  MaxBatch,    \* bound on the batch number
  MaxResets,   \* bound on the number of resets of all databases
  MaxCrashes   \* bound on the number of crashes

DBs == {Sync} \cup Locals

ASSUME KVDBAssumption ==
  /\ Sync \notin Locals
  /\ Keep \in Nat /\ MaxBatch \in Nat /\ MaxResets \in Nat /\ MaxCrashes \in Nat

VARIABLES
  cks,     \* cks[d]: batch number -> content of the checkpoint
  cur,     \* cur[d]: content of `current' on disk
  last,    \* `last' of the synchronizer's database, as LastRead sees it
  op,      \* op[d]: the operation its owner is in
  del,     \* del[d]: deletions that wait for mutexDelOld, and the list of the running one
  locked,  \* locked[d]: mutexCheckpoint
  top,     \* top[d]: highest batch number of the database so far
  resets,
  crashes

vars == <<cks, cur, last, op, del, locked, top, resets, crashes>>

Empty == [num |-> 0, txs |-> <<>>]
Missing == [num |-> -1, txs |-> <<>>]

(* pc: "down", or "open" and "closed" between operations.  list: checkpoints
   that a reset still deletes, the lowest first.  copies: directories still to copy.  held: what
   the copy found when it opened its source.  boot: within NewKVDB.  make:
   within MakeCheckpoint. *)
Idle(pc) == [pc |-> pc, n |-> 0, list |-> {}, copies |-> <<>>, held |-> Missing,
             boot |-> FALSE, make |-> FALSE]

ClosedAt(n) == [Idle("closed") EXCEPT !.n = n]
Down == [d \in DBs |-> Idle("down")]
NoDeletion == [waiting |-> 0, list |-> {}]

Init ==
  /\ cks = [d \in DBs |-> <<>>]
  /\ cur = [d \in DBs |-> Missing]
  /\ last = Missing
  /\ op = Down
  /\ del = [d \in DBs |-> NoDeletion]
  /\ locked = [d \in DBs |-> FALSE]
  /\ top = [d \in DBs |-> 0]
  /\ resets = 0
  /\ crashes = 0

Numbers(d) == DOMAIN cks[d]

HasGap(d) ==  \* only the synchronizer's database has the check (NoGapsCheck)
  d = Sync /\ \E n \in Numbers(d) : n - 1 \notin Numbers(d) /\ \E m \in Numbers(d) : m < n

Without(f, n) == [m \in DOMAIN f \ {n} |-> f[m]]
With(f, n, c) == [m \in DOMAIN f \cup {n} |-> IF m = n THEN c ELSE f[m]]

\* All databases are open, the node runs
Running == \A d \in DBs : op[d].pc # "down" /\ ~op[d].boot

-----------------------------------------------------------------------------
(* The process ends: what is in memory is lost. *)
Exit ==
  /\ op' = Down
  /\ del' = [d \in DBs |-> NoDeletion]
  /\ locked' = [d \in DBs |-> FALSE]
  /\ last' = Missing

\* Bound: no crash once a copy has created the checkpoint it found removed (OpenSource)
NoneCreatedByCopy == \A d \in DBs : \A n \in Numbers(d) : cks[d][n] # Empty

Crash ==
  /\ crashes < MaxCrashes /\ NoneCreatedByCopy
  /\ crashes' = crashes + 1
  /\ \E d \in DBs : op[d].pc # "down"
  /\ Exit
  /\ UNCHANGED <<cks, cur, top, resets>>

(* The operation returns an error.  The node does not start without its
   databases. *)
Fail(d, holds) ==
  IF op[d].boot
  THEN Exit
  ELSE /\ op' = [op EXCEPT ![d] = ClosedAt(@.n)]
       /\ last' = IF op[d].copies # <<>> /\ Head(op[d].copies).dest = "last" THEN Missing ELSE last
       /\ locked' = IF holds THEN [locked EXCEPT ![Head(op[d].copies).src] = FALSE] ELSE locked
       /\ UNCHANGED del

-----------------------------------------------------------------------------
(* Processing of a batch changes `current' before the checkpoint is made. *)
Dirty(c) == Len(c.txs) # c.num

Process(d, v) ==
  /\ Running
  /\ op[d].pc = "open" /\ ~Dirty(cur[d]) /\ cur[d].num < MaxBatch
  /\ cur' = [cur EXCEPT ![d].txs = Append(@, v)]
  /\ UNCHANGED <<cks, last, op, del, locked, top, resets, crashes>>

\* MakeCheckpoint, setCurrentBatch
SetCurrentBatch(d) ==
  /\ Running
  /\ op[d].pc = "open" /\ Dirty(cur[d])
  /\ cur' = [cur EXCEPT ![d].num = @ + 1]
  /\ op' = [op EXCEPT ![d] = [Idle("store") EXCEPT !.make = TRUE]]
  /\ UNCHANGED <<cks, last, del, locked, top, resets, crashes>>

Copy(src, dest) == [src |-> src, dest |-> dest]

\* MakeCheckpoint, db.Pebble().Checkpoint: a checkpoint that exists is replaced
Stored(d, n) == With(cks[d], n, cur[d])

Checkpoint(d) ==
  /\ op[d].pc = "store"
  /\ LET n == cur[d].num
     IN  /\ cks' = [cks EXCEPT ![d] = Stored(d, n)]
         /\ op' = [op EXCEPT ![d].pc = "next", ![d].n = n,
                             ![d].copies = IF d = Sync THEN <<Copy(d, "last")>> ELSE <<>>]
         /\ top' = [top EXCEPT ![d] = IF n > @ THEN n ELSE @]
  /\ UNCHANGED <<cur, last, del, locked, resets, crashes>>

\* The operation is done; MakeCheckpoint starts the goroutine that deletes old checkpoints
Finish(d) ==
  /\ op[d].pc = "next" /\ op[d].copies = <<>>
  /\ op' = [op EXCEPT ![d] = Idle("open")]
  /\ del' = IF op[d].make THEN [del EXCEPT ![d].waiting = @ + 1] ELSE del
  /\ UNCHANGED <<cks, cur, last, locked, top, resets, crashes>>

-----------------------------------------------------------------------------
(* MakeCheckpointFromTo: the source is looked up, then locked and opened (which
   creates it when it is gone by then), then copied. *)
Source(d) == Head(op[d].copies).src

FindSource(d) ==
  /\ op[d].pc = "next" /\ op[d].copies # <<>>
  /\ IF op[d].n \in Numbers(Source(d))
     THEN /\ op' = [op EXCEPT ![d].pc = "found"]
          /\ UNCHANGED <<last, locked, del>>
     ELSE Fail(d, FALSE)
  /\ UNCHANGED <<cks, cur, top, resets, crashes>>

OpenSource(d) ==
  LET src == Source(d)
      n == op[d].n
  IN
  /\ op[d].pc = "found"
  /\ ~locked[src]
  /\ locked' = [locked EXCEPT ![src] = TRUE]
  /\ cks' = IF n \in Numbers(src) THEN cks ELSE [cks EXCEPT ![src] = With(@, n, Empty)]
  /\ op' = [op EXCEPT ![d].pc = "copy", ![d].held = cks'[src][n]]
  /\ UNCHANGED <<cur, last, del, top, resets, crashes>>

(* The files are linked: a source that has been removed meanwhile is an error *)
CopySource(d) ==
  LET src == Source(d)
      n == op[d].n
      dest == Head(op[d].copies).dest
  IN
  /\ op[d].pc = "copy"
  /\ IF n \in Numbers(src) /\ cks[src][n] = op[d].held
     THEN /\ locked' = [locked EXCEPT ![src] = FALSE]
          /\ op' = [op EXCEPT ![d].pc = "next", ![d].copies = Tail(@), ![d].held = Missing]
          /\ cur' = IF dest = "current" THEN [cur EXCEPT ![d] = op[d].held] ELSE cur
          /\ last' = IF dest = "last" THEN op[d].held ELSE last
          /\ cks' = IF dest = "checkpoint" THEN [cks EXCEPT ![d] = With(@, n, op[d].held)] ELSE cks
          /\ UNCHANGED del
     ELSE /\ Fail(d, TRUE)
          /\ UNCHANGED <<cks, cur>>
  /\ UNCHANGED <<top, resets, crashes>>

-----------------------------------------------------------------------------
(* reset and ResetFromSynchronizer: `current' is removed, then the checkpoints
   above n, or all, are deleted one by one, then current is copied. *)
Above_None(d, n) == {}  \* mutant
Above_From(d, n) == {m \in Numbers(d) : m >= n}  \* mutant
Above(d, n) == {m \in Numbers(d) : m > n}

BeginReset(d, o) ==
  /\ cur' = [cur EXCEPT ![d] = Missing]
  /\ IF HasGap(d)
     THEN IF o.boot THEN Exit
          ELSE op' = [op EXCEPT ![d] = ClosedAt(o.n)] /\ UNCHANGED <<last, del, locked>>
     ELSE op' = [op EXCEPT ![d] = o] /\ UNCHANGED <<last, del, locked>>

ResetCopies_NoLast(d) == <<Copy(d, "current")>>  \* mutant
ResetCopies(d) ==
  IF d = Sync THEN <<Copy(d, "current"), Copy(d, "last")>> ELSE <<Copy(d, "current")>>

ResetTo(d, n) ==
  [Idle("delete") EXCEPT !.n = n, !.list = Above(d, n), !.copies = ResetCopies(d)]

(* The reorganisations of the chain reach back fewer batches than are kept *)
WithinKeep(d, n) == Keep = 0 \/ n > top[d] - Keep

(* The synchronizer resets to a batch of its history, or again to where a reset
   has failed; the Pipeline to a checkpoint that it has found. *)
Reset(d, n) ==
  /\ Running
  /\ op[d].pc \in {"open", "closed"}
  /\ resets < MaxResets /\ resets' = resets + 1
  /\ WithinKeep(d, n)
  /\ IF d = Sync
     THEN n <= IF op[d].pc = "open" THEN cur[d].num ELSE op[d].n
     ELSE n \in Numbers(d)
  /\ BeginReset(d, ResetTo(d, n))
  /\ UNCHANGED <<cks, top, crashes>>

\* n is the last synced batch of the stats that the Pipeline started with
ResetFromSynchronizer(d, n) ==
  /\ Running
  /\ op[d].pc \in {"open", "closed"}
  /\ resets < MaxResets /\ resets' = resets + 1
  /\ WithinKeep(d, n)
  /\ BeginReset(d, [Idle("delete") EXCEPT
                      !.n = n, !.list = Numbers(d),
                      !.copies = <<Copy(Sync, "checkpoint"), Copy(d, "current")>>])
  /\ UNCHANGED <<cks, top, crashes>>

DeleteNext(d) ==
  /\ op[d].pc = "delete" /\ op[d].list # {}
  /\ LET n == Min(op[d].list)
     IN  IF n \in Numbers(d)
         THEN /\ cks' = [cks EXCEPT ![d] = Without(@, n)]
              /\ op' = [op EXCEPT ![d].list = @ \ {n}]
              /\ UNCHANGED <<last, del, locked>>
         ELSE Fail(d, FALSE) /\ UNCHANGED cks
  /\ UNCHANGED <<cur, top, resets, crashes>>

AllDeleted(d) ==
  /\ op[d].pc = "delete" /\ op[d].list = {}
  /\ IF op[d].n = 0
     THEN /\ cur' = [cur EXCEPT ![d] = Empty]
          /\ last' = IF d = Sync THEN Empty ELSE last
          /\ op' = [op EXCEPT ![d] = Idle("open")]
     ELSE /\ op' = [op EXCEPT ![d].pc = "next"]
          /\ UNCHANGED <<cur, last>>
  /\ UNCHANGED <<cks, del, locked, top, resets, crashes>>

(* NewKVDB: current is opened, which creates it, and the database is reset to
   the batch number it holds. *)
Restart(d) ==
  LET n == IF cur[d] = Missing THEN 0 ELSE cur[d].num
  IN
  /\ op[d].pc = "down"
  /\ d # Sync => op[Sync].pc = "open"
  /\ BeginReset(d, [ResetTo(d, n) EXCEPT !.boot = TRUE])
  /\ top' = [top EXCEPT ![d] = IF n = 0 THEN 0 ELSE @]
  /\ UNCHANGED <<cks, resets, crashes>>

-----------------------------------------------------------------------------
(* DeleteOldCheckpoints, in a goroutine per MakeCheckpoint. *)
Newer(d, n) == Cardinality({m \in Numbers(d) : m > n})

Old_OneMore(d) ==  \* mutant
  IF HasGap(d) \/ Keep = 0 THEN {} ELSE {n \in Numbers(d) : Newer(d, n) >= Keep - 1}

Old(d) == IF HasGap(d) \/ Keep = 0 THEN {} ELSE {n \in Numbers(d) : Newer(d, n) >= Keep}

ListOld(d) ==
  /\ del[d].waiting > 0 /\ del[d].list = {}
  /\ del' = [del EXCEPT ![d] = [waiting |-> @.waiting - 1, list |-> Old(d)]]
  /\ UNCHANGED <<cks, cur, last, op, locked, top, resets, crashes>>

DeleteOld(d) ==
  /\ del[d].list # {}
  /\ LET n == Min(del[d].list)
     IN  /\ cks' = [cks EXCEPT ![d] = Without(@, n)]
         /\ del' = [del EXCEPT ![d].list = IF n \in Numbers(d) THEN @ \ {n} ELSE {}]
  /\ UNCHANGED <<cur, last, op, locked, top, resets, crashes>>

-----------------------------------------------------------------------------
Next ==
  \/ Crash
  \/ \E d \in DBs :
       \/ \E v \in Versions : Process(d, v)
       \/ SetCurrentBatch(d)
       \/ Checkpoint(d)
       \/ Finish(d)
       \/ FindSource(d)
       \/ OpenSource(d)
       \/ CopySource(d)
       \/ \E n \in 0..MaxBatch : Reset(d, n)
       \/ DeleteNext(d)
       \/ AllDeleted(d)
       \/ Restart(d)
       \/ ListOld(d)
       \/ DeleteOld(d)
  \/ \E d \in Locals, n \in 0..MaxBatch : ResetFromSynchronizer(d, n)

Spec == Init /\ [][Next]_vars

-----------------------------------------------------------------------------
(* Types of the variables. *)
Contents == [num : Int, txs : Seq(Versions)]
Places   == {"down", "open", "closed", "store", "next", "found", "copy", "delete"}
Copies   == [src : DBs, dest : {"current", "last", "checkpoint"}]
Ops      == [pc : Places, n : Int, list : SUBSET Int, copies : Seq(Copies), held : Contents,
             boot : BOOLEAN, make : BOOLEAN]

TypeOK ==
  /\ DOMAIN cks = DBs
  /\ \A d \in DBs : Numbers(d) \subseteq Int /\ \A n \in Numbers(d) : cks[d][n] \in Contents
  /\ cur \in [DBs -> Contents] /\ last \in Contents
  /\ op \in [DBs -> Ops]
  /\ del \in [DBs -> [waiting : Nat, list : SUBSET Int]]
  /\ locked \in [DBs -> BOOLEAN]
  /\ top \in [DBs -> Int]

-----------------------------------------------------------------------------
(* The synchronizer's database as a CheckpointStore: the batches that the next
   operation, or the next start of the node, finds. *)
Phase ==
  CASE op[Sync].pc \in {"down", "open", "closed"} -> op[Sync].pc
    [] op[Sync].pc = "store" -> "storing"
    [] OTHER -> "busy"

StoredAt(n) == IF n \in Numbers(Sync) THEN cks[Sync][n].txs ELSE <<>>

Batches ==
  CASE Phase = "down" -> StoredAt(cur[Sync].num)
    [] Phase = "open" -> SubSeq(cur[Sync].txs, 1, cur[Sync].num)
    [] Phase = "storing" -> SubSeq(cur[Sync].txs, 1, cur[Sync].num - 1)
    [] OTHER -> StoredAt(op[Sync].n)

Readers == IF Phase = "open" THEN last.txs ELSE <<>>

Store == INSTANCE CheckpointStore WITH phase <- Phase, batches <- Batches, readers <- Readers

(* The database with its directories and goroutines is such a store, whatever the
   resets, crashes and deletions in the background, and whoever copies its
   checkpoints: it has the checkpoint of the batch it is at whenever it is open, so
   that it can be reset to it or started from it, and readers see that batch. *)
IsStore == Store!Spec

(* The checkpoints of the synchronizer's database are of the history it is at:
   none is left of batches that a reset has undone.  (An empty one that a copy
   has created is not of another history; a crash that meets one is left out, see
   Exit: the next start could go on from it as if it were whole.) *)
OneHistory ==
  op[Sync].pc = "open" =>
    \A n \in Numbers(Sync) : IsPrefix(cks[Sync][n].txs, cur[Sync].txs)

(* No operation of the synchronizer on its database fails, but for a gap
   between the checkpoints that it finds: no deletion is done twice, no copy finds
   its source removed, although the deletions and the copies of others go on. *)
FailsAtGapOnly ==
  [][op[Sync].pc # "closed" /\ op'[Sync].pc = "closed" => HasGap(Sync)]_vars

=============================================================================
