--------------------------- MODULE CorpusPipeline ---------------------------
(***************************************************************************)
(* A bounded acquisition run over the checkpoint that outlives it.  The    *)
(* run resumes what earlier runs left, discovers new repositories, hands   *)
(* approved ones to the database and, where it owns indexing, to the       *)
(* vector index.  The checkpoint on disk is replaced as a whole at each    *)
(* save; a crash loses everything since.  Between runs an operator may     *)
(* load the checkpoint, repair a quarantined entry and save it.            *)
(*                                                                         *)
(* Clocks are abstracted: which entries are due, aged or cooling down is   *)
(* any choice the records allow.  The order of the queues is not kept.     *)
(***************************************************************************)
EXTENDS Integers, FiniteSets, FiniteSetsExt

CONSTANTS Names,        \* repository identities
          MaxAttempts,  \* policy.max_attempts
          MaxActive,    \* policy.max_active_entries
          BatchSize, RecoverySize, TargetCount, MaxCycles,
          MaxRepairs    \* bound: how often the operator loads the checkpoint

ASSUME CorpusAssumption == IsFiniteSet(Names) /\ MaxActive \in Nat

Ownership == {"backend_outbox", "local_immediate", "local_deferred"}

VARIABLES
  disk,      \* the checkpoint file
  data,      \* the checkpoint of the run in memory
  run,       \* the run under way: its stage and its arguments
  operator,  \* the operator's copy: as loaded, the repaired name
  stored,    \* the repositories the database holds
  owed,      \* history: accepted as work and not yet rejected, handed over or indexed
  touched    \* history: the names the last step gave to the database or the index

corpusVars == <<disk, data, run, operator, stored, owed, touched>>

Blank == [persist |-> {}, index |-> {}, rejected |-> {},
          failure |-> [n \in Names |-> [attempts |-> 0, quarantined |-> FALSE]]]
NoRun == [pc |-> "off"]
NoRepair == [pc |-> "away", left |-> MaxRepairs]

CorpusInit ==
  /\ disk = Blank /\ data = Blank /\ run = NoRun /\ operator = NoRepair
  /\ stored = {} /\ owed = {} /\ touched = {}

---------------------------------------------------------------------------
(* CorpusCheckpoint *)

Failing(c) == {n \in Names : c.failure[n].attempts > 0}
Active(c) == c.persist \cup c.index \cup Failing(c)
Fits(c, names) == names \subseteq Active(c) \/ Cardinality(Active(c) \cup names) <= MaxActive
Quarantined(c) == {n \in Names : c.failure[n].quarantined}

\* record_failure(): the attempt counts, and the last one quarantines, as does
\* a permanent failure or one that has lasted too long.
Fail(c, names, spent) ==
  [c EXCEPT !.failure = [n \in Names |->
     IF n \in names
     THEN [attempts |-> @[n].attempts + 1,
           quarantined |-> n \in spent \/ @[n].attempts + 1 >= MaxAttempts]
     ELSE @[n]]]

ClearFailure(c, names) ==
  [c EXCEPT !.failure = [n \in Names |-> IF n \in names THEN Blank.failure[n] ELSE @[n]]]

\* due(): what has failed too often or for too long is quarantined on sight.
Aged(c, names, late) ==
  [c EXCEPT !.failure = [n \in Names |->
     IF n \in names /\ @[n].attempts > 0 /\ (n \in late \/ @[n].attempts >= MaxAttempts)
     THEN [@[n] EXCEPT !.quarantined = TRUE] ELSE @[n]]]

\* An entry that never failed is always due.
Due(c, names, batch) ==
  /\ batch \subseteq names \ Quarantined(c) /\ Cardinality(batch) <= RecoverySize
  /\ batch = {} => names \ Failing(c) = {}

Excluded(c, cooling) == Active(c) \cup cooling

AddPersist(c, names) == [c EXCEPT !.persist = @ \cup names]
AddIndex(c, names) == [c EXCEPT !.index = @ \cup names]
ClearPersist(c, names) == [c EXCEPT !.persist = @ \ names]
ClearIndex(c, names) == [c EXCEPT !.index = @ \ names]
Reject(c, names) ==
  ClearFailure([c EXCEPT !.rejected = @ \cup names, !.persist = @ \ names], names)

Save(c) == disk' = c /\ data' = c

---------------------------------------------------------------------------
(* A run begins, and resumes *)

Idle == UNCHANGED <<operator, stored, owed>> /\ touched' = {}
\* What a stage has dealt with is forgotten with it.
Stage(r, pc) == IF pc = "ending" THEN [pc |-> pc]
                  ELSE [r EXCEPT !.pc = pc, !.chunk = IF pc \in {"upsert", "upserted", "indexing", "indexed"} THEN @ ELSE {},
                                   !.good = IF pc \in {"upserted", "indexed"} THEN @ ELSE {}]
To(pc) == run' = Stage(run, pc)

\* The session lock is taken, the file loaded, expired rejections pruned.
BeginRun ==
  /\ run.pc = "off"
  /\ \E own \in Ownership, db \in BOOLEAN, streaming \in BOOLEAN, pruned \in SUBSET disk.rejected :
       /\ own = "backend_outbox" => db
       /\ data' = [disk EXCEPT !.rejected = @ \ pruned]
       /\ run' = [pc |-> IF ~db THEN "cycle" ELSE IF own = "local_immediate" THEN "index" ELSE "persist",
                  own |-> own, db |-> db, streaming |-> streaming, stage |-> "index",
                  todo |-> {}, chunk |-> {}, good |-> {}, cycle |-> 0, gained |-> FALSE]
  /\ UNCHANGED disk /\ Idle

\* _resume_indexing(): a batch of due entries; one the database cannot
\* reconstruct has failed.
ResumeIndexing ==
  /\ run.pc = "index"
  /\ \E late, batch \in SUBSET data.index : LET c == Aged(data, data.index, late) IN
       /\ Due(c, data.index, batch)
       /\ IF batch = {} THEN data' = c /\ UNCHANGED disk /\ To("persist")
          ELSE \E found \in SUBSET batch, spent \in SUBSET batch :
                 /\ disk' = c /\ data' = Fail(c, batch \ found, spent)
                 /\ run' = [run EXCEPT !.pc = "indexing", !.chunk = found]
  /\ Idle

\* _resume_persistence(): a batch of due entries, in chunks when streaming.
ResumePersistence ==
  /\ run.pc = "persist"
  /\ \E late, batch \in SUBSET data.persist : LET c == Aged(data, data.persist, late) IN
       /\ Due(c, data.persist, batch)
       /\ IF batch = {} THEN data' = c /\ UNCHANGED disk /\ To("cycle")
          ELSE Save(c) /\ run' = [run EXCEPT !.pc = "fetch", !.stage = "retry", !.todo = batch]
  /\ Idle

---------------------------------------------------------------------------
(* Acquired repositories are judged *)

Chunks == IF run.streaming THEN {s \in SUBSET run.todo : Cardinality(s) \in 1..BatchSize}
          ELSE {run.todo}

\* Where a run goes once a chunk is dealt with.
Onward(todo) == CASE run.stage = "index" -> "persist"
                  [] run.stage = "retry" -> IF todo = {} THEN "cycle" ELSE "fetch"
                  [] run.stage = "cycle" -> IF todo = {} THEN "cycled" ELSE "accept"

\* Every name of a chunk is acquired or has failed.  A configuration failure
\* keeps them all and stops the run; otherwise failures are recorded, the
\* filter rejects some (its history may be full), and the rest goes to the
\* database, the names saved before it is called.
Judge(chunk, acquired) ==
  \/ /\ acquired # chunk
     /\ Save(AddPersist(data, chunk)) /\ To("ending") /\ UNCHANGED owed
  \/ \E spent \in SUBSET (chunk \ acquired), approved, dropped \in SUBSET acquired :
       LET rejected == acquired \ approved
           judged == Reject(Fail(data, chunk \ acquired, spent), dropped)
           rest == run.todo \ chunk
       IN
       /\ dropped \subseteq rejected
       /\ owed' = owed \ dropped
       /\ IF dropped # rejected THEN Save(judged) /\ To("ending")
          ELSE IF approved = {}
          THEN Save(judged) /\ run' = Stage([run EXCEPT !.todo = rest], Onward(rest))
          ELSE /\ Save(IF run.db THEN AddPersist(judged, approved) ELSE judged)
               /\ run' = Stage([run EXCEPT !.todo = rest, !.chunk = approved],
                               IF run.db THEN "upsert"
                               ELSE IF run.own = "local_immediate" THEN "indexing" ELSE Onward(rest))

Retry ==
  /\ run.pc = "fetch"
  /\ \E chunk \in Chunks : \E acquired \in SUBSET chunk : Judge(chunk, acquired)
  /\ UNCHANGED <<operator, stored>> /\ touched' = {}

\* upsert_repositories_detailed(): each name is acknowledged, refused or not
\* answered for; one that is not acknowledged may be stored all the same.
Upsert ==
  /\ run.pc = "upsert"
  /\ \E good \in SUBSET run.chunk, silent \in SUBSET run.chunk :
       /\ stored' = stored \cup good \cup silent
       /\ owed' = IF run.own = "backend_outbox" THEN owed \ good ELSE owed
       /\ run' = [run EXCEPT !.pc = "upserted", !.good = good]
  /\ touched' = run.chunk
  /\ UNCHANGED <<disk, data, operator>>

Stuck(good) == run.streaming /\ good = {}

\* The outcome is recorded.  A local owner remembers what is stored and not
\* indexed before the name leaves the other queue.
Acknowledge ==
  /\ run.pc = "upserted"
  /\ \E spent \in SUBSET (run.chunk \ run.good) :
       LET owned == IF run.own = "backend_outbox" THEN data ELSE AddIndex(data, run.good)
           cleared == [ClearPersist(owned, run.good) EXCEPT !.rejected = @ \ run.good]
           failed == Fail(cleared, run.chunk \ run.good, spent)
           next == IF run.own = "backend_outbox" THEN ClearFailure(failed, run.good) ELSE failed
       IN
       /\ Save(next)
       /\ run' = Stage([run EXCEPT !.chunk = run.good, !.gained = @ \/ run.good # {}],
                       IF run.own = "local_immediate" THEN "indexing"
                       ELSE IF Stuck(run.good) THEN "ending" ELSE Onward(run.todo))
  /\ Idle

\* _index_sources(): together, then one by one; errors are caught.
Index ==
  /\ run.pc = "indexing"
  /\ \E good \in SUBSET run.chunk :
       /\ owed' = owed \ good
       /\ run' = [run EXCEPT !.pc = "indexed", !.good = good]
  /\ touched' = run.chunk
  /\ UNCHANGED <<disk, data, operator, stored>>

AcknowledgeIndex ==
  /\ run.pc = "indexed"
  /\ \E spent \in SUBSET (run.chunk \ run.good) :
       LET c == ClearFailure(ClearIndex(data, run.good), run.good)
           local == IF run.db THEN c ELSE [ClearPersist(c, run.good) EXCEPT !.rejected = @ \ run.good]
       IN
       /\ Save(Fail(local, run.chunk \ run.good, spent))
       /\ To(IF run.stage # "index" /\ run.db /\ Stuck(run.chunk) THEN "ending" ELSE Onward(run.todo))
  /\ Idle

---------------------------------------------------------------------------
(* Discovery cycles *)

\* A cycle ends the run, or selects new names: none the database or the
\* checkpoint knows, no more than there is room for.  A streaming run saves
\* them before any work on them starts.
Cycle ==
  /\ run.pc = "cycle"
  /\ \/ /\ \/ run.cycle = MaxCycles
           \/ run.db /\ Cardinality(stored) >= TargetCount
           \/ Cardinality(Active(data)) >= MaxActive
        /\ To("ending") /\ UNCHANGED <<disk, data, owed>>
     \/ /\ run.cycle < MaxCycles /\ Cardinality(Active(data)) < MaxActive
        /\ run.db => Cardinality(stored) < TargetCount
        /\ \E cooling \in SUBSET data.rejected :
           \E targets \in SUBSET (Names \ (Excluded(data, cooling) \cup IF run.db THEN stored ELSE {})) :
             /\ Cardinality(targets) <= MaxActive - Cardinality(Active(data))
             /\ run.db => Cardinality(targets) <= TargetCount - Cardinality(stored)
             /\ run' = Stage([run EXCEPT !.stage = "cycle", !.todo = targets, !.cycle = @ + 1, !.gained = FALSE],
                             IF targets = {} THEN "ending" ELSE "accept")
             /\ IF run.streaming
                THEN Save(AddPersist(data, targets)) /\ owed' = owed \cup targets
                ELSE UNCHANGED <<disk, data, owed>>
  /\ UNCHANGED <<operator, stored>> /\ touched' = {}

\* consume(): the names of a batch are saved before its outcome is applied.
Accept ==
  /\ run.pc = "accept"
  /\ \E chunk \in Chunks :
       /\ Save(AddPersist(data, chunk)) /\ owed' = owed \cup chunk
       /\ run' = [run EXCEPT !.pc = "consume", !.chunk = chunk]
  /\ UNCHANGED <<operator, stored>> /\ touched' = {}

Consume ==
  /\ run.pc = "consume"
  /\ \E acquired \in SUBSET run.chunk : Judge(run.chunk, acquired)
  /\ UNCHANGED <<operator, stored>> /\ touched' = {}

\* Another cycle follows only one that made the database grow.
Cycled ==
  /\ run.pc = "cycled"
  /\ Save(data)
  /\ To(IF run.db /\ run.gained THEN "cycle" ELSE "ending")
  /\ Idle

---------------------------------------------------------------------------
(* A run stops *)

\* An exception or a cancellation between two steps; the finally still saves.
Raise ==
  /\ run.pc \notin {"off", "ending"}
  /\ To("ending") /\ UNCHANGED <<disk, data>> /\ Idle

EndRun ==
  /\ run.pc = "ending"
  /\ disk' = data /\ data' = Blank /\ run' = NoRun
  /\ Idle

Crash ==
  /\ run.pc # "off"
  /\ data' = Blank /\ run' = NoRun /\ UNCHANGED disk
  /\ Idle

---------------------------------------------------------------------------
(* replay_quarantined(), by an operator with a checkpoint object of their own *)

Inspect ==
  /\ operator.pc = "away" /\ operator.left > 0
  /\ \E n \in Quarantined(disk) :
       operator' = [pc |-> "open", left |-> operator.left - 1, loaded |-> disk, name |-> n]
  /\ UNCHANGED <<disk, data, run, stored, owed>> /\ touched' = {}

\* Mutant: the file is not compared with what was loaded.
UnchangedTrusted == operator.pc = "open"

\* _save() takes the lock of the session and refuses a file changed since.
Unchanged == disk = operator.loaded

Repair ==
  /\ operator.pc = "open"
  /\ disk' = IF run.pc = "off" /\ Unchanged THEN ClearFailure(operator.loaded, {operator.name}) ELSE disk
  /\ operator' = [pc |-> "away", left |-> operator.left]
  /\ UNCHANGED <<data, run, stored, owed>> /\ touched' = {}

CorpusNext ==
  \/ BeginRun \/ ResumeIndexing \/ ResumePersistence \/ Retry \/ Upsert \/ Acknowledge
  \/ Index \/ AcknowledgeIndex \/ Cycle \/ Accept \/ Consume \/ Cycled
  \/ Raise \/ EndRun \/ Crash \/ Inspect \/ Repair

---------------------------------------------------------------------------
\* No accepted repository is forgotten: until it is rejected, handed to the
\* backend or indexed, the file a next run would load still lists it, wherever
\* the last run raised or crashed and whatever an operator saved in between.
NothingForgotten == owed \subseteq disk.persist \cup disk.index

\* The database and the index are given only work the file on disk already
\* owns, and never a quarantined repository.
EffectsOwned == touched \subseteq (disk.persist \cup disk.index) \ Quarantined(data)

\* The unresolved work of the checkpoint stays within its capacity.
ActiveBounded == Cardinality(Active(data)) <= MaxActive /\ Cardinality(Active(disk)) <= MaxActive

\* Accepted work is never forgotten, acted upon only when it is owned on
\* disk, and never more than the bound on active repositories.
WorkKept == NothingForgotten /\ EffectsOwned /\ ActiveBounded
=============================================================================
