-------------------------- MODULE BoundedExecutors --------------------------
(***************************************************************************)
(* The bounded executors of the serving process (inference/runtime.py,     *)
(* api/runtime.py, embedding/runtime.py): a request takes a slot, waits in *)
(* its class's queue, runs on one of its workers, and gives the slot back  *)
(* in the completion callback of its future, whatever became of the HTTP   *)
(* request that awaits it.                                                 *)
(***************************************************************************)
EXTENDS Integers, FiniteSets, Sequences

CONSTANTS Requests, Classes,
          ClassOf,             \* request -> class
          Limited,             \* the classes whose requests carry a deadline
          Workers, Capacity,   \* class -> threads, slots
          Absences             \* bound: sets of requests that do not come in a behaviour

ASSUME ExecutorAssumption ==
  /\ IsFiniteSet(Requests)
  /\ ClassOf \in [Requests -> Classes] /\ Limited \subseteq Classes
  /\ Workers \in [Classes -> Nat \ {0}] /\ Capacity \in [Classes -> Nat \ {0}]
  /\ \A c \in Classes : Workers[c] <= Capacity[c]

VARIABLES
  retiring,    \* runtime_lifecycle: admission has stopped
  slots,       \* class -> slots taken (_outstanding)
  pc,          \* request -> new, queued, running, joining, returned, done
  awaited,     \* requests whose HTTP handler still awaits them
  expired      \* running requests whose deadline passed or was cancelled

executors == <<retiring, slots, pc, awaited, expired>>

ExecutorsInit ==
  /\ retiring = FALSE /\ slots = [c \in Classes |-> 0]
  /\ \E away \in Absences : pc = [r \in Requests |-> IF r \in away THEN "done" ELSE "new"]
  /\ awaited = {} /\ expired = {}

InClass(c) == {r \in Requests : ClassOf[r] = c}
OnThread(c) == {r \in InClass(c) : pc[r] \in {"running", "joining", "returned"}}

(* submit, under runtime_admission *)
Admit(r) ==
  /\ pc[r] = "new" /\ ~retiring
  /\ IF slots[ClassOf[r]] < Capacity[ClassOf[r]]
     THEN /\ pc' = [pc EXCEPT ![r] = "queued"]
          /\ slots' = [slots EXCEPT ![ClassOf[r]] = @ + 1]
          /\ awaited' = awaited \cup {r}
     ELSE /\ pc' = [pc EXCEPT ![r] = "done"]
          /\ UNCHANGED <<slots, awaited>>
  /\ UNCHANGED <<retiring, expired>>

(* A worker thread takes the job; a deadline that passed in the queue ends *)
(* it there (check_deadline of invoke).                                    *)
Begin(r) ==
  /\ pc[r] = "queued" /\ Cardinality(OnThread(ClassOf[r])) < Workers[ClassOf[r]]
  /\ pc' = [pc EXCEPT ![r] = IF r \in expired THEN "returned" ELSE "running"]
  /\ UNCHANGED <<retiring, slots, awaited, expired>>

(* The await times out or its client disconnects: queued work is           *)
(* cancelled, running work keeps its slot and learns of it at its next     *)
(* check.                                                                  *)
Abandon(r) ==
  /\ r \in awaited /\ awaited' = awaited \ {r}
  /\ expired' = IF ClassOf[r] \in Limited THEN expired \cup {r} ELSE expired
  /\ pc' = IF pc[r] = "queued" THEN [pc EXCEPT ![r] = "returned"] ELSE pc
  /\ UNCHANGED <<retiring, slots>>

(* The future is done; its callback runs after others may have seen it.    *)
Returned(r) == pc' = [pc EXCEPT ![r] = "returned"]
Release(r) ==
  /\ pc[r] = "returned"
  /\ pc' = [pc EXCEPT ![r] = "done"]
  /\ slots' = [slots EXCEPT ![ClassOf[r]] = @ - 1]
  /\ awaited' = awaited \ {r} /\ expired' = expired \ {r}
  /\ UNCHANGED retiring

(* executor.shutdown(cancel_futures=True) *)
CancelQueued(c) ==
  pc' = [r \in Requests |-> IF r \in InClass(c) /\ pc[r] = "queued" THEN "returned" ELSE pc[r]]
Settled(c) == \A r \in InClass(c) : pc[r] \in {"new", "done"}

(* A slot is held from admission to the end of the job, once: never given  *)
(* back by a timeout while the job goes on, nor twice, nor forgotten.      *)
SlotsExact ==
  \A c \in Classes :
     /\ slots[c] = Cardinality({r \in InClass(c) : pc[r] \notin {"new", "done"}})
     /\ slots[c] <= Capacity[c]
=============================================================================
