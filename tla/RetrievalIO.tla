---------------------------- MODULE RetrievalIO ----------------------------
(***************************************************************************)
(* retrieval/runtime.py: a recommendation fans its reads out to a shared   *)
(* pool.  Admission is first come, first served, its requests hold tickets *)
(* until the pool has room, and a request ends only when every read it     *)
(* started has ended.                                                      *)
(***************************************************************************)
EXTENDS BoundedExecutors, SequencesExt

CONSTANTS Reads,                    \* <<request, n>>: the reads requests submit
          IOWorkers, IOCapacity

ASSUME ReadsAssumption ==
  /\ IsFiniteSet(Reads) /\ \A d \in Reads : d[1] \in Requests
  /\ IOWorkers \in Nat \ {0} /\ IOCapacity \in Nat /\ IOWorkers <= IOCapacity

Reading == {d[1] : d \in Reads}     \* the requests that read
Of(r) == {d \in Reads : d[1] = r}

VARIABLES
  child,        \* read -> none, ticket, granted, queued, running, returned, done
  tickets,      \* waiting
  outstanding,  \* outstanding
  closed        \* the pool was closed for retirement

io == <<child, tickets, outstanding, closed>>

IOInit ==
  /\ child = [d \in Reads |-> "none"] /\ tickets = <<>> /\ outstanding = 0 /\ closed = FALSE

In(s) == {d \in Reads : child[d] \in s}
Leaves(r) == pc' = [pc EXCEPT ![r] = "joining"]
Move(d, s) == child' = [child EXCEPT ![d] = s]

(* RetrievalWork.submit: one call at a time, blocked while it has a ticket *)
Ask(d) ==
  /\ pc[d[1]] = "running" /\ child[d] = "none"
  /\ \A e \in Of(d[1]) : child[e] \notin {"ticket", "granted"}
  /\ IF d[1] \in expired \/ retiring \/ closed
     THEN Leaves(d[1]) /\ UNCHANGED <<child, tickets>>
     ELSE Move(d, "ticket") /\ tickets' = Append(tickets, d) /\ UNCHANGED pc
  /\ UNCHANGED <<retiring, slots, awaited, expired, outstanding, closed>>

Grant(d) ==
  /\ tickets # <<>> /\ Head(tickets) = d /\ outstanding < IOCapacity
  /\ d[1] \notin expired /\ ~retiring /\ ~closed
  /\ tickets' = Tail(tickets) /\ outstanding' = outstanding + 1 /\ Move(d, "granted")
  /\ UNCHANGED <<executors, closed>>

GiveUpTicket(d) ==
  /\ child[d] = "ticket" /\ (d[1] \in expired \/ retiring \/ closed)
  /\ \E i \in DOMAIN tickets : tickets[i] = d /\ tickets' = RemoveAt(tickets, i)
  /\ Move(d, "none") /\ Leaves(d[1])
  /\ UNCHANGED <<retiring, slots, awaited, expired, outstanding, closed>>

(* The submission itself takes the admission gate once more. *)
Enqueue(d) ==
  /\ child[d] = "granted"
  /\ IF retiring THEN Move(d, "none") /\ outstanding' = outstanding - 1 /\ Leaves(d[1])
     ELSE Move(d, "queued") /\ UNCHANGED <<outstanding, pc>>
  /\ UNCHANGED <<retiring, slots, awaited, expired, tickets, closed>>

BeginRead(d) ==
  /\ child[d] = "queued" /\ Cardinality(In({"running", "returned"})) < IOWorkers
  /\ Move(d, IF d[1] \in expired THEN "returned" ELSE "running")
  /\ UNCHANGED <<executors, tickets, outstanding, closed>>

EndRead(d) ==
  /\ child[d] = "running" /\ Move(d, "returned")
  /\ UNCHANGED <<executors, tickets, outstanding, closed>>

ReleaseRead(d) ==
  /\ child[d] = "returned" /\ Move(d, "done") /\ outstanding' = outstanding - 1
  /\ UNCHANGED <<executors, tickets, closed>>

(* RetrievalWork.result and __exit__: a failure or an expired deadline     *)
(* cancels the reads still queued; either way all started reads are joined *)
Finished(r) == \A d \in Of(r) : child[d] \in {"none", "returned", "done"}
Leave(r) ==
  /\ r \in Reading /\ pc[r] = "running" /\ \A d \in Of(r) : child[d] \notin {"ticket", "granted"}
  /\ Leaves(r)
  /\ child' = [d \in Reads |-> IF d[1] = r /\ child[d] = "queued" THEN "returned" ELSE child[d]]
  /\ UNCHANGED <<retiring, slots, awaited, expired, tickets, outstanding, closed>>

(* Mutant: an expired request does not wait for its running reads. *)
JoinUnlessExpired(r) ==
  /\ r \in Reading /\ (Finished(r) \/ r \in expired)
  /\ \/ pc[r] = "joining"
     \/ pc[r] = "running" /\ \A d \in Of(r) : child[d] # "none"
  /\ Returned(r)
  /\ UNCHANGED <<retiring, slots, awaited, expired, io>>

Join(r) ==
  /\ r \in Reading /\ Finished(r)
  /\ \/ pc[r] = "joining"
     \/ pc[r] = "running" /\ \A d \in Of(r) : child[d] # "none"
  /\ Returned(r)
  /\ UNCHANGED <<retiring, slots, awaited, expired, io>>

IOStep(d) ==
  Ask(d) \/ Grant(d) \/ GiveUpTicket(d) \/ Enqueue(d) \/ BeginRead(d) \/ EndRead(d) \/ ReleaseRead(d)

(* drain: the second phase of retirement. *)
ClosePool ==
  /\ closed' = TRUE
  /\ child' = [d \in Reads |-> IF child[d] = "queued" THEN "returned" ELSE child[d]]
  /\ UNCHANGED <<tickets, outstanding>>

(* No read outlives the request that started it, so that the request's own *)
(* slot bounds the work done for it; and the pool's bound counts the reads *)
(* that wait, run, or were cancelled and not yet settled, each once.       *)
ReadsWithinRequest ==
  /\ \A d \in In({"ticket", "granted", "queued", "running"}) : pc[d[1]] \in {"running", "joining"}
  /\ outstanding = Cardinality(In({"granted", "queued", "running", "returned"}))
  /\ outstanding <= IOCapacity
=============================================================================
