--------------------------- MODULE ServingProcess ---------------------------
(***************************************************************************)
(* The API process from start-up to retirement (api/main.py lifespan,      *)
(* api/v2.py retirement, api/health.py): a warm-up on a thread of its own, *)
(* the requests of the executors with their reads and encodings, and the   *)
(* drain that must close shared clients only under nobody.                 *)
(***************************************************************************)
EXTENDS RetrievalIO, QueryEncoding

CONSTANTS Health,            \* the diagnostic job, of class "health"
          Resources,         \* clients and pools the cleanup plan closes
          MaxGenerations, MaxRetries, MaxFailures

\* The diagnostic job neither reads nor encodes.
ASSUME ServingAssumption ==
  /\ Health \in Requests \ (Reading \cup Searches \cup Encoders)
  /\ {"pool", "none"} \cap Classes = {}

VARIABLES
  life,        \* starting, serving, retired: the lifespan of this generation
  warm,        \* running, over: the warm-up worker (startup_future)
  barrier,     \* its completion callback is registered
  task,        \* none, queued, done: the drain submitted to the loop's executor
  diag,        \* none, active, scheduled, running, failed, completed
  calls,       \* calls of plan.run that have not begun
  plan,        \* pending, draining, closing, failed, completed
  undrained,   \* classes of the first drain phase still to do, or {} when done
  failedDrains,\* those that failed in this attempt
  current,     \* the class whose executor is being shut down, "pool" or "none"
  todo,        \* resources the plan has still to try, in this attempt
  closes,      \* resource -> times it was closed
  failed,      \* resources whose close failed in this attempt
  generation, retries, failures

plans == <<calls, plan, undrained, failedDrains, current, todo, closes, failed>>
process == <<life, warm, barrier, task, diag, plans, generation, retries, failures>>
vars == <<executors, io, encoding, process>>

Fresh ==
  /\ barrier' = FALSE /\ task' = "none" /\ diag' = "none" /\ calls' = 0
  /\ plan' = "pending" /\ undrained' = Classes /\ failedDrains' = {} /\ current' = "none"
  /\ todo' = Resources /\ closes' = [x \in Resources |-> 0] /\ failed' = {}

Init ==
  /\ ExecutorsInit /\ IOInit /\ EncodingInit
  /\ life = "starting" /\ warm = "running" /\ barrier = FALSE /\ task = "none"
  /\ diag = "none" /\ calls = 0 /\ plan = "pending" /\ undrained = Classes
  /\ failedDrains = {} /\ current = "none" /\ todo = Resources
  /\ closes = [x \in Resources |-> 0] /\ failed = {}
  /\ generation \in 1..MaxGenerations /\ retries = 0 /\ failures = 0

-----------------------------------------------------------------------------
(* Requests, while the process serves. *)

Arrive(r) ==
  /\ life = "serving" /\ Admit(r) /\ UNCHANGED <<io, encoding, process>>
Start(r) == Begin(r) /\ UNCHANGED <<io, encoding, process>>
GiveUp(r) == Abandon(r) /\ UNCHANGED <<io, encoding, process>>
Settle(r) == Release(r) /\ UNCHANGED <<io, encoding, process>>
EndHealth ==
  /\ pc[Health] = "running" /\ Returned(Health)
  /\ UNCHANGED <<retiring, slots, awaited, expired, io, encoding, process>>
(* A search reads the store once it is done with its query's vector, and   *)
(* ends like any reader; an embedding job ends with its encoding.          *)
MayRead(r) == r \in DOMAIN enc => enc[r] = "left"
ReadStep ==
  /\ \/ \E d \in Reads : MayRead(d[1]) /\ IOStep(d)
     \/ \E r \in Reading : MayRead(r) /\ (Leave(r) \/ Join(r))
  /\ UNCHANGED <<encoding, process>>
EncodeStep ==
  /\ \E r \in DOMAIN enc : EncodingStep(r) \/ (r \notin Reading /\ EndEncoding(r))
  /\ UNCHANGED <<io, process>>
ExpireEntry ==
  /\ \E q \in Queries : Expire(q)
  /\ UNCHANGED <<io, process>>

-----------------------------------------------------------------------------
(* The lifespan *)

Serve ==
  /\ life = "starting" /\ warm = "over"
  /\ life' = "serving" /\ diag' = "active"
  /\ UNCHANGED <<executors, io, encoding, warm, barrier, task, plans, generation, retries, failures>>

(* The end of the lifespan, or a start-up that failed or took too long:    *)
(* begin_v2_runtime_retirement and start_drain, with nothing in between.   *)
Retire ==
  /\ life \in {"starting", "serving"}
  /\ retiring' = TRUE /\ life' = "retired"
  /\ IF warm = "running" THEN barrier' = TRUE /\ UNCHANGED task
     ELSE task' = "queued" /\ UNCHANGED barrier
  /\ UNCHANGED <<slots, pc, awaited, expired, io, encoding, warm, diag, plans,
                 generation, retries, failures>>

(* shutdown_v2_runtime, start_drain once more *)
Retry ==
  /\ life = "retired" /\ retries < MaxRetries /\ warm = "over"
  /\ task = "none" \/ (task = "done" /\ plan = "failed")
  /\ task' = "queued" /\ retries' = retries + 1
  /\ UNCHANGED <<executors, io, encoding, life, warm, barrier, diag, plans, generation, failures>>

(* _drain_dependencies of a generation that served goes through the        *)
(* diagnostics: their job must have ended, and only a failed attempt is    *)
(* repeated.                                                               *)
HealthInFlight == pc[Health] \in {"queued", "running"}
DrainDependencies ==
  IF diag = "none" THEN calls' = calls + 1 /\ UNCHANGED diag
  ELSE IF diag \in {"scheduled", "running", "completed"} THEN UNCHANGED <<calls, diag>>
  ELSE diag' = "scheduled" /\ UNCHANGED calls

RunTask ==
  /\ task = "queued" /\ task' = "done" /\ DrainDependencies
  /\ UNCHANGED <<executors, io, encoding, life, warm, barrier, plan, undrained, failedDrains,
                 current, todo, closes, failed, generation, retries, failures>>

EndWarmUp ==
  /\ warm = "running" /\ warm' = "over"
  /\ IF barrier THEN DrainDependencies ELSE UNCHANGED <<calls, diag>>
  /\ UNCHANGED <<executors, io, encoding, life, barrier, task, plan, undrained, failedDrains,
                 current, todo, closes, failed, generation, retries, failures>>

DiagnosticsDone ==
  /\ diag = "scheduled" /\ ~HealthInFlight
  /\ diag' = "running" /\ calls' = calls + 1
  /\ UNCHANGED <<executors, io, encoding, life, warm, barrier, task, plan, undrained,
                 failedDrains, current, todo, closes, failed, generation, retries, failures>>

-----------------------------------------------------------------------------
(* _RuntimeCleanupPlan.run, one caller at a time *)

Report(result) ==
  /\ plan' = result /\ diag' = IF diag = "running" THEN result ELSE diag

RunPlan ==
  /\ calls > 0 /\ plan \in {"pending", "failed", "completed"}
  /\ calls' = calls - 1 /\ plan' = "draining" /\ failedDrains' = {}
  /\ UNCHANGED <<executors, io, encoding, life, warm, barrier, task, diag, undrained, current,
                 todo, closes, failed, generation, retries, failures>>

(* Phase one: every executor is shut down and joined, one after the other. *)
(* The health executor may be running this very code: it is given a second *)
(* to settle, and fails the attempt if it does not.                        *)
DrainClass(c) ==
  /\ plan = "draining" /\ current = "none" /\ c \in undrained \ failedDrains
  /\ current' = c
  /\ IF c = ClassOf[Health] THEN UNCHANGED pc ELSE CancelQueued(c)
  /\ UNCHANGED <<retiring, slots, awaited, expired, io, encoding, life, warm, barrier, task,
                 diag, calls, plan, undrained, failedDrains, todo, closes, failed,
                 generation, retries, failures>>

ClassDrained(c) ==
  /\ current = c /\ c \in Classes
  /\ \/ Settled(c) /\ undrained' = undrained \ {c} /\ UNCHANGED failedDrains
     \/ /\ c = ClassOf[Health] /\ ~Settled(c)
        /\ failedDrains' = failedDrains \cup {c} /\ UNCHANGED undrained
  /\ current' = "none"
  /\ UNCHANGED <<executors, io, encoding, life, warm, barrier, task, diag, calls, plan, todo,
                 closes, failed, generation, retries, failures>>

PhaseFails ==
  /\ plan = "draining" /\ current = "none" /\ failedDrains # {} /\ undrained = failedDrains
  /\ Report("failed")
  /\ UNCHANGED <<executors, io, encoding, life, warm, barrier, task, calls, undrained,
                 failedDrains, current, todo, closes, failed, generation, retries, failures>>

(* Phase two: the pool of reads, whose owners have all ended. *)
DrainPool ==
  /\ plan = "draining" /\ current = "none" /\ undrained = {}
  /\ current' = "pool" /\ ClosePool
  /\ UNCHANGED <<executors, encoding, life, warm, barrier, task, diag, calls, plan, undrained,
                 failedDrains, todo, closes, failed, generation, retries, failures>>

(* Then the clients and caches are captured, and closed one by one; what   *)
(* fails is kept for the next attempt.                                     *)
PoolDrained ==
  /\ current = "pool" /\ outstanding = 0
  /\ current' = "none" /\ plan' = "closing" /\ failed' = {}
  /\ UNCHANGED <<executors, io, encoding, life, warm, barrier, task, diag, calls, undrained,
                 failedDrains, todo, closes, generation, retries, failures>>

Close(x) ==
  /\ plan = "closing" /\ x \in todo /\ todo' = todo \ {x}
  /\ \/ closes' = [closes EXCEPT ![x] = @ + 1] /\ UNCHANGED <<failed, failures>>
     \/ /\ failures < MaxFailures /\ failures' = failures + 1
        /\ failed' = failed \cup {x} /\ UNCHANGED closes
  /\ UNCHANGED <<executors, io, encoding, life, warm, barrier, task, diag, calls, plan,
                 undrained, failedDrains, current, generation, retries>>

EndPlan ==
  /\ plan = "closing" /\ todo = {}
  /\ Report(IF failed = {} THEN "completed" ELSE "failed") /\ todo' = failed
  /\ entries' = {}
  /\ UNCHANGED <<executors, io, flight, owner, outcome, enc, line, late, life, warm, barrier,
                 task, calls, undrained, failedDrains, current, closes, failed,
                 generation, retries, failures>>

(* _prepare_runtime_startup refuses to start over an unfinished cleanup. *)
StartAgain ==
  /\ life = "retired" /\ plan = "completed" /\ generation < MaxGenerations
  /\ generation' = generation + 1 /\ life' = "starting" /\ warm' = "running" /\ Fresh
  /\ retiring' = FALSE /\ closed' = FALSE
  /\ UNCHANGED <<slots, pc, awaited, expired, child, tickets, outstanding, encoding,
                 retries, failures>>

-----------------------------------------------------------------------------
PlanStep ==
  \/ RunPlan \/ (\E c \in Classes : DrainClass(c) \/ ClassDrained(c)) \/ PhaseFails
  \/ DrainPool \/ PoolDrained \/ (\E x \in Resources : Close(x)) \/ EndPlan

Progress ==
  \/ \E r \in Requests : Start(r) \/ Settle(r)
  \/ EndHealth \/ ReadStep \/ EncodeStep
  \/ RunTask \/ EndWarmUp \/ DiagnosticsDone \/ PlanStep

Next ==
  \/ \E r \in Requests : Arrive(r) \/ GiveUp(r)
  \/ ExpireEntry \/ Serve \/ Retire \/ Retry \/ StartAgain
  \/ Progress

Spec == Init /\ [][Next]_vars
(* Threads run and calls return; nobody has to give up, retire or retry.   *)
FairSpec == Spec /\ WF_vars(Progress)

-----------------------------------------------------------------------------
(* Clients and caches are closed only when nothing can use them any more:  *)
(* no request, read, encoding or warm-up goes on, and none is admitted.    *)
(* Each is closed once, and a plan that completed has closed them all.     *)
ClosedUnderNobody ==
  /\ (\E x \in Resources : closes[x] > 0) =>
       /\ retiring /\ warm = "over"
       /\ \A r \in Requests : pc[r] \in {"new", "done"}
       /\ In({"ticket", "granted", "queued", "running", "returned"}) = {}
       /\ line = <<>> /\ Active = {} /\ Flying = {}
  /\ \A x \in Resources : closes[x] <= 1
  /\ plan = "completed" => \A x \in Resources : closes[x] = 1

\* A slot is held for exactly what is admitted, and no read outlives the
\* request it is done for.
SlotsAndReads == SlotsExact /\ ReadsWithinRequest
\* Every flight of the query cache is answered, and nothing is closed while
\* anybody can use it.
FlightsAndClients == FlightsAnswered /\ ClosedUnderNobody

(* A retirement once begun is carried through or reported as failed, also  *)
(* when the warm-up or a diagnostic outlives the lifespan; and every       *)
(* admitted request gives its slot back.                                   *)
RetirementEnds == (life = "retired") ~> (plan \in {"completed", "failed"})
=============================================================================
