--------------------------- MODULE QueryEncoding ---------------------------
(***************************************************************************)
(* The one shared encoder (embedding/runtime.py) and the query cache in    *)
(* front of it (embedding/query_cache.py).  Searches for the same query    *)
(* share one computation: its owner encodes, the others wait for its       *)
(* outcome.  The encoder admits its callers in the order they came, and    *)
(* only so many at a time.                                                 *)
(***************************************************************************)
EXTENDS BoundedExecutors, SequencesExt

CONSTANTS Query,                        \* search -> its query
          Encoders,                     \* requests that encode without the cache
          MaxConcurrency, MaxFlights, MaxWaiters, MaxEntries,
          Nobody

Searches == DOMAIN Query
Queries == {Query[s] : s \in Searches}

ASSUME EncodingAssumption ==
  /\ Searches \cup Encoders \subseteq Requests /\ Searches \cap Encoders = {}
  /\ Nobody \notin Requests /\ MaxConcurrency \in Nat \ {0}

VARIABLES
  entries,     \* queries whose vector is cached
  flight,      \* query -> the request that computes it, or Nobody (_flights)
  owner,       \* waiter -> the flight it holds a future of, or Nobody
  outcome,     \* search that owns a flight -> none, value, error: its future
  enc,         \* request -> idle, owning, waiting, ticket, encoding, value, error,
               \* left
  line,        \* tickets at the encoder (_waiting)
  late         \* owners whose shared deadline has passed

encoding == <<entries, flight, owner, outcome, enc, line, late>>

EncodingInit ==
  /\ entries = {} /\ flight = [q \in Queries |-> Nobody]
  /\ owner = [s \in Searches |-> Nobody] /\ outcome = [s \in Searches |-> "none"]
  /\ enc = [r \in Searches \cup Encoders |-> "idle"] /\ line = <<>> /\ late = {}

Waiting == {s \in Searches : enc[s] = "waiting"}
Flying == {q \in Queries : flight[q] # Nobody}
Active == {r \in DOMAIN enc : enc[r] = "encoding"}
Becomes(r, s) == enc' = [enc EXCEPT ![r] = s]

(* get_or_compute, up to the end of its first locked section *)
Lookup(s) ==
  /\ pc[s] = "running" /\ enc[s] = "idle"
  /\ LET q == Query[s] IN
     \/ /\ s \in expired /\ Becomes(s, "left") /\ UNCHANGED <<flight, owner>>
     \/ /\ s \notin expired /\ q \in entries
        /\ Becomes(s, "left") /\ UNCHANGED <<flight, owner>>
     \/ /\ s \notin expired /\ q \notin entries /\ flight[q] = Nobody
        /\ IF Cardinality(Flying) < MaxFlights
           THEN /\ Becomes(s, "owning")
                /\ flight' = [flight EXCEPT ![q] = s]
           ELSE Becomes(s, "left") /\ UNCHANGED flight
        /\ UNCHANGED owner
     \/ /\ s \notin expired /\ q \notin entries /\ flight[q] # Nobody
        /\ IF Cardinality(Waiting) < MaxWaiters
           THEN Becomes(s, "waiting") /\ owner' = [owner EXCEPT ![s] = flight[q]]
           ELSE Becomes(s, "left") /\ UNCHANGED owner
        /\ UNCHANGED flight
  /\ UNCHANGED <<executors, entries, outcome, line, late>>

(* A waiter stops for its own deadline, or takes what its owner got. *)
StopWaiting(s) ==
  /\ s \in Waiting /\ Becomes(s, "left") /\ owner' = [owner EXCEPT ![s] = Nobody]
  /\ UNCHANGED <<executors, entries, flight, outcome, line, late>>
Share(s) ==
  /\ s \in Waiting /\ outcome[owner[s]] # "none" /\ Becomes(s, "left")
  /\ owner' = [owner EXCEPT ![s] = Nobody]
  /\ UNCHANGED <<executors, entries, flight, outcome, line, late>>

(* encode: a ticket, its turn, the computation.  What an owner encodes is  *)
(* bounded by a deadline of the cache, not by its request's.               *)
TakeTicket(r) ==
  /\ \/ r \in Searches /\ enc[r] = "owning"
     \/ r \in Encoders /\ pc[r] = "running" /\ enc[r] = "idle"
  /\ Becomes(r, "ticket") /\ line' = Append(line, r)
  /\ UNCHANGED <<executors, entries, flight, owner, outcome, late>>

SharedDeadline(s) ==
  /\ s \in Searches /\ enc[s] = "ticket" /\ s \notin late /\ late' = late \cup {s}
  /\ UNCHANGED <<executors, entries, flight, owner, outcome, enc, line>>

Encode(r) ==
  /\ line # <<>> /\ Head(line) = r /\ r \notin late /\ Cardinality(Active) < MaxConcurrency
  /\ Becomes(r, "encoding") /\ line' = Tail(line)
  /\ UNCHANGED <<executors, entries, flight, owner, outcome, late>>

Withdraw(r) ==
  /\ enc[r] = "ticket" /\ r \in late /\ Becomes(r, "error")
  /\ \E i \in DOMAIN line : line[i] = r /\ line' = RemoveAt(line, i)
  /\ UNCHANGED <<executors, entries, flight, owner, outcome, late>>

EndEncode(r) ==
  /\ enc[r] = "encoding"
  /\ \/ r \in Encoders /\ Becomes(r, "left")
     \/ r \in Searches /\ \E v \in {"value", "error"} : Becomes(r, v)
  /\ UNCHANGED <<executors, entries, flight, owner, outcome, line, late>>

(* Mutant: a failed owner leaves the table without answering its future. *)
PublishValueOnly(s) ==
  /\ s \in Searches /\ enc[s] \in {"value", "error"} /\ Becomes(s, "left")
  /\ flight' = [flight EXCEPT ![Query[s]] = Nobody]
  /\ entries' = IF enc[s] = "value" THEN {Query[s]} ELSE entries
  /\ outcome' = [outcome EXCEPT ![s] = IF enc[s] = "value" THEN "value" ELSE @]
  /\ late' = late \ {s}
  /\ UNCHANGED <<executors, owner, line>>

(* The last locked section of an owner: entry, flight and future at once. *)
Publish(s) ==
  /\ s \in Searches /\ enc[s] \in {"value", "error"} /\ Becomes(s, "left")
  /\ LET q == Query[s] IN
     /\ flight' = [flight EXCEPT ![q] = Nobody]
     /\ \/ /\ enc[s] = "value" /\ Cardinality(entries) < MaxEntries
           /\ entries' = entries \cup {q}
        \/ /\ enc[s] = "value" /\ Cardinality(entries) >= MaxEntries
           /\ \E lru \in entries : entries' = (entries \ {lru}) \cup {q}
        \/ enc[s] = "error" /\ UNCHANGED entries
  /\ outcome' = [outcome EXCEPT ![s] = enc[s]] /\ late' = late \ {s}
  /\ UNCHANGED <<executors, owner, line>>

Expire(q) ==
  /\ q \in entries /\ entries' = entries \ {q}
  /\ UNCHANGED <<executors, flight, owner, outcome, enc, line, late>>

(* The job returns once its part in the encoding is over. *)
EndEncoding(r) ==
  /\ r \in DOMAIN enc /\ pc[r] = "running"
  /\ enc[r] = "left" /\ Returned(r)
  /\ UNCHANGED <<retiring, slots, awaited, expired, encoding>>

EncodingStep(r) ==
  \/ r \in Searches /\ (Lookup(r) \/ StopWaiting(r) \/ Share(r) \/ SharedDeadline(r) \/ Publish(r))
  \/ TakeTicket(r) \/ Encode(r) \/ Withdraw(r) \/ EndEncode(r)

(* Everyone who waits, waits for somebody who will answer: a flight is in  *)
(* the table exactly while its owner is on its way through the encoder,    *)
(* no two searches compute one query at the same time, a waiter's future   *)
(* is that flight's or has its outcome, and a ticket is in the line exactly *)
(* while its caller waits there.                                           *)
FlightsAnswered ==
  /\ \A s \in Searches : (enc[s] \in {"owning", "ticket", "encoding", "value", "error"})
                            <=> (flight[Query[s]] = s)
  /\ \A s \in Waiting : outcome[owner[s]] # "none" \/ flight[Query[s]] = owner[s]
  /\ ToSet(line) = {r \in DOMAIN enc : enc[r] = "ticket"} /\ IsInjective(line)
  /\ Cardinality(Active) <= MaxConcurrency
=============================================================================
