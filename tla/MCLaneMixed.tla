----------------------------- MODULE MCLaneMixed -----------------------------
(* Two instances of the lane in one run: a rejected event before a valid   *)
(* one, and four that are rejected for different reasons.  A behaviour is  *)
(* of one of them, the plan of what the backend may submit.                *)
EXTENDS MCFeedbackLane

VARIABLE plan

Plan == [pair |-> EventsPair, limits |-> EventsLimited \cup {Anonymous("d", 1)}]
EventsPlanned == Plan.pair \cup Plan.limits

\* Bound: the second instance starts from a profile and has two messages.
MixedInit ==
  /\ Init /\ plan \in DOMAIN Plan
  /\ plan = "limits" => profile.pv = 1
MixedNext ==
  /\ Next /\ enqueued' \subseteq Plan[plan] /\ UNCHANGED plan
  /\ plan = "limits" => nextMid' <= 3
MixedSpec == MixedInit /\ [][MixedNext]_<<vars, plan>>
=============================================================================
