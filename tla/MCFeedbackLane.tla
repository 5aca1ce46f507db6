--------------------------- MODULE MCFeedbackLane ---------------------------
(* Instances of FeedbackLane for TLC: a few events of one user. *)
EXTENDS FeedbackLane, TLC

Valid(i, v)     == [id |-> i, ver |-> v, kind |-> "valid"]
Malformed(i, v) == [id |-> i, ver |-> v, kind |-> "malformed"]
Limited(i, v)   == [id |-> i, ver |-> v, kind |-> "limited"]
Unstable(i, v)  == [id |-> i, ver |-> v, kind |-> "unstable"]
Anonymous(i, v) == [id |-> i, ver |-> v, kind |-> "anonymous"]

EventsLimited == {Limited("a", 1), Malformed("b", 2), Unstable("c", 2)}
EventsPair    == {Malformed("a", 1), Valid("b", 2)}
EventsReplayed == EventsPair \cup {Unstable("b", 2)}

WorkerSymmetry == Permutations(Workers)
=============================================================================
