--------------------------- MODULE MCModelJournal ---------------------------
(* Instances of the model journal for TLC: the operations of one user.     *)
EXTENDS ModelJournal, TLC

CONSTANTS w1, w2, p1, v1, v2, none

WorkersOne == {w1}
WorkersTwo == {w1, w2}
ProducersOne == {p1}
VectorsOne == {v1}
VectorsTwo == {v1, v2}
Interchangeable == Permutations(WorkersTwo) \cup Permutations(VectorsTwo)

Op(id, version, kind, at) ==
  [id |-> id, version |-> version, kind |-> kind, at |-> at, session |-> "none", genesis |-> FALSE,
   content |-> 0, source |-> "none", fb |-> 0, repo |-> "none", event |-> "none", dwell |-> 0,
   epoch |-> 1, started |-> at, witness |-> "none", live |-> TRUE, revoked |-> 0]
Profile(id, version, at, genesis) ==
  [Op(id, version, "profile", at) EXCEPT !.content = version, !.genesis = genesis]
Begin(id, version, at, s) == [Op(id, version, "begin", at) EXCEPT !.session = s]
Reset(id, version, at, s, epoch) ==
  [Op(id, version, "reset", at) EXCEPT !.session = s, !.epoch = epoch]
Feedback(id, version, at, s, start, event, fb) ==
  [Op(id, version, "feedback", at) EXCEPT !.session = s, !.started = start, !.event = event,
                                          !.fb = fb, !.repo = "r"]
Withdrawn(o, at) == [o EXCEPT !.kind = "withdrawal", !.revoked = at]

(* A profile given twice, each of which may be withdrawn.                  *)
First == Profile("a", 1, 1, TRUE)
Again == Profile("b", 2, 1, TRUE)
OpsRenewed == {First, Again}
WithdrawalsRenewed == {Withdrawn(First, 3), Withdrawn(Again, 3)}
(* A session too many and what depends on it, and a session fed after it   *)
(* was sealed by its silence.                                              *)
OpsCapacity ==
  {First, Begin("c", 2, 2, "s"), Feedback("d", 3, 3, "s", 2, "like", 1), Begin("e", 4, 3, "t"),
   Reset("f", 5, 4, "t", 1), Feedback("g", 6, 9, "s", 2, "save", 2)}
WithdrawalsNone == {}
=============================================================================
