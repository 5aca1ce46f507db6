--------------------------- MODULE OrderedLedger ---------------------------
(***************************************************************************)
(* What the ordered feedback path promises about one user: the backend's   *)
(* feedback versions 1, 2, 3, ... are settled one at a time and in order,  *)
(* each exactly once, either learned into the vector or rejected.  A       *)
(* rejection raises a fence, and nothing is learned while it is up.        *)
(***************************************************************************)
EXTENDS Naturals, Sequences

CONSTANTS Ids,      \* identities an event may carry
          NoFence   \* the absent fence

VARIABLES log,      \* settled versions, log[n] being version n
          fence     \* the rejection whose dead-letter copy is still awaited

lvars == <<log, fence>>

LInit == log = <<>> /\ fence = NoFence

Settle(i, learned) ==
  log' = Append(log, [id |-> i, ver |-> Len(log) + 1, learned |-> learned])

Learn(i) == fence = NoFence /\ Settle(i, TRUE) /\ UNCHANGED fence

Refuse(i) == Settle(i, FALSE) /\ fence' = [id |-> i, ver |-> Len(log) + 1]

LiftFence == fence' = NoFence /\ UNCHANGED log

LNext == LiftFence \/ \E i \in Ids : Learn(i) \/ Refuse(i)

LSpec == LInit /\ [][LNext]_lvars
=============================================================================
